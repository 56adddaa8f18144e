-------------------------- MODULE ComponentProofs --------------------------
(***************************************************************************)
(* The smaller components, for every value of their constants: migrations  *)
(* under the advisory lock, the frame codec, the health sentinel and       *)
(* version ranges.                                                         *)
(***************************************************************************)
EXTENDS MigrationLock, FrameDecoderProperties, HealthConsumer, VersionRange, Inductions

-----------------------------------------------------------------------------
(* Migrations: one call at a time works on the database, and what the      *)
(* others are told is true.  Calls use different sessions (Exclusive), a   *)
(* call that works has the lock (Holds) and one session has it (OneHeld):  *)
(* OneMigrator.  So the ledger a call has read stays what it read (Ledger), *)
(* which is why a migration never collides.  An error follows a fault      *)
(* (Fault), a call on its way to Ok has made its schemas and migrations    *)
(* (Done), and a waiting session has the lock only after a dropped call    *)
(* (Strand).                                                               *)

Active == {"lock", "released", "kept"} \cup Locked

Exclusive ==
  /\ \A c \in Callers : stage[c] \in Active =>
       conn[c] \in Sessions /\ slot[conn[c]] = "used" /\ PoolOf[conn[c]] = home[c]
  /\ \A c, d \in Callers :
       stage[c] \in Active /\ stage[d] \in Active /\ conn[c] = conn[d] => c = d

Holds == \A c \in Callers : Inside(c) => held[conn[c]] > 0

OneHeld == \A s, t \in Sessions : held[s] > 0 /\ held[t] > 0 => s = t

LockInv == MigrationTypeOK /\ Exclusive /\ Holds /\ OneHeld

LEMMA LockInit == MigrationInit => LockInv
<1> SUFFICES ASSUME MigrationInit PROVE LockInv
  OBVIOUS
<1>1. MigrationTypeOK
  <2>1. << >> \in Seq(1 .. LastMigration)
    OBVIOUS
  <2> QED BY <2>1 DEF MigrationInit, MigrationTypeOK, Stages
<1>2. Exclusive /\ Holds /\ OneHeld
  BY DEF MigrationInit, Exclusive, Holds, OneHeld, Inside, Active, Locked
<1> QED BY <1>1, <1>2 DEF LockInv

-----------------------------------------------------------------------------
(* Types                                                                   *)

LEMMA EndsTyped ==
  ASSUME MigrationTypeOK, NEW c \in Callers, NEW outcome \in Outcomes, Ends(c, outcome)
  PROVE  /\ home' \in [Callers -> Processes]
         /\ stage' \in [Callers -> Stages]
         /\ conn' \in [Callers -> Sessions \cup {NoSession}]
         /\ opts' \in [Callers -> Options]
         /\ step' \in [Callers -> Nat]
         /\ primary' \in [Callers -> {"ok", "ddl", "migrate"}]
<1>1. outcome \in Stages
  BY DEF Stages
<1> QED BY <1>1 DEF Ends, MigrationTypeOK

LEMMA CallTyped ==
  ASSUME LockInv, NEW c \in Callers, Call(c) \/ Acquire(c) \/ AcquireFails(c)
  PROVE  MigrationTypeOK'
<1>1. CASE Call(c)
  <2>1. stage' \in [Callers -> Stages]
    BY <1>1 DEF Call, LockInv, MigrationTypeOK, Stages, Outcomes
  <2> QED BY <1>1, <2>1 DEF Call, LockInv, MigrationTypeOK, poolVars
<1>2. CASE Acquire(c)
  <2>1. PICK s \in Mine(c) :
          /\ UNCHANGED up \/ up' = [up EXCEPT ![s] = TRUE]
          /\ slot' = [slot EXCEPT ![s] = "used"]
          /\ conn' = [conn EXCEPT ![c] = s]
    BY <1>2 DEF Acquire
  <2>2. s \in Sessions
    BY DEF Mine
  <2>3. /\ slot' \in [Sessions -> {"closed", "idle", "used"}]
        /\ up' \in [Sessions -> BOOLEAN]
        /\ conn' \in [Callers -> Sessions \cup {NoSession}]
    BY <2>1, <2>2 DEF LockInv, MigrationTypeOK
  <2>4. stage' = [stage EXCEPT ![c] = "lock"]
        /\ UNCHANGED <<home, opts, step, primary, fault, held, open, schemas, applied>>
    BY <1>2 DEF Acquire
  <2>5. stage' \in [Callers -> Stages]
    BY <2>4 DEF LockInv, MigrationTypeOK, Stages
  <2> QED BY <2>3, <2>4, <2>5 DEF LockInv, MigrationTypeOK
<1>3. CASE AcquireFails(c)
  <2>1. Ends(c, "connect") /\ "connect" \in Outcomes
    BY <1>3 DEF AcquireFails, Outcomes
  <2> QED BY <1>3, <2>1, EndsTyped DEF AcquireFails, LockInv, MigrationTypeOK, poolVars
<1> QED BY <1>1, <1>2, <1>3

LEMMA LockTyped ==
  ASSUME LockInv, NEW c \in Callers, Lock(c) \/ LockFails(c)
  PROVE  MigrationTypeOK'
<1>0. conn[c] \in Sessions
  BY DEF Lock, LockFails, LockInv, Exclusive, Active
<1>01. held[conn[c]] + 1 \in Nat
  BY <1>0 DEF LockInv, MigrationTypeOK
<1>1. CASE Lock(c)
  <2>1. stage' \in [Callers -> Stages]
    BY <1>1 DEF Lock, LockInv, MigrationTypeOK, Stages, Locked
  <2> QED BY <1>1, <1>01, <2>1 DEF Lock, LockInv, MigrationTypeOK
<1>2. CASE LockFails(c)
  <2>1. Ends(c, "connect") /\ "connect" \in Outcomes
    BY <1>2 DEF LockFails, Outcomes
  <2>2. /\ slot' \in [Sessions -> {"closed", "idle", "used"}]
        /\ up' = up /\ held' \in [Sessions -> Nat]
    <3>1. /\ slot \in [Sessions -> {"closed", "idle", "used"}]
          /\ held \in [Sessions -> Nat] /\ up \in [Sessions -> BOOLEAN]
      BY DEF LockInv, MigrationTypeOK
    <3>2. CASE GivenBack(conn[c])
      BY <3>1, <3>2 DEF GivenBack
    <3>3. CASE /\ held' = [held EXCEPT ![conn[c]] = @ + 1]
               /\ slot' = [slot EXCEPT ![conn[c]] = "closed"] /\ UNCHANGED up
      BY <1>0, <1>01, <3>1, <3>3
    <3> QED BY <1>2, <3>2, <3>3 DEF LockFails
  <2>3. MigrationTypeOK /\ fault' = [fault EXCEPT ![c] = TRUE] /\ UNCHANGED <<open, schemas, applied>>
    BY <1>2 DEF LockFails, LockInv
  <2>4. /\ home' \in [Callers -> Processes] /\ stage' \in [Callers -> Stages]
        /\ conn' \in [Callers -> Sessions \cup {NoSession}] /\ opts' \in [Callers -> Options]
        /\ step' \in [Callers -> Nat] /\ primary' \in [Callers -> {"ok", "ddl", "migrate"}]
    BY <2>1, <2>3, EndsTyped
  <2>5. fault' \in [Callers -> BOOLEAN]
    BY <2>3 DEF MigrationTypeOK
  <2> QED BY <2>2, <2>3, <2>4, <2>5, Zenon DEF MigrationTypeOK
<1> QED BY <1>1, <1>2

\* The steps between the lock and the unlock: the session is left alone.
Inner(c) ==
  \/ CreateSchema(c) \/ CreateFails(c) \/ SetSearchPath(c) \/ SetFails(c) \/ ReadLedger(c)
  \/ ReadFails(c) \/ Apply(c) \/ Collide(c) \/ ApplyFails(c) \/ Migrated(c)

LEMMA InnerTyped ==
  ASSUME LockInv, NEW c \in Callers, Inner(c)
  PROVE  MigrationTypeOK'
<1> USE DEF LockInv, MigrationTypeOK, poolVars, BlockEnds
<1>0. /\ "read" \in Stages /\ "apply" \in Stages /\ "unlock" \in Stages
  BY DEF Stages, Locked
<1>1. CASE CreateSchema(c)
  BY <1>1 DEF CreateSchema
<1>2. CASE SetSearchPath(c)
  BY <1>0, <1>2 DEF SetSearchPath
<1>3. CASE ReadLedger(c)
  BY <1>0, <1>3 DEF ReadLedger
<1>4. CASE CreateFails(c)
  BY <1>0, <1>4 DEF CreateFails
<1>5. CASE SetFails(c)
  BY <1>0, <1>5 DEF SetFails
<1>6. CASE ReadFails(c)
  BY <1>0, <1>6 DEF ReadFails
<1>7. CASE Collide(c)
  BY <1>0, <1>7 DEF Collide
<1>8. CASE Migrated(c)
  BY <1>0, <1>8 DEF Migrated
<1>9. CASE Apply(c)
  <2>1. step[c] \in 1 .. LastMigration
    BY <1>9, MigrationAssumption DEF Apply
  <2>2. Append(applied, step[c]) \in Seq(1 .. LastMigration)
    BY <2>1
  <2> QED BY <1>9, <2>2 DEF Apply
<1>10. CASE ApplyFails(c)
  <2>1. step[c] > Len(applied) => step[c] \in 1 .. LastMigration
    BY <1>10, MigrationAssumption DEF ApplyFails
  <2>2. step[c] > Len(applied) => Append(applied, step[c]) \in Seq(1 .. LastMigration)
    BY <2>1
  <2>3. applied' \in Seq(1 .. LastMigration)
    BY <1>10, <2>2 DEF ApplyFails
  <2> QED BY <1>0, <1>10, <2>3 DEF ApplyFails
<1> QED BY <1>1, <1>2, <1>3, <1>4, <1>5, <1>6, <1>7, <1>8, <1>9, <1>10 DEF Inner

LEMMA CombineTyped ==
  ASSUME NEW first \in {"ok", "ddl", "migrate"}, NEW released \in BOOLEAN
  PROVE  Combine(first, released) \in Outcomes
BY DEF Combine, Outcomes

LEMMA OuterTyped ==
  ASSUME LockInv, NEW c \in Callers, Unlock(c) \/ UnlockFails(c) \/ Close(c) \/ Drop(c)
  PROVE  MigrationTypeOK'
<1>1. CASE Unlock(c)
  <2>1. conn[c] \in Sessions /\ held[conn[c]] > 0
    BY <1>1 DEF Unlock, LockInv, Exclusive, Holds, Inside, Active, Locked
  <2>2. held[conn[c]] - 1 \in Nat
    BY <2>1 DEF LockInv, MigrationTypeOK
  <2>3. "released" \in Stages
    BY DEF Stages
  <2> QED BY <1>1, <2>1, <2>2, <2>3 DEF Unlock, LockInv, MigrationTypeOK
<1>2. CASE UnlockFails(c)
  <2>1. conn[c] \in Sessions
    BY <1>2 DEF UnlockFails, LockInv, Exclusive, Active, Locked
  <2>2. held[conn[c]] > 0 => held[conn[c]] - 1 \in Nat
    BY <2>1 DEF LockInv, MigrationTypeOK
  <2>3. "kept" \in Stages
    BY DEF Stages
  <2>4. held' \in [Sessions -> Nat]
    BY <1>2, <2>1, <2>2 DEF UnlockFails, LockInv, MigrationTypeOK
  <2> QED BY <1>2, <2>3, <2>4 DEF UnlockFails, LockInv, MigrationTypeOK
<1>3. CASE Close(c)
  <2>1. Combine(primary[c], stage[c] = "released") \in Outcomes
    BY CombineTyped DEF LockInv, MigrationTypeOK
  <2>2. /\ slot' \in [Sessions -> {"closed", "idle", "used"}]
        /\ up' \in [Sessions -> BOOLEAN] /\ held' \in [Sessions -> Nat]
    <3>1. CASE Closed(conn[c])
      BY <3>1 DEF Closed, LockInv, MigrationTypeOK
    <3>2. CASE Discarded(conn[c])
      BY <3>2 DEF Discarded, LockInv, MigrationTypeOK
    <3> QED BY <1>3, <3>1, <3>2 DEF Close
  <2> QED BY <1>3, <2>1, <2>2, EndsTyped DEF Close, LockInv, MigrationTypeOK
<1>4. CASE Drop(c)
  <2>1. /\ slot' \in [Sessions -> {"closed", "idle", "used"}]
        /\ up' \in [Sessions -> BOOLEAN] /\ held' \in [Sessions -> Nat]
    BY <1>4 DEF Drop, GivenBack, Discarded, LockInv, MigrationTypeOK
  <2> QED BY <1>4, <2>1, EndsTyped DEF Drop, LockInv, MigrationTypeOK, Outcomes
<1> QED BY <1>1, <1>2, <1>3, <1>4

\* Everything a call does.
CallStep(c) == \/ Call(c) \/ Acquire(c) \/ AcquireFails(c) \/ Lock(c) \/ LockFails(c) \/ Inner(c)
               \/ Unlock(c) \/ UnlockFails(c) \/ Close(c) \/ Drop(c)

\* What happens to the sessions by themselves.
SessionStep == \/ \E s \in Sessions : Break(s) \/ Reap(s)
               \/ \E p \in Processes : ClosePool(p)

LEMMA NextSplits ==
  MigrationNext <=> (SessionStep \/ \E c \in Callers : CallStep(c))
BY DEF MigrationNext, SessionStep, CallStep, Works, Fails, Inner

LEMMA SessionsTyped ==
  ASSUME LockInv, SessionStep
  PROVE  MigrationTypeOK'
<1>1. UNCHANGED <<callVars, schemas, applied>>
  BY DEF SessionStep, Break, Reap, ClosePool
<1>2. /\ slot' \in [Sessions -> {"closed", "idle", "used"}]
      /\ up' \in [Sessions -> BOOLEAN] /\ held' \in [Sessions -> Nat]
      /\ open' \subseteq Processes
  <2>1. CASE \E s \in Sessions : Break(s)
    BY <2>1 DEF Break, LockInv, MigrationTypeOK
  <2>2. CASE \E s \in Sessions : Reap(s)
    BY <2>2 DEF Reap, LockInv, MigrationTypeOK
  <2>3. CASE \E p \in Processes : ClosePool(p)
    <3>1. PICK p \in Processes : ClosePool(p)
      BY <2>3
    <3>2. /\ open' = open \ {p}
          /\ slot' = [s \in Sessions |-> IF PoolOf[s] = p THEN "closed" ELSE slot[s]]
          /\ held' = [s \in Sessions |-> IF PoolOf[s] = p /\ up[s] THEN 0 ELSE held[s]]
      BY <3>1 DEF ClosePool
    <3>3. up' = [s \in Sessions |-> up[s] /\ PoolOf[s] # p]
      BY <3>1 DEF ClosePool
    <3>4. up' \in [Sessions -> BOOLEAN]
      BY <3>3, Zenon
    <3> QED BY <3>2, <3>4 DEF LockInv, MigrationTypeOK
  <2> QED BY <2>1, <2>2, <2>3 DEF SessionStep
<1> QED BY <1>1, <1>2 DEF callVars, LockInv, MigrationTypeOK

LEMMA Typed ==
  ASSUME LockInv, MigrationNext
  PROVE  MigrationTypeOK'
<1>1. CASE SessionStep
  BY <1>1, SessionsTyped
<1>2. ASSUME NEW c \in Callers, CallStep(c)
      PROVE  MigrationTypeOK'
  BY <1>2, CallTyped, LockTyped, InnerTyped, OuterTyped DEF CallStep
<1> QED BY <1>1, <1>2, NextSplits

-----------------------------------------------------------------------------
(* One call at a time                                                      *)

\* A call's step is its own business.
LEMMA OthersKept ==
  ASSUME LockInv, NEW c \in Callers, CallStep(c), NEW d \in Callers, d # c
  PROVE  /\ stage'[d] = stage[d] /\ conn'[d] = conn[d] /\ step'[d] = step[d]
         /\ primary'[d] = primary[d] /\ fault'[d] = fault[d]
<1> USE DEF LockInv, MigrationTypeOK
<1>1. CASE Call(c)
  BY <1>1 DEF Call
<1>2. CASE Acquire(c)
  BY <1>2 DEF Acquire
<1>3. CASE AcquireFails(c) \/ LockFails(c)
  BY <1>3 DEF AcquireFails, LockFails, Ends
<1>4. CASE Lock(c)
  BY <1>4 DEF Lock
<1>5. CASE Inner(c)
  BY <1>5 DEF Inner, CreateSchema, CreateFails, SetSearchPath, SetFails, ReadLedger, ReadFails,
              Apply, Collide, ApplyFails, Migrated, BlockEnds
<1>6. CASE Unlock(c) \/ UnlockFails(c)
  BY <1>6 DEF Unlock, UnlockFails
<1>7. CASE Close(c) \/ Drop(c)
  BY <1>7 DEF Close, Drop, Ends
<1> QED BY <1>1, <1>2, <1>3, <1>4, <1>5, <1>6, <1>7 DEF CallStep

LEMMA PlansKept ==
  ASSUME NEW c \in Callers, CallStep(c)
  PROVE  home' = home /\ opts' = opts
BY DEF CallStep, Call, Acquire, AcquireFails, LockFails, Ends, Lock, Inner, CreateSchema, CreateFails,
       SetSearchPath, SetFails, ReadLedger, ReadFails, Apply, Collide, ApplyFails, Migrated, BlockEnds,
       Unlock, UnlockFails, Close, Drop

\* A step of c that touches no session but those of T, which no other call uses.
LEMMA Preserved ==
  ASSUME LockInv, NEW c \in Callers, CallStep(c), NEW T,
         \A d \in Callers \ {c} : stage[d] \in Active => conn[d] \notin T,
         \A s \in Sessions \ T : slot'[s] = slot[s] /\ held'[s] = held[s] /\ (up'[s] => up[s]),
         stage'[c] \in Active => /\ conn'[c] \in Sessions \cap T /\ slot'[conn'[c]] = "used"
                                 /\ PoolOf[conn'[c]] = home[c],
         (stage'[c] \in Locked /\ up'[conn'[c]]) => held'[conn'[c]] > 0
  PROVE  Exclusive' /\ Holds'
<1>1. home' = home
  BY PlansKept
<1>2. \A d \in Callers \ {c} : stage'[d] = stage[d] /\ conn'[d] = conn[d]
  BY OthersKept
<1>3. Exclusive'
  <2>1. ASSUME NEW d \in Callers, stage'[d] \in Active
        PROVE  conn'[d] \in Sessions /\ slot'[conn'[d]] = "used" /\ PoolOf[conn'[d]] = home'[d]
    BY <1>1, <1>2, <2>1 DEF LockInv, Exclusive
  <2>2. ASSUME NEW d \in Callers, NEW e \in Callers, d # e,
               stage'[d] \in Active, stage'[e] \in Active
        PROVE  conn'[d] # conn'[e]
    BY <1>2, <2>2 DEF LockInv, Exclusive
  <2> QED BY <2>1, <2>2 DEF Exclusive, Active, Locked
<1>4. ASSUME NEW d \in Callers, stage'[d] \in Locked, up'[conn'[d]]
      PROVE  held'[conn'[d]] > 0
  <2>1. CASE d = c
    BY <1>4, <2>1
  <2>2. CASE d # c
    <3>1. /\ conn[d] \in Sessions \ T /\ conn'[d] = conn[d]
          /\ stage[d] \in Locked
      BY <1>2, <1>4, <2>2 DEF LockInv, Exclusive, Active
    <3>2. up[conn[d]] /\ held'[conn[d]] = held[conn[d]]
      BY <1>4, <3>1
    <3> QED BY <3>1, <3>2 DEF LockInv, Holds, Inside
  <2> QED BY <2>1, <2>2
<1> QED BY <1>3, <1>4 DEF Holds, Inside, Locked
\* The session of a call that has one is its own.
LEMMA OwnSession ==
  ASSUME LockInv, NEW c \in Callers, stage[c] \in Active
  PROVE  /\ conn[c] \in Sessions /\ slot[conn[c]] = "used" /\ PoolOf[conn[c]] = home[c]
         /\ \A d \in Callers \ {c} : stage[d] \in Active => conn[d] # conn[c]
BY DEF LockInv, Exclusive

LEMMA InnerStays ==
  ASSUME LockInv, NEW c \in Callers, Inner(c)
  PROVE  /\ stage[c] \in Locked /\ stage'[c] \in Locked
         /\ conn' = conn /\ UNCHANGED poolVars
BY DEF Inner, CreateSchema, CreateFails, SetSearchPath, SetFails, ReadLedger, ReadFails,
       Apply, Collide, ApplyFails, Migrated, BlockEnds, Locked, LockInv, MigrationTypeOK

LEMMA EndsInactive ==
  ASSUME LockInv, NEW c \in Callers, NEW outcome \in Outcomes, Ends(c, outcome)
  PROVE  stage'[c] = outcome /\ stage'[c] \notin Active
BY DEF Ends, LockInv, MigrationTypeOK, Outcomes, Active, Locked

\* A step that takes no session changes at most the one the call has.
LEMMA OwnOnly ==
  ASSUME LockInv, NEW c \in Callers, CallStep(c), ~Acquire(c), NEW s \in Sessions,
         ~(stage[c] \in Active /\ s = conn[c])
  PROVE  slot'[s] = slot[s] /\ held'[s] = held[s] /\ up'[s] = up[s]
<1> USE DEF LockInv, MigrationTypeOK
<1>1. CASE Call(c) \/ AcquireFails(c)
  BY <1>1 DEF Call, AcquireFails, poolVars
<1>2. CASE Lock(c) \/ LockFails(c)
  BY <1>2 DEF Lock, LockFails, GivenBack, Active
<1>3. CASE Inner(c)
  BY <1>3, InnerStays DEF poolVars
<1>4. CASE Unlock(c) \/ UnlockFails(c)
  BY <1>4 DEF Unlock, UnlockFails, Active, Locked
<1>5. CASE Close(c)
  <2>1. s # conn[c]
    BY <1>5 DEF Close, Active
  <2>2. Closed(conn[c]) \/ Discarded(conn[c])
    BY <1>5 DEF Close
  <2> QED BY <2>1, <2>2 DEF Closed, Discarded
<1>6. CASE Drop(c)
  <2>1. CASE stage[c] = "acquire"
    BY <1>6, <2>1 DEF Drop, Locked
  <2>2. CASE stage[c] # "acquire"
    <3>1. s # conn[c] /\ (GivenBack(conn[c]) \/ Discarded(conn[c]))
      BY <1>6, <2>2 DEF Drop, Active
    <3> QED BY <3>1 DEF GivenBack, Discarded
  <2> QED BY <2>1, <2>2
<1> QED BY <1>1, <1>2, <1>3, <1>4, <1>5, <1>6 DEF CallStep

\* Where a call's step leaves it.
LEMMA Moves ==
  ASSUME LockInv, NEW c \in Callers, CallStep(c)
  PROVE  /\ stage'[c] \in Locked => Lock(c) \/ Inner(c)
         /\ stage'[c] \in {"released", "kept"} => Unlock(c) \/ UnlockFails(c)
         /\ stage'[c] = "lock" => Acquire(c)
<1>1. CASE Call(c) \/ Acquire(c) \/ Unlock(c) \/ UnlockFails(c)
  BY <1>1 DEF Call, Acquire, Unlock, UnlockFails, LockInv, MigrationTypeOK, Locked
<1>2. CASE Lock(c) \/ Inner(c)
  BY <1>2, InnerStays DEF Lock, LockInv, MigrationTypeOK, Locked
<1>3. CASE AcquireFails(c) \/ LockFails(c) \/ Drop(c)
  BY <1>3, EndsInactive DEF AcquireFails, LockFails, Drop, Outcomes, Active
<1>4. CASE Close(c)
  <2>1. Combine(primary[c], stage[c] = "released") \in Outcomes
    BY CombineTyped DEF LockInv, MigrationTypeOK
  <2> QED BY <1>4, <2>1, EndsInactive DEF Close, Active
<1> QED BY <1>1, <1>2, <1>3, <1>4 DEF CallStep

LEMMA CallExclusive ==
  ASSUME LockInv, NEW c \in Callers, CallStep(c)
  PROVE  Exclusive' /\ Holds'
<1>1. CASE Acquire(c)
  <2>1. PICK s \in Mine(c) :
          /\ slot[s] # "used"
          /\ UNCHANGED up \/ up' = [up EXCEPT ![s] = TRUE]
          /\ slot' = [slot EXCEPT ![s] = "used"]
          /\ conn' = [conn EXCEPT ![c] = s]
    BY <1>1 DEF Acquire
  <2>2. s \in Sessions /\ PoolOf[s] = home[c]
    BY DEF Mine
  <2>3. stage'[c] = "lock" /\ held' = held
    BY <1>1 DEF Acquire, LockInv, MigrationTypeOK
  <2>4. \A d \in Callers \ {c} : stage[d] \in Active => conn[d] \notin {s}
    BY <2>1, OwnSession
  <2>5. \A t \in Sessions \ {s} : slot'[t] = slot[t] /\ held'[t] = held[t] /\ (up'[t] => up[t])
    BY <2>1, <2>2, <2>3 DEF LockInv, MigrationTypeOK
  <2>6. conn'[c] \in Sessions \cap {s} /\ slot'[conn'[c]] = "used" /\ PoolOf[conn'[c]] = home[c]
    BY <2>1, <2>2 DEF LockInv, MigrationTypeOK
  <2>7. stage'[c] \notin Locked
    BY <2>3 DEF Locked
  <2> QED BY <2>4, <2>5, <2>6, <2>7, Preserved
<1>2. CASE ~Acquire(c)
  <2> DEFINE T == IF stage[c] \in Active THEN {conn[c]} ELSE {}
  <2>1. \A d \in Callers \ {c} : stage[d] \in Active => conn[d] \notin T
    BY OwnSession
  <2>2. \A s \in Sessions \ T : slot'[s] = slot[s] /\ held'[s] = held[s] /\ (up'[s] => up[s])
    BY <1>2, OwnOnly
  <2>3. ASSUME stage'[c] \in Active
        PROVE  /\ conn'[c] \in Sessions \cap T /\ slot'[conn'[c]] = "used"
               /\ PoolOf[conn'[c]] = home[c]
               /\ (stage'[c] \in Locked /\ up'[conn'[c]]) => held'[conn'[c]] > 0
    <3>1. Lock(c) \/ Inner(c) \/ Unlock(c) \/ UnlockFails(c)
      BY <1>2, <2>3, Moves DEF Active
    <3>2. stage[c] \in Active /\ conn' = conn /\ slot' = slot /\ up' = up
      BY <3>1, InnerStays DEF Lock, Unlock, UnlockFails, Active, Locked, poolVars
    <3>3. conn[c] \in Sessions /\ slot[conn[c]] = "used" /\ PoolOf[conn[c]] = home[c]
      BY <3>2, OwnSession
    <3>4. ASSUME stage'[c] \in Locked, up[conn[c]]
          PROVE  held'[conn[c]] > 0
      <4>1. CASE Lock(c)
        BY <4>1, <3>3 DEF Lock, LockInv, MigrationTypeOK
      <4>2. CASE Inner(c)
        BY <4>2, <3>4, InnerStays DEF LockInv, Holds, Inside, poolVars
      <4> QED BY <3>4, <4>1, <4>2, Moves
    <3> QED BY <3>2, <3>3, <3>4
  <2>4. stage'[c] \in Locked => stage'[c] \in Active
    BY DEF Active
  <2> HIDE DEF T
  <2> QED BY <2>1, <2>2, <2>3, <2>4, Preserved
<1> QED BY <1>1, <1>2

\* The lock passes to a session only when no other has it.
LEMMA CallOneHeld ==
  ASSUME LockInv, NEW c \in Callers, CallStep(c)
  PROVE  OneHeld'
<1>1. \/ \A s \in Sessions : held'[s] > 0 => held[s] > 0
      \/ LockFree(conn[c]) /\ \A s \in Sessions \ {conn[c]} : held'[s] = held[s]
  <2> USE DEF LockInv, MigrationTypeOK
  <2>1. CASE Call(c) \/ Acquire(c) \/ AcquireFails(c)
    BY <2>1 DEF Call, Acquire, AcquireFails, poolVars
  <2>2. CASE Lock(c)
    BY <2>2 DEF Lock
  <2>3. CASE LockFails(c)
    BY <2>3 DEF LockFails, GivenBack
  <2>4. CASE Inner(c)
    BY <2>4, InnerStays DEF poolVars
  <2>5. CASE Unlock(c)
    <3>1. held' = [held EXCEPT ![conn[c]] = held[conn[c]] - 1] /\ conn[c] \in Sessions
      BY <2>5, OwnSession DEF Unlock, Active, Locked
    <3> QED BY <3>1
  <2>6. CASE UnlockFails(c)
    <3>1. conn[c] \in Sessions
      BY <2>6, OwnSession DEF UnlockFails, Active, Locked
    <3> QED BY <2>6, <3>1 DEF UnlockFails
  <2>7. CASE Close(c)
    <3>1. held' = held \/ held' = [held EXCEPT ![conn[c]] = 0]
      BY <2>7 DEF Close, Closed, Discarded
    <3>2. held \in [Sessions -> Nat]
      OBVIOUS
    <3> HIDE DEF LockInv, MigrationTypeOK
    <3>3. \A s \in Sessions : held'[s] > 0 => held[s] > 0
      BY <3>1, <3>2
    <3> QED BY <3>3
  <2>8. CASE Drop(c)
    BY <2>8 DEF Drop, GivenBack, Discarded
  <2> QED BY <2>1, <2>2, <2>3, <2>4, <2>5, <2>6, <2>7, <2>8 DEF CallStep
<1>2. CASE \A s \in Sessions : held'[s] > 0 => held[s] > 0
  BY <1>2 DEF LockInv, OneHeld
<1>3. CASE LockFree(conn[c]) /\ \A s \in Sessions \ {conn[c]} : held'[s] = held[s]
  BY <1>3 DEF LockFree, OneHeld
<1> QED BY <1>1, <1>2, <1>3

\* Sessions break, are reaped and are closed with their pool: none that a call
\* works with loses the lock before the call can notice.
LEMMA SessionsKeepLock ==
  ASSUME LockInv, SessionStep
  PROVE  Exclusive' /\ Holds' /\ OneHeld'
<1>1. stage' = stage /\ conn' = conn /\ home' = home
  BY DEF SessionStep, Break, Reap, ClosePool, callVars
<1>2. \A s \in Sessions : held'[s] > 0 => held[s] > 0
  <2>1. ASSUME NEW s \in Sessions, Break(s) \/ Reap(s)
        PROVE  \A t \in Sessions : held'[t] > 0 => held[t] > 0
    BY <2>1 DEF Break, Reap, LockInv, MigrationTypeOK
  <2>2. ASSUME NEW p \in Processes, ClosePool(p)
        PROVE  \A t \in Sessions : held'[t] > 0 => held[t] > 0
    <3>1. held' = [s \in Sessions |-> IF PoolOf[s] = p /\ up[s] THEN 0 ELSE held[s]]
      BY <2>2 DEF ClosePool
    <3> QED BY <3>1
  <2> QED BY <2>1, <2>2 DEF SessionStep
<1>3. \A c \in Callers : stage[c] \in Active =>
        /\ slot'[conn[c]] = slot[conn[c]]
        /\ up'[conn[c]] => (up[conn[c]] /\ held'[conn[c]] = held[conn[c]])
  <2> SUFFICES ASSUME NEW c \in Callers, stage[c] \in Active
               PROVE  /\ slot'[conn[c]] = slot[conn[c]]
                      /\ up'[conn[c]] => (up[conn[c]] /\ held'[conn[c]] = held[conn[c]])
    OBVIOUS
  <2>0. conn[c] \in Sessions /\ PoolOf[conn[c]] = home[c]
    BY OwnSession
  <2>1. ASSUME NEW s \in Sessions, Break(s)
        PROVE  /\ slot'[conn[c]] = slot[conn[c]]
               /\ up'[conn[c]] => (up[conn[c]] /\ held'[conn[c]] = held[conn[c]])
    BY <2>0, <2>1 DEF Break, LockInv, MigrationTypeOK
  <2>2. ASSUME NEW s \in Sessions, Reap(s)
        PROVE  /\ slot'[conn[c]] = slot[conn[c]]
               /\ up'[conn[c]] => (up[conn[c]] /\ held'[conn[c]] = held[conn[c]])
    BY <2>0, <2>2 DEF Reap, LockInv, MigrationTypeOK
  <2>3. ASSUME NEW p \in Processes, ClosePool(p)
        PROVE  /\ slot'[conn[c]] = slot[conn[c]]
               /\ up'[conn[c]] => (up[conn[c]] /\ held'[conn[c]] = held[conn[c]])
    <3>1. home[c] # p
      BY <2>3 DEF ClosePool, Active, Locked, Outcomes
    <3>2. slot'[conn[c]] = slot[conn[c]] /\ held'[conn[c]] = held[conn[c]]
      BY <2>0, <2>3, <3>1 DEF ClosePool
    <3>3. up'[conn[c]] <=> (up[conn[c]] /\ PoolOf[conn[c]] # p)
      BY <2>0, <2>3, Zenon DEF ClosePool
    <3> QED BY <3>2, <3>3
  <2> QED BY <2>1, <2>2, <2>3 DEF SessionStep
<1>4. Exclusive'
  BY <1>1, <1>3 DEF LockInv, Exclusive, Active, Locked
<1>5. Holds'
  BY <1>1, <1>3 DEF LockInv, Holds, Inside, Active, Locked
<1>6. OneHeld'
  BY <1>2 DEF LockInv, OneHeld
<1> QED BY <1>4, <1>5, <1>6

LEMMA LockStep == LockInv /\ [MigrationNext]_migVars => LockInv'
<1> SUFFICES ASSUME LockInv, [MigrationNext]_migVars
             PROVE  LockInv'
  OBVIOUS
<1>1. ASSUME NEW c \in Callers, CallStep(c)
      PROVE  LockInv'
  BY <1>1, NextSplits, Typed, CallExclusive, CallOneHeld DEF LockInv
<1>2. CASE SessionStep
  BY <1>2, NextSplits, Typed, SessionsKeepLock DEF LockInv
<1>3. CASE UNCHANGED migVars
  <2> USE <1>3 DEF migVars, callVars, poolVars
  <2>1. MigrationTypeOK'
    BY DEF LockInv, MigrationTypeOK
  <2>2. Exclusive'
    BY DEF LockInv, Exclusive, Active, Locked
  <2>3. Holds' /\ OneHeld'
    BY DEF LockInv, Holds, OneHeld, Inside, Locked
  <2> QED BY <2>1, <2>2, <2>3 DEF LockInv
<1> QED BY <1>1, <1>2, <1>3, NextSplits

LEMMA LockSafe == MigrationSpec => []LockInv
BY LockInit, LockStep, PTL DEF MigrationSpec

\* Every call, session, pool and ledger stays one the code can have.
THEOREM MigrationTypeCorrect == MigrationSpec => []MigrationTypeOK
<1>1. LockInv => MigrationTypeOK
  BY DEF LockInv
<1> QED BY <1>1, LockSafe, PTL

LEMMA OneInside ==
  ASSUME LockInv, NEW c \in Callers, NEW d \in Callers, Inside(c), Inside(d)
  PROVE  c = d
<1>1. /\ conn[c] \in Sessions /\ conn[d] \in Sessions
      /\ stage[c] \in Active /\ stage[d] \in Active
  BY DEF LockInv, Exclusive, Inside, Active
<1>2. held[conn[c]] > 0 /\ held[conn[d]] > 0
  BY DEF LockInv, Holds
<1>3. conn[c] = conn[d]
  BY <1>1, <1>2 DEF LockInv, OneHeld
<1> QED BY <1>1, <1>3 DEF LockInv, Exclusive

\* run_migrations: however many processes migrate, fail or are dropped, one at
\* a time is between the lock and the unlock on a session that still works.
THEOREM OneMigratorAlways == MigrationSpec => []OneMigrator
<1>1. LockInv => OneMigrator
  BY OneInside DEF OneMigrator
<1> QED BY <1>1, LockSafe, PTL
-----------------------------------------------------------------------------
(* What the calls are told                                                 *)

Ledger ==
  /\ Len(applied) <= LastMigration
  /\ \A c \in Callers : stage[c] = "apply" =>
       /\ step[c] <= Len(applied) + 1
       /\ up[conn[c]] => step[c] = Len(applied) + 1

Faulty == {"kept", "connect", "ddl", "migrate", "unlock_error"}

Fault == \A c \in Callers : (primary[c] # "ok" \/ stage[c] \in Faulty) => fault[c]

Created(c, n) == \A i \in DOMAIN opts[c].schemas : i < n => opts[c].schemas[i] \in schemas

AllCreated(c) == \A i \in DOMAIN opts[c].schemas : opts[c].schemas[i] \in schemas

Succeeded(c) == \/ stage[c] \in {"unlock", "released", "kept"} /\ primary[c] = "ok"
                \/ stage[c] \in {"ok", "unlock_error"}

Done == \A c \in Callers :
  /\ stage[c] = "schemas" => Created(c, step[c])
  /\ stage[c] \in {"read", "apply"} => AllCreated(c)
  /\ Succeeded(c) => AllCreated(c) /\ Len(applied) = LastMigration

Waiting(s) == slot[s] = "idle" \/ \E c \in Callers : stage[c] = "lock" /\ conn[c] = s

GoneFrom(p) == \E c \in Callers : home[c] = p /\ stage[c] = "gone"

Strand == \A s \in Sessions : held[s] > 0 /\ Waiting(s) => GoneFrom(PoolOf[s])

ToldInv == Ledger /\ Fault /\ Done /\ Strand

LEMMA ToldInit == MigrationInit => ToldInv
<1> SUFFICES ASSUME MigrationInit PROVE ToldInv
  OBVIOUS
<1>1. Ledger
  BY MigrationAssumption DEF MigrationInit, Ledger
<1>2. Fault /\ Strand
  BY DEF MigrationInit, Fault, Faulty, Strand
<1>3. Done
  BY DEF MigrationInit, Done, Succeeded
<1> QED BY <1>1, <1>2, <1>3 DEF ToldInv

\* The ledger grows by the next migration of one call whose session has the
\* lock, and by nothing else.
LEMMA LedgerGrows ==
  ASSUME LockInv, NEW c \in Callers, CallStep(c)
  PROVE  \/ applied' = applied
         \/ /\ stage[c] = "apply" /\ held[conn[c]] > 0
            /\ step[c] <= LastMigration /\ step[c] > Len(applied)
            /\ applied' = Append(applied, step[c])
<1>1. CASE Apply(c)
  <2>1. held[conn[c]] > 0
    BY <1>1 DEF Apply, LockInv, Holds, Inside, Locked
  <2> QED BY <1>1, <2>1 DEF Apply
<1>2. CASE ~Apply(c)
  BY <1>2 DEF CallStep, Call, Acquire, AcquireFails, LockFails, Lock, Inner, CreateSchema, CreateFails,
       SetSearchPath, SetFails, ReadLedger, ReadFails, Collide, ApplyFails, Migrated,
       Unlock, UnlockFails, Close, Drop
<1> QED BY <1>1, <1>2

LEMMA SchemasGrow ==
  ASSUME NEW c \in Callers, CallStep(c)
  PROVE  schemas \subseteq schemas'
BY DEF CallStep, Call, Acquire, AcquireFails, LockFails, Lock, Inner, CreateSchema, CreateFails,
       SetSearchPath, SetFails, ReadLedger, ReadFails, Apply, Collide, ApplyFails, Migrated,
       Unlock, UnlockFails, Close, Drop

\* A step of one call brings no session of another back to life.
LEMMA UpKept ==
  ASSUME LockInv, NEW c \in Callers, CallStep(c), NEW d \in Callers, d # c, stage[d] \in Active
  PROVE  up'[conn[d]] => up[conn[d]]
<1>1. conn[d] \in Sessions /\ slot[conn[d]] = "used"
  BY OwnSession
<1>2. CASE Acquire(c)
  <2>1. PICK s \in Mine(c) :
          /\ slot[s] # "used"
          /\ UNCHANGED up \/ up' = [up EXCEPT ![s] = TRUE]
    BY <1>2 DEF Acquire
  <2> QED BY <1>1, <2>1 DEF LockInv, MigrationTypeOK
<1>3. CASE ~Acquire(c)
  <2>1. ~(stage[c] \in Active /\ conn[d] = conn[c])
    BY OwnSession
  <2> QED BY <1>1, <1>3, <2>1, OwnOnly
<1> QED BY <1>2, <1>3

LEMMA LedgerLength ==
  ASSUME NEW m \in Nat, NEW n \in Nat, NEW l \in Nat, n <= l, n > m
  PROVE  m + 1 <= l
OBVIOUS

\* What a call has read of the ledger stays true while it holds the lock.
LEMMA CallLedger ==
  ASSUME LockInv, ToldInv, NEW c \in Callers, CallStep(c)
  PROVE  Ledger'
<1>1. MigrationTypeOK'
  BY Typed, NextSplits
<1>2. /\ Len(applied) \in Nat /\ Len(applied') \in Nat
      /\ Len(applied') = Len(applied) \/ Len(applied') = Len(applied) + 1
  BY <1>1, LedgerGrows DEF LockInv, MigrationTypeOK
<1>3. Len(applied') <= LastMigration
  <2>1. CASE applied' = applied
    BY <2>1 DEF ToldInv, Ledger
  <2>2. CASE applied' # applied
    <3>1. step[c] \in Nat /\ step[c] <= LastMigration /\ step[c] > Len(applied)
      BY <2>2, LedgerGrows DEF LockInv, MigrationTypeOK
    <3>2. Len(applied) + 1 <= LastMigration
      BY <1>2, <3>1, LedgerLength, MigrationAssumption
    <3> QED BY <1>2, <3>2 DEF ToldInv, Ledger
  <2> QED BY <2>1, <2>2
<1>4. ASSUME NEW d \in Callers, d # c, stage'[d] = "apply"
      PROVE  step'[d] <= Len(applied') + 1 /\ (up'[conn'[d]] => step'[d] = Len(applied') + 1)
  <2>1. stage[d] = "apply" /\ step'[d] = step[d] /\ conn'[d] = conn[d] /\ step[d] \in Nat
    BY <1>4, OthersKept DEF LockInv, MigrationTypeOK
  <2>2. step[d] <= Len(applied) + 1 /\ (up[conn[d]] => step[d] = Len(applied) + 1)
    BY <2>1 DEF ToldInv, Ledger
  <2>3. ASSUME up'[conn[d]]
        PROVE  applied' = applied /\ up[conn[d]]
    <3>1. up[conn[d]]
      BY <2>1, <2>3, <1>4, UpKept DEF Active, Locked
    <3>2. stage[d] \in Active /\ held[conn[d]] > 0 /\ conn[d] \in Sessions
      BY <2>1, <3>1, OwnSession DEF LockInv, Holds, Inside, Locked, Active
    <3>3. ASSUME stage[c] = "apply", held[conn[c]] > 0
          PROVE  FALSE
      <4>1. stage[c] \in Active
        BY <3>3 DEF Active, Locked
      <4>2. conn[c] \in Sessions /\ conn[d] # conn[c]
        BY <4>1, <3>2, <1>4, OwnSession
      <4> QED BY <3>2, <3>3, <4>2 DEF LockInv, OneHeld
    <3> QED BY <3>1, <3>3, LedgerGrows
  <2> QED BY <1>2, <2>1, <2>2, <2>3
<1>5. ASSUME stage'[c] = "apply"
      PROVE  step'[c] <= Len(applied') + 1 /\ (up'[conn'[c]] => step'[c] = Len(applied') + 1)
  <2>1. Inner(c)
    BY <1>5, Moves DEF Locked, Lock, LockInv, MigrationTypeOK
  <2>2. CASE ReadLedger(c)
    BY <2>2, <1>2 DEF ReadLedger, LockInv, MigrationTypeOK
  <2>3. CASE Apply(c)
    <3>1. step[c] = Len(applied) + 1 /\ stage[c] = "apply"
      BY <2>3 DEF Apply, ToldInv, Ledger
    <3>2. applied' = Append(applied, step[c]) /\ step'[c] = step[c] + 1
      BY <2>3 DEF Apply, LockInv, MigrationTypeOK
    <3>3. Len(applied') = Len(applied) + 1
      BY <3>2 DEF LockInv, MigrationTypeOK
    <3> QED BY <1>2, <3>1, <3>2, <3>3
  <2>4. CASE ~ReadLedger(c) /\ ~Apply(c)
    BY <1>5, <2>1, <2>4 DEF Inner, CreateSchema, CreateFails, SetSearchPath, SetFails, ReadFails,
       Collide, ApplyFails, Migrated, BlockEnds, LockInv, MigrationTypeOK
  <2> QED BY <2>2, <2>3, <2>4
<1> QED BY <1>3, <1>4, <1>5 DEF Ledger
\* A version that another call has inserted is never met: what stops a call is
\* a fault.
LEMMA CallFault ==
  ASSUME LockInv, ToldInv, NEW c \in Callers, CallStep(c)
  PROVE  Fault'
<1>1. ASSUME NEW d \in Callers, d # c
      PROVE  (primary'[d] # "ok" \/ stage'[d] \in Faulty) => fault'[d]
  BY <1>1, OthersKept DEF ToldInv, Fault
<1>2. (primary'[c] # "ok" \/ stage'[c] \in Faulty) => fault'[c]
  <2> USE DEF LockInv, MigrationTypeOK
  <2>0. (primary[c] # "ok" \/ stage[c] \in Faulty) => fault[c]
    BY DEF ToldInv, Fault
  <2>1. CASE Call(c)
    BY <2>0, <2>1 DEF Call, Faulty
  <2>2. CASE Acquire(c)
    BY <2>0, <2>2 DEF Acquire, Faulty
  <2>3. CASE AcquireFails(c) \/ LockFails(c)
    BY <2>3 DEF AcquireFails, LockFails
  <2>4. CASE Lock(c)
    BY <2>0, <2>4 DEF Lock, Faulty
  <2>5. CASE Inner(c)
    <3>1. CASE CreateFails(c) \/ SetFails(c) \/ ReadFails(c) \/ ApplyFails(c)
      BY <3>1 DEF CreateFails, SetFails, ReadFails, ApplyFails
    <3>2. CASE CreateSchema(c) \/ SetSearchPath(c) \/ ReadLedger(c) \/ Apply(c)
      BY <2>0, <3>2 DEF CreateSchema, SetSearchPath, ReadLedger, Apply, Faulty
    <3>3. CASE Collide(c)
      BY <3>3 DEF Collide, ToldInv, Ledger
    <3>4. CASE Migrated(c)
      BY <3>4 DEF Migrated, BlockEnds, Faulty
    <3> QED BY <2>5, <3>1, <3>2, <3>3, <3>4 DEF Inner
  <2>6. CASE Unlock(c)
    BY <2>0, <2>6 DEF Unlock, Faulty
  <2>7. CASE UnlockFails(c)
    BY <2>7 DEF UnlockFails
  <2>8. CASE Close(c)
    <3>1. /\ stage'[c] = Combine(primary[c], stage[c] = "released")
          /\ primary'[c] = "ok" /\ fault' = fault /\ stage[c] \in {"released", "kept"}
      BY <2>8 DEF Close, Ends
    <3> QED BY <2>0, <3>1 DEF Combine, Faulty
  <2>9. CASE Drop(c)
    BY <2>9 DEF Drop, Ends, Faulty
  <2> QED BY <2>1, <2>2, <2>3, <2>4, <2>5, <2>6, <2>7, <2>8, <2>9 DEF CallStep
<1> QED BY <1>1, <1>2 DEF Fault, Faulty

LEMMA CallDone ==
  ASSUME LockInv, ToldInv, NEW c \in Callers, CallStep(c)
  PROVE  Done'
<1>1. schemas \subseteq schemas' /\ opts' = opts
  BY SchemasGrow, PlansKept
<1>2. Len(applied) = LastMigration => Len(applied') = LastMigration
  <2>1. MigrationTypeOK' /\ Ledger'
    BY Typed, NextSplits, CallLedger
  <2>2. Len(applied) \in Nat /\ Len(applied') \in Nat
        /\ (Len(applied') = Len(applied) \/ Len(applied') = Len(applied) + 1)
    BY <2>1, LedgerGrows DEF LockInv, MigrationTypeOK
  <2> QED BY <2>1, <2>2, MigrationAssumption DEF Ledger
<1>3. ASSUME NEW d \in Callers, d # c
      PROVE  /\ stage'[d] = "schemas" => Created(d, step[d])'
             /\ stage'[d] \in {"read", "apply"} => AllCreated(d)'
             /\ Succeeded(d)' => AllCreated(d)' /\ Len(applied') = LastMigration
  <2>1. stage'[d] = stage[d] /\ step'[d] = step[d] /\ primary'[d] = primary[d]
    BY <1>3, OthersKept
  <2> QED BY <1>1, <1>2, <2>1 DEF ToldInv, Done, Created, AllCreated, Succeeded
<1>4. /\ stage'[c] = "schemas" => Created(c, step[c])'
      /\ stage'[c] \in {"read", "apply"} => AllCreated(c)'
      /\ Succeeded(c)' => AllCreated(c)' /\ Len(applied') = LastMigration
  <2> USE DEF LockInv, MigrationTypeOK
  <2>0. DOMAIN opts[c].schemas = 1 .. Len(opts[c].schemas) /\ Len(opts[c].schemas) \in Nat
    BY MigrationAssumption
  <2>1. CASE Call(c) \/ Acquire(c)
    BY <2>1 DEF Call, Acquire, Succeeded
  <2>2. CASE AcquireFails(c) \/ LockFails(c) \/ Drop(c)
    BY <2>2 DEF AcquireFails, LockFails, Drop, Ends, Succeeded
  <2>3. CASE Lock(c)
    <3>1. stage'[c] = "schemas" /\ step'[c] = 1
      BY <2>3 DEF Lock
    <3> QED BY <1>1, <2>0, <3>1 DEF Created, Succeeded
  <2>4. CASE CreateSchema(c)
    <3>1. /\ stage[c] = "schemas" /\ stage'[c] = "schemas" /\ step'[c] = step[c] + 1
          /\ schemas' = schemas \cup {opts[c].schemas[step[c]]}
      BY <2>4 DEF CreateSchema
    <3>2. Created(c, step[c])
      BY <3>1 DEF ToldInv, Done
    <3>3. ASSUME NEW i \in DOMAIN opts[c].schemas, i < step[c] + 1
          PROVE  opts[c].schemas[i] \in schemas'
      <4>1. i < step[c] \/ i = step[c]
        BY <2>0, <3>3
      <4> QED BY <3>1, <3>2, <4>1 DEF Created
    <3> QED BY <1>1, <3>1, <3>3 DEF Created, Succeeded
  <2>5. CASE SetSearchPath(c)
    <3>1. /\ stage[c] = "schemas" /\ stage'[c] = "read" /\ step[c] > Len(opts[c].schemas)
      BY <2>5 DEF SetSearchPath
    <3>2. \A i \in DOMAIN opts[c].schemas : i < step[c]
      BY <2>0, <3>1
    <3>3. AllCreated(c)
      BY <3>1, <3>2 DEF ToldInv, Done, Created, AllCreated
    <3> QED BY <1>1, <3>1, <3>3 DEF AllCreated, Succeeded
  <2>6. CASE ReadLedger(c) \/ Apply(c)
    <3>1. stage[c] \in {"read", "apply"} /\ stage'[c] = "apply"
      BY <2>6 DEF ReadLedger, Apply
    <3>2. AllCreated(c)
      BY <3>1 DEF ToldInv, Done
    <3> QED BY <1>1, <3>1, <3>2 DEF AllCreated, Succeeded
  <2>7. CASE CreateFails(c) \/ SetFails(c) \/ ReadFails(c) \/ Collide(c) \/ ApplyFails(c)
    <3>1. stage'[c] = "unlock" /\ primary'[c] \in {"ddl", "migrate"}
      BY <2>7 DEF CreateFails, SetFails, ReadFails, Collide, ApplyFails, BlockEnds
    <3> QED BY <3>1 DEF Succeeded
  <2>8. CASE Migrated(c)
    <3>1. /\ stage[c] = "apply" /\ stage'[c] = "unlock" /\ step[c] > LastMigration
          /\ applied' = applied
      BY <2>8 DEF Migrated, BlockEnds
    <3>2. AllCreated(c) /\ step[c] <= Len(applied) + 1 /\ Len(applied) <= LastMigration
      BY <3>1 DEF ToldInv, Done, Ledger
    <3>3. Len(applied) = LastMigration
      BY <3>1, <3>2, MigrationAssumption
    <3> QED BY <1>1, <3>1, <3>2, <3>3 DEF AllCreated
  <2>9. CASE Unlock(c) \/ UnlockFails(c)
    <3>1. stage[c] = "unlock" /\ stage'[c] \in {"released", "kept"} /\ primary' = primary
      BY <2>9 DEF Unlock, UnlockFails
    <3>2. primary[c] = "ok" => AllCreated(c) /\ Len(applied) = LastMigration
      BY <3>1 DEF ToldInv, Done, Succeeded
    <3> QED BY <1>1, <1>2, <3>1, <3>2 DEF AllCreated, Succeeded
  <2>10. CASE Close(c)
    <3>1. /\ stage[c] \in {"released", "kept"}
          /\ stage'[c] = Combine(primary[c], stage[c] = "released")
      BY <2>10 DEF Close, Ends
    <3>2. primary[c] = "ok" => AllCreated(c) /\ Len(applied) = LastMigration
      BY <3>1 DEF ToldInv, Done, Succeeded
    <3>3. stage'[c] \in {"ok", "ddl", "migrate", "unlock_error"}
          /\ (stage'[c] \in {"ok", "unlock_error"} => primary[c] = "ok")
      BY <3>1 DEF Combine
    <3> QED BY <1>1, <1>2, <3>2, <3>3 DEF AllCreated, Succeeded
  <2> QED BY <2>1, <2>2, <2>3, <2>4, <2>5, <2>6, <2>7, <2>8, <2>9, <2>10 DEF CallStep, Inner
<1> QED
  <2>1. \A d \in Callers :
          /\ stage'[d] = "schemas" => Created(d, step[d])'
          /\ stage'[d] \in {"read", "apply"} => AllCreated(d)'
          /\ Succeeded(d)' => AllCreated(d)' /\ Len(applied') = LastMigration
    BY <1>3, <1>4
  <2> QED BY <2>1 DEF Done
\* A session goes idle with the lock only when its call is dropped.
LEMMA CallStrand ==
  ASSUME LockInv, ToldInv, NEW c \in Callers, CallStep(c)
  PROVE  Strand'
<1> SUFFICES ASSUME NEW s \in Sessions, held'[s] > 0, Waiting(s)'
             PROVE  GoneFrom(PoolOf[s])'
  BY DEF Strand
<1> USE DEF LockInv, MigrationTypeOK
<1>1. home' = home /\ stage[c] # "gone"
  BY PlansKept DEF CallStep, Call, Acquire, AcquireFails, LockFails, Lock, Inner, CreateSchema,
     CreateFails, SetSearchPath, SetFails, ReadLedger, ReadFails, Apply, Collide, ApplyFails,
     Migrated, Unlock, UnlockFails, Close, Drop, Locked
<1>2. ASSUME held[s] > 0, Waiting(s)
      PROVE  GoneFrom(PoolOf[s])'
  <2>1. PICK d \in Callers : home[d] = PoolOf[s] /\ stage[d] = "gone"
    BY <1>2 DEF ToldInv, Strand, GoneFrom
  <2>2. stage'[d] = "gone"
    BY <1>1, <2>1, OthersKept
  <2> QED BY <1>1, <2>1, <2>2 DEF GoneFrom
<1>3. CASE Acquire(c)
  <2>1. PICK t \in Mine(c) :
          /\ slot[t] = "idle" \/ held[t] = 0
          /\ slot' = [slot EXCEPT ![t] = "used"]
          /\ conn' = [conn EXCEPT ![c] = t]
    BY <1>3 DEF Acquire
  <2>2. held' = held
    BY <1>3 DEF Acquire
  <2>3. CASE s = t
    BY <1>2, <2>1, <2>2, <2>3 DEF Waiting
  <2>4. CASE s # t
    <3>1. slot'[s] = slot[s] /\ conn'[c] # s
      BY <2>1, <2>4
    <3>2. Waiting(s)
      BY <3>1, OthersKept DEF Waiting
    <3> QED BY <1>2, <2>2, <3>2
  <2> QED BY <2>3, <2>4
<1>4. CASE ~Acquire(c)
  <2>1. stage'[c] # "lock"
    BY <1>4, Moves
  <2>2. CASE ~(stage[c] \in Active /\ s = conn[c])
    <3>1. slot'[s] = slot[s] /\ held'[s] = held[s]
      BY <1>4, <2>2, OwnOnly
    <3>2. Waiting(s)
      BY <2>1, <3>1, OthersKept DEF Waiting
    <3> QED BY <1>2, <3>1, <3>2
  <2>3. CASE stage[c] \in Active /\ s = conn[c]
    <3>1. \A d \in Callers \ {c} : ~(stage'[d] = "lock" /\ conn'[d] = s)
      BY <2>3, OwnSession, OthersKept DEF Active
    <3>2. slot[s] = "used" /\ PoolOf[s] = home[c]
      BY <2>3, OwnSession
    <3>3. slot'[s] = "idle"
      BY <2>1, <3>1 DEF Waiting
    <3>4. CASE LockFails(c)
      <4>1. stage[c] = "lock" /\ held'[s] = held[s]
        BY <2>3, <3>3, <3>4 DEF LockFails, GivenBack
      <4> QED BY <1>2, <2>3, <4>1 DEF Waiting
    <3>5. CASE Close(c)
      <4>1. Closed(conn[c]) \/ Discarded(conn[c])
        BY <3>5 DEF Close
      <4> QED BY <2>3, <3>3, <4>1 DEF Closed, Discarded
    <3>6. CASE Drop(c)
      <4>1. stage'[c] = "gone"
        BY <3>6 DEF Drop, Ends
      <4> QED BY <1>1, <3>2, <4>1 DEF GoneFrom
    <3>7. CASE Lock(c) \/ Unlock(c) \/ UnlockFails(c) \/ Call(c) \/ AcquireFails(c)
      BY <3>2, <3>3, <3>7 DEF Lock, Unlock, UnlockFails, Call, AcquireFails, poolVars
    <3>8. CASE Inner(c)
      BY <3>2, <3>3, <3>8, InnerStays DEF poolVars
    <3> QED BY <1>4, <3>4, <3>5, <3>6, <3>7, <3>8 DEF CallStep
  <2> QED BY <2>2, <2>3
<1> QED BY <1>3, <1>4

LEMMA SessionsTold ==
  ASSUME LockInv, ToldInv, SessionStep
  PROVE  ToldInv'
<1>1. UNCHANGED <<callVars, schemas, applied>>
  BY DEF SessionStep, Break, Reap, ClosePool
<1>2. \A s \in Sessions : up'[s] => up[s]
  <2>1. ASSUME NEW s \in Sessions, Break(s) \/ Reap(s)
        PROVE  \A t \in Sessions : up'[t] => up[t]
    BY <2>1 DEF Break, Reap, LockInv, MigrationTypeOK
  <2>2. ASSUME NEW p \in Processes, ClosePool(p)
        PROVE  \A t \in Sessions : up'[t] => up[t]
    BY <2>2, Zenon DEF ClosePool
  <2> QED BY <2>1, <2>2 DEF SessionStep
<1>3. \A s \in Sessions : (held'[s] > 0 => held[s] > 0) /\ (slot'[s] = "idle" => slot[s] = "idle")
  <2>1. ASSUME NEW s \in Sessions, Break(s) \/ Reap(s)
        PROVE  \A t \in Sessions :
                 (held'[t] > 0 => held[t] > 0) /\ (slot'[t] = "idle" => slot[t] = "idle")
    BY <2>1 DEF Break, Reap, LockInv, MigrationTypeOK
  <2>2. ASSUME NEW p \in Processes, ClosePool(p)
        PROVE  \A t \in Sessions :
                 (held'[t] > 0 => held[t] > 0) /\ (slot'[t] = "idle" => slot[t] = "idle")
    <3>1. /\ held' = [s \in Sessions |-> IF PoolOf[s] = p /\ up[s] THEN 0 ELSE held[s]]
          /\ slot' = [s \in Sessions |-> IF PoolOf[s] = p THEN "closed" ELSE slot[s]]
      BY <2>2 DEF ClosePool
    <3> QED BY <3>1
  <2> QED BY <2>1, <2>2 DEF SessionStep
<1>4. Ledger'
  <2>1. \A c \in Callers : stage[c] = "apply" => conn[c] \in Sessions
    BY OwnSession DEF Active, Locked
  <2> QED BY <1>1, <1>2, <2>1 DEF callVars, ToldInv, Ledger
<1>5. Fault'
  BY <1>1 DEF callVars, ToldInv, Fault, Faulty
<1>6. Done'
  BY <1>1 DEF callVars, ToldInv, Done, Created, AllCreated, Succeeded
<1>7. Strand'
  BY <1>1, <1>3 DEF callVars, ToldInv, Strand, Waiting, GoneFrom
<1> QED BY <1>4, <1>5, <1>6, <1>7 DEF ToldInv

LEMMA ToldStep == LockInv /\ ToldInv /\ [MigrationNext]_migVars => ToldInv'
<1> SUFFICES ASSUME LockInv, ToldInv, [MigrationNext]_migVars
             PROVE  ToldInv'
  OBVIOUS
<1>1. ASSUME NEW c \in Callers, CallStep(c)
      PROVE  ToldInv'
  BY <1>1, CallLedger, CallFault, CallDone, CallStrand DEF ToldInv
<1>2. CASE SessionStep
  BY <1>2, SessionsTold
<1>3. CASE UNCHANGED migVars
  <2> USE <1>3 DEF migVars, callVars, poolVars, ToldInv
  <2>1. Ledger' /\ Fault'
    BY DEF Ledger, Fault, Faulty
  <2>2. Done'
    BY DEF Done, Created, AllCreated, Succeeded
  <2>3. Strand'
    BY DEF Strand, Waiting, GoneFrom
  <2> QED BY <2>1, <2>2, <2>3
<1> QED BY <1>1, <1>2, <1>3, NextSplits

LEMMA ToldSafe == MigrationSpec => []ToldInv
BY ToldInit, LockSafe, ToldStep, PTL DEF MigrationSpec

\* run_migrations: no call fails because another one migrates.
THEOREM FailsOnlyByFaultAlways == MigrationSpec => []FailsOnlyByFault
<1>1. ToldInv => FailsOnlyByFault
  BY DEF ToldInv, Fault, Faulty, FailsOnlyByFault
<1> QED BY <1>1, ToldSafe, PTL

\* combine_migration_outcome: who reads Ok, or an unlock error, may rely on the
\* schemas and the migrations being there.
THEOREM OutcomeTellsAlways == MigrationSpec => []OutcomeTells
<1>1. ToldInv => OutcomeTells
  BY DEF ToldInv, Done, Succeeded, AllCreated, OutcomeTells
<1> QED BY <1>1, ToldSafe, PTL

\* close() of the locked connection: an idle session with the lock is a dropped
\* call's.
THEOREM StrandedOnlyByDropAlways == MigrationSpec => []StrandedOnlyByDrop
<1>1. ToldInv => StrandedOnlyByDrop
  BY DEF ToldInv, Strand, Waiting, GoneFrom, StrandedOnlyByDrop
<1> QED BY <1>1, ToldSafe, PTL

-----------------------------------------------------------------------------
(* The frame codec: its buffers are bounded for every ceiling, group size  *)
(* and prefix length, and every way of cutting the body.                   *)

\* Until the first error the payload is shorter than the length expected.
Filling ==
  failed = Fine =>
    /\ Len(prefix) <= MaxBytes
    /\ expected = None => payload = << >>
    /\ expected # None => Len(payload) < expected

DecoderInv == FrameTypeOK /\ Filling

LEMMA DecoderInit == FrameInit => DecoderInv
<1> SUFFICES ASSUME FrameInit PROVE DecoderInv
  OBVIOUS
<1>1. FrameTypeOK
  <2>1. << >> \in Seq(Bytes) /\ << >> \in Seq(Messages)
    OBVIOUS
  <2> QED BY <2>1 DEF FrameInit, FrameTypeOK, None, Fine
<1>2. Filling
  BY FrameAssumption DEF FrameInit, Filling
<1> QED BY <1>1, <1>2 DEF DecoderInv

LEMMA PrefixByteTyped ==
  ASSUME FrameTypeOK, NEW b \in Bytes, PrefixByte(b)
  PROVE  /\ prefix' \in Seq(Bytes) /\ payload' \in Seq(Bytes)
         /\ expected' \in {None} \cup 0 .. Maximum
         /\ messages' \in Seq(Messages) /\ pushing' \in BOOLEAN
         /\ failed' \in {Fine, "malformed", "oversize", "decode"}
<1> DEFINE p == Append(prefix, b)
<1>1. p \in Seq(Bytes) /\ << >> \in Seq(Bytes) /\ << >> \in Seq(Messages)
  BY DEF FrameTypeOK
<1>2. Append(messages, << >>) \in Seq(Messages)
  BY FrameAssumption DEF FrameTypeOK
<1> QED
  BY <1>1, <1>2 DEF PrefixByte, Fail, Continue, Fits, FrameTypeOK

LEMMA PrefixByteFills ==
  ASSUME DecoderInv, NEW b \in Bytes, PrefixByte(b) PROVE Filling'
<1> SUFFICES ASSUME failed' = Fine
             PROVE  /\ Len(prefix') <= MaxBytes
                    /\ expected' = None => payload' = << >>
                    /\ expected' # None => Len(payload') < expected'
  BY DEF Filling
<1>1. failed = Fine /\ expected = None /\ payload = << >>
  BY DEF PrefixByte, Fail, Continue, Fine, DecoderInv, Filling
<1>2. CASE /\ Len(Append(prefix, b)) <= MaxBytes
           /\ prefix' = Append(prefix, b) /\ UNCHANGED <<payload, expected>>
  BY <1>1, <1>2
<1>3. CASE /\ Fits(Value(Append(prefix, b))) /\ Value(Append(prefix, b)) # 0
           /\ prefix' = << >> /\ payload' = << >> /\ expected' = Value(Append(prefix, b))
  <2>1. expected' \in 0 .. Maximum /\ expected' # 0
    BY <1>3 DEF Fits
  <2> QED BY <1>3, <2>1, FrameAssumption DEF None
<1>4. CASE prefix' = << >> /\ payload' = << >> /\ UNCHANGED expected
  BY <1>1, <1>4, FrameAssumption
<1> QED
  BY <1>1, <1>2, <1>3, <1>4 DEF PrefixByte, Fail, Continue, Fine

LEMMA PayloadByteStep ==
  ASSUME DecoderInv, NEW b \in Bytes, PayloadByte(b)
  PROVE  /\ prefix' \in Seq(Bytes) /\ payload' \in Seq(Bytes)
         /\ expected' \in {None} \cup 0 .. Maximum
         /\ messages' \in Seq(Messages) /\ pushing' \in BOOLEAN
         /\ failed' \in {Fine, "malformed", "oversize", "decode"}
         /\ Filling'
<1> DEFINE p == Append(payload, b)
<1>1. p \in Seq(Bytes) /\ Len(p) = Len(payload) + 1 /\ Len(payload) \in Nat
  BY DEF DecoderInv, FrameTypeOK
<1>2. expected \in 0 .. Maximum /\ UNCHANGED prefix
  BY DEF PayloadByte, DecoderInv, FrameTypeOK
<1>3. failed = Fine => Len(payload) < expected /\ Len(prefix) <= MaxBytes
  BY DEF PayloadByte, DecoderInv, Filling
<1>4. /\ prefix' \in Seq(Bytes) /\ payload' \in Seq(Bytes)
      /\ expected' \in {None} \cup 0 .. Maximum
      /\ messages' \in Seq(Messages) /\ pushing' \in BOOLEAN
      /\ failed' \in {Fine, "malformed", "oversize", "decode"}
  <2>1. << >> \in Seq(Bytes) /\ << >> \in Seq(Messages)
    OBVIOUS
  <2>2. prefix \in Seq(Bytes) /\ messages \in Seq(Messages)
        /\ failed \in {Fine, "malformed", "oversize", "decode"}
    BY DEF DecoderInv, FrameTypeOK
  <2>3. /\ expected' = expected \/ expected' = None
        /\ payload' = p \/ payload' = << >>
    BY DEF PayloadByte, Completed, Rejected
  <2>4. failed' \in {failed, "decode"} /\ pushing' \in BOOLEAN
    BY DEF PayloadByte, Completed, Rejected, Fail, Continue
  <2>5. messages' \in Seq(Messages)
    <3>1. CASE messages' = messages \/ messages' = << >>
      BY <3>1, <2>1, <2>2
    <3>2. CASE messages' = Append(messages, p) /\ p \in Messages
      BY <3>2, <2>2
    <3> QED BY <3>1, <3>2 DEF PayloadByte, Completed, Rejected, Fail
  <2> HIDE DEF p
  <2> QED BY <1>1, <1>2, <2>1, <2>2, <2>3, <2>4, <2>5
<1>5. Filling'
  <2> SUFFICES ASSUME failed' = Fine
               PROVE  /\ Len(prefix') <= MaxBytes
                      /\ expected' = None => payload' = << >>
                      /\ expected' # None => Len(payload') < expected'
    BY DEF Filling
  <2>1. failed = Fine
    BY DEF PayloadByte, Rejected, Fail, Continue, Fine
  <2>2. CASE Len(p) # expected /\ payload' = p /\ UNCHANGED expected
    <3>1. expected # None
      BY DEF PayloadByte
    <3>2. Len(payload') < expected
      <4> HIDE DEF p
      <4> QED BY <2>1, <2>2, <1>1, <1>2, <1>3, FrameAssumption
    <3> QED BY <2>1, <2>2, <1>2, <1>3, <3>1, <3>2
  <2>3. CASE payload' = << >> /\ expected' = None
    BY <2>1, <2>3, <1>2, <1>3
  <2> QED BY <2>1, <2>2, <2>3 DEF PayloadByte, Completed, Rejected, Fail, Continue, Fine
<1> QED BY <1>4, <1>5

LEMMA DecoderNext == ASSUME DecoderInv, [FrameNext]_frameVars PROVE DecoderInv'
<1> USE DEF DecoderInv
<1>1. ASSUME NEW b \in Bytes, Byte(b) PROVE DecoderInv'
  <2>1. wire' \in Seq(Bytes) /\ UNCHANGED <<delivered, result>>
    BY <1>1 DEF Byte, FrameTypeOK
  <2> QED BY <1>1, <2>1, PrefixByteTyped, PrefixByteFills, PayloadByteStep DEF Byte, FrameTypeOK
<1>2. CASE PushReturns
  <2>1. delivered' \in Seq(Messages) /\ messages' \in Seq(Messages)
    BY <1>2 DEF PushReturns, FrameTypeOK
  <2> QED BY <1>2, <2>1 DEF PushReturns, FrameTypeOK, Filling
<1>3. CASE Finish
  BY <1>3 DEF Finish, FrameTypeOK, Filling
<1>4. CASE UNCHANGED frameVars
  BY <1>4 DEF frameVars, FrameTypeOK, Filling
<1> QED BY <1>1, <1>2, <1>3, <1>4 DEF FrameNext

\* The decoder's state has its type in every reachable state.
THEOREM FrameTypeCorrect == FrameSpec => []FrameTypeOK
<1>1. DecoderInv => FrameTypeOK
  BY DEF DecoderInv
<1> QED BY <1>1, DecoderInit, DecoderNext, PTL DEF FrameSpec

\* Until push first fails, a decoder never holds more than one prefix or one
\* payload under the ceiling, whatever arrives.
THEOREM StaysBounded == FrameSpec => []BuffersBounded
<1>1. DecoderInv => BuffersBounded
  <2> SUFFICES ASSUME DecoderInv, failed = Fine
               PROVE  /\ Len(prefix) <= MaxBytes
                      /\ Len(payload) <= Maximum
                      /\ expected = None => payload = << >>
    BY DEF BuffersBounded
  <2>1. Len(prefix) <= MaxBytes /\ (expected = None => payload = << >>)
    BY DEF DecoderInv, Filling
  <2>2. CASE expected = None
    BY <2>1, <2>2, FrameAssumption
  <2>3. CASE expected # None
    <3>1. expected \in 0 .. Maximum /\ Len(payload) < expected /\ Len(payload) \in Nat
      BY <2>3 DEF DecoderInv, Filling, FrameTypeOK
    <3> QED BY <2>1, <3>1, FrameAssumption, <2>3
  <2> QED BY <2>2, <2>3
<1> QED BY <1>1, DecoderInit, DecoderNext, PTL DEF FrameSpec

-----------------------------------------------------------------------------
(* What a prefix spells, whatever its length: the value of the groups is   *)
(* reached one group at a time (Sums), and so is the spelling of a value.  *)
(* A prefix longer by a byte spells no less (LongerSpellsMore), and a whole *)
(* canonical prefix is the one spelling the encoder makes of its value     *)
(* (OneSpelling).                                                          *)

\* The sums of Value: s[i] is what the last i groups of p spell.
Sums(s, p) ==
  /\ s \in [0 .. Len(p) -> Nat] /\ s[0] = 0
  /\ \A i \in 1 .. Len(p) : s[i] = s[i - 1] * Base + p[Len(p) - i + 1].bits

\* The sums exist, and the last is the value.
LEMMA SumsExist ==
  ASSUME NEW p \in Seq(Bytes)
  PROVE  \E s : Sums(s, p) /\ Value(p) = s[Len(p)]
<1> DEFINE n == Len(p)
           turn == [i \in 1 .. n |-> [v \in Nat |-> v * Base + p[n - i + 1].bits]]
<1>1. n \in Nat /\ 0 <= n /\ 0 \in Nat
  OBVIOUS
<1>2. \A i \in 1 .. n : p[n - i + 1].bits \in 0 .. Base - 1
  <2> SUFFICES ASSUME NEW i \in 1 .. n PROVE p[n - i + 1].bits \in 0 .. Base - 1
    OBVIOUS
  <2>1. n - i + 1 \in 1 .. n
    BY <1>1
  <2>2. p[n - i + 1] \in Bytes
    BY <2>1
  <2> QED BY <2>2 DEF Bytes
<1>3. turn \in [0 + 1 .. n -> [Nat -> Nat]]
  <2> HIDE DEF n
  <2>1. \A i \in 1 .. n, v \in Nat : v * Base + p[n - i + 1].bits \in Nat
    <3> SUFFICES ASSUME NEW i \in 1 .. n, NEW v \in Nat
                 PROVE  v * Base + p[n - i + 1].bits \in Nat
      OBVIOUS
    <3> DEFINE d == p[n - i + 1].bits
    <3>1. d \in 0 .. Base - 1
      BY <1>2
    <3> HIDE DEF d
    <3>2. v * Base \in Nat
      BY FrameAssumption
    <3>3. v * Base + d \in Nat
      BY <3>1, <3>2, FrameAssumption
    <3> QED BY <3>3 DEF d
  <2>2. turn \in [1 .. n -> [Nat -> Nat]]
    BY <2>1
  <2>3. 0 + 1 = 1
    OBVIOUS
  <2> QED BY <2>2, <2>3
<1> HIDE DEF turn, n
<1>4. PICK s : Steps(s, Nat, 0, n, 0, turn)
  BY <1>1, <1>3, StepsExist, Zenon
<1>5. /\ s \in [0 .. n -> Nat] /\ s[0] = 0
      /\ \A i \in 1 .. n : s[i] = turn[i][s[i - 1]]
  BY <1>4 DEF Steps
<1>6. ASSUME NEW i \in 1 .. n PROVE s[i] = s[i - 1] * Base + p[n - i + 1].bits
  <2>1. i - 1 \in 0 .. n
    BY <1>1
  <2>2. s[i - 1] \in Nat
    BY <2>1, <1>5
  <2>3. turn[i][s[i - 1]] = s[i - 1] * Base + p[n - i + 1].bits
    BY <2>2 DEF turn
  <2> QED BY <1>5, <2>3
<1>7. \A i \in 0 .. n : i = 0 \/ i \in 1 .. n
  BY <1>1
<1>8. s = [i \in 0 .. n |-> IF i = 0 THEN 0 ELSE s[i - 1] * Base + p[n - i + 1].bits]
  <2>1. \A i \in 0 .. n : s[i] = IF i = 0 THEN 0 ELSE s[i - 1] * Base + p[n - i + 1].bits
    BY <1>5, <1>6, <1>7
  <2> QED BY <1>5, <2>1
<1> DEFINE c == CHOOSE c : c = [i \in 0 .. n |-> IF i = 0 THEN 0
                                               ELSE c[i - 1] * Base + p[n - i + 1].bits]
<1>9. c = [i \in 0 .. n |-> IF i = 0 THEN 0 ELSE c[i - 1] * Base + p[n - i + 1].bits]
  BY <1>8, Zenon
<1>10. Value(p) = c[n]
  BY Zenon DEF Value, n
<1> HIDE DEF c
<1>11. GoOnAlike(c, s, 0, n)
  <2>1. 0 \in 0 .. n
    BY <1>1
  <2>2. c[0] = 0
    BY <1>9, <2>1
  <2>3. ASSUME NEW i \in 1 .. n PROVE c[i] = c[i - 1] * Base + p[n - i + 1].bits
    <3>1. i \in 0 .. n /\ i # 0
      BY <1>1
    <3> QED BY <1>9, <3>1
  <2>4. ASSUME NEW i \in 0 + 1 .. n, c[i - 1] = s[i - 1] PROVE c[i] = s[i]
    <3>1. i \in 1 .. n
      BY <2>4
    <3> QED BY <2>3, <2>4, <3>1, <1>6
  <2> QED BY <1>5, <2>2, <2>4 DEF GoOnAlike
<1>12. c[n] = s[n]
  <2>1. Alike(c, s, 0, n)
    BY <1>1, <1>11, StayAlike, Zenon
  <2>2. n \in 0 .. n
    BY <1>1
  <2> QED BY <2>1, <2>2, Zenon DEF Alike
<1> QED BY <1>5, <1>6, <1>10, <1>12 DEF Sums, n

\* A longer prefix spells no less: a decoder that found a length over the
\* ceiling finds every longer prefix over it as well.
LEMMA LongerSpellsMore ==
  ASSUME NEW p \in Seq(Bytes), NEW b \in Bytes
  PROVE  Value(p) \in Nat /\ Value(Append(p, b)) \in Nat /\ Value(p) <= Value(Append(p, b))
<1> DEFINE n == Len(p)
           q == Append(p, b)
<1>1. n \in Nat /\ q \in Seq(Bytes) /\ Len(q) = n + 1
  OBVIOUS
<1>2. PICK s : Sums(s, p) /\ Value(p) = s[n]
  BY SumsExist, Zenon DEF n
<1>3. PICK t : Sums(t, q) /\ Value(q) = t[n + 1]
  BY <1>1, SumsExist
<1>4. \A i \in 1 .. n : q[n + 1 - (i + 1) + 1] = p[n - i + 1] /\ p[n - i + 1].bits \in 0 .. Base - 1
  <2> SUFFICES ASSUME NEW i \in 1 .. n
               PROVE  q[n + 1 - (i + 1) + 1] = p[n - i + 1] /\ p[n - i + 1].bits \in 0 .. Base - 1
    OBVIOUS
  <2>1. n + 1 - (i + 1) + 1 = n - i + 1 /\ n - i + 1 \in 1 .. n
    BY <1>1
  <2>2. q[n - i + 1] = p[n - i + 1]
    BY <2>1
  <2>3. p[n - i + 1] \in Bytes
    BY <2>1
  <2> QED BY <2>1, <2>2, <2>3 DEF Bytes
<1> HIDE DEF q
<1>5. /\ s \in [0 .. n -> Nat] /\ s[0] = 0
      /\ \A i \in 1 .. n : s[i] = s[i - 1] * Base + p[n - i + 1].bits
  BY <1>2 DEF Sums
<1> HIDE DEF n
<1>6. /\ t \in [0 .. n + 1 -> Nat]
      /\ \A i \in 1 .. n + 1 : t[i] = t[i - 1] * Base + q[n + 1 - i + 1].bits
  BY <1>1, <1>3 DEF Sums
<1> DEFINE T == {d \in Nat : d <= n => s[d] <= t[d + 1]}
<1>7. 0 \in T
  <2>1. 0 + 1 \in 0 .. n + 1
    BY <1>1
  <2>2. t[0 + 1] \in Nat
    BY <2>1, <1>6
  <2> QED BY <2>2, <1>5
<1>8. ASSUME NEW d \in Nat, d \in T PROVE d + 1 \in T
  <2> SUFFICES ASSUME d + 1 <= n PROVE s[d + 1] <= t[d + 1 + 1]
    OBVIOUS
  <2>1. /\ d + 1 \in 1 .. n /\ d + 1 + 1 \in 1 .. n + 1 /\ d \in 0 .. n
        /\ d + 1 \in 0 .. n + 1 /\ d + 1 - 1 = d /\ d + 1 + 1 - 1 = d + 1
    BY <1>1
  <2>2. s[d] <= t[d + 1] /\ s[d] \in Nat /\ t[d + 1] \in Nat
    <3>1. s[d] <= t[d + 1]
      BY <1>8, <2>1
    <3> QED BY <3>1, <2>1, <1>5, <1>6
  <2>3. s[d] * Base <= t[d + 1] * Base /\ s[d] * Base \in Nat /\ t[d + 1] * Base \in Nat
    <3> DEFINE x == s[d]
               y == t[d + 1]
    <3>1. x \in Nat /\ y \in Nat /\ x <= y
      BY <2>2
    <3> HIDE DEF x, y
    <3>2. x * Base <= y * Base /\ x * Base \in Nat /\ y * Base \in Nat
      BY <3>1, FrameAssumption
    <3> QED BY <3>2 DEF x, y
  <2> DEFINE e == p[n - (d + 1) + 1].bits
  <2>4. e \in 0 .. Base - 1 /\ q[n + 1 - (d + 1 + 1) + 1].bits = e
    BY <2>1, <1>4
  <2>5. s[d + 1] = s[d] * Base + e /\ t[d + 1 + 1] = t[d + 1] * Base + e
    BY <2>1, <2>4, <1>5, <1>6
  <2> HIDE DEF e, T
  <2> QED BY <2>3, <2>4, <2>5, FrameAssumption
<1>9. Nat \subseteq T
  <2> HIDE DEF T
  <2> QED BY <1>7, <1>8, NumbersInduction
<1>10. s[n] <= t[n + 1]
  BY <1>1, <1>9
<1>11. s[n] \in Nat /\ t[n + 1] \in Nat
  BY <1>1, <1>5, <1>6
<1> QED BY <1>2, <1>3, <1>10, <1>11 DEF q

\* What is left of n behind its groups, and the varint they make.
Leaves(r, n) ==
  /\ r \in [0 .. MaxBytes -> Nat] /\ r[0] = n
  /\ \A k \in 1 .. MaxBytes : r[k] = r[k - 1] \div Base

\* How many bytes the encoder spends on what the groups leave over.
Width(r) == CHOOSE k \in 1 .. MaxBytes : r[k] = 0 /\ \A j \in 1 .. k - 1 : r[j] # 0

\* The spelling the encoder makes, byte by byte.
LEMMA VarintIs ==
  ASSUME NEW n \in Nat
  PROVE  \E r : Leaves(r, n) /\ Rest(n) = r /\ Varint(n) = [k \in 1 .. Width(r) |->
                                              [more |-> k < Width(r), bits |-> r[k - 1] % Base]]
<1> DEFINE turn == [k \in 1 .. MaxBytes |-> [v \in Nat |-> v \div Base]]
<1>1. MaxBytes \in Nat /\ 0 <= MaxBytes /\ 0 \in Nat /\ 0 + 1 = 1
  BY FrameAssumption
<1>2. turn \in [0 + 1 .. MaxBytes -> [Nat -> Nat]]
  <2>1. \A v \in Nat : v \div Base \in Nat
    BY FrameAssumption
  <2>2. turn \in [1 .. MaxBytes -> [Nat -> Nat]]
    BY <2>1
  <2> QED BY <2>2, <1>1
<1> HIDE DEF turn
<1>3. PICK r : Steps(r, Nat, 0, MaxBytes, n, turn)
  BY <1>1, <1>2, StepsExist, Zenon
<1>4. /\ r \in [0 .. MaxBytes -> Nat] /\ r[0] = n
      /\ \A k \in 1 .. MaxBytes : r[k] = turn[k][r[k - 1]]
  BY <1>3 DEF Steps
<1>5. ASSUME NEW k \in 1 .. MaxBytes PROVE r[k] = r[k - 1] \div Base
  <2>1. k - 1 \in 0 .. MaxBytes
    BY <1>1
  <2>2. r[k - 1] \in Nat
    BY <2>1, <1>4
  <2>3. turn[k][r[k - 1]] = r[k - 1] \div Base
    BY <2>2 DEF turn
  <2> QED BY <1>4, <2>3
<1>6. r = [k \in 0 .. MaxBytes |-> IF k = 0 THEN n ELSE r[k - 1] \div Base]
  <2>1. \A k \in 0 .. MaxBytes : k = 0 \/ k \in 1 .. MaxBytes
    BY <1>1
  <2>2. \A k \in 0 .. MaxBytes : r[k] = IF k = 0 THEN n ELSE r[k - 1] \div Base
    BY <1>4, <1>5, <2>1
  <2> QED BY <1>4, <2>2
<1> DEFINE c == CHOOSE c : c = [k \in 0 .. MaxBytes |-> IF k = 0 THEN n ELSE c[k - 1] \div Base]
<1>7. c = [k \in 0 .. MaxBytes |-> IF k = 0 THEN n ELSE c[k - 1] \div Base]
  BY <1>6, Zenon
<1>8. Rest(n) = c /\ Varint(n) = [k \in 1 .. Width(c) |->
                                   [more |-> k < Width(c), bits |-> c[k - 1] % Base]]
  BY Zenon DEF Rest, Varint, Width
<1> HIDE DEF c
<1>9. GoOnAlike(c, r, 0, MaxBytes)
  <2>1. 0 \in 0 .. MaxBytes
    BY <1>1
  <2>2. c[0] = n
    BY <1>7, <2>1
  <2>3. ASSUME NEW k \in 1 .. MaxBytes PROVE c[k] = c[k - 1] \div Base
    <3>1. k \in 0 .. MaxBytes /\ k # 0
      BY <1>1
    <3> QED BY <1>7, <3>1
  <2>4. ASSUME NEW k \in 0 + 1 .. MaxBytes, c[k - 1] = r[k - 1] PROVE c[k] = r[k]
    <3>1. k \in 1 .. MaxBytes
      BY <2>4
    <3> QED BY <2>3, <2>4, <3>1, <1>5
  <2> QED BY <1>4, <2>2, <2>4 DEF GoOnAlike
<1>10. c = r
  <2>1. Alike(c, r, 0, MaxBytes)
    BY <1>1, <1>9, StayAlike, Zenon
  <2>2. \A k \in 0 .. MaxBytes : c[k] = r[k]
    BY <2>1, Zenon DEF Alike
  <2>3. c = [k \in 0 .. MaxBytes |-> c[k]] /\ r = [k \in 0 .. MaxBytes |-> r[k]]
    BY <1>4, <1>7
  <2> QED BY <2>2, <2>3
<1>11. Rest(n) = r /\ Varint(n) = [k \in 1 .. Width(r) |->
                                    [more |-> k < Width(r), bits |-> r[k - 1] % Base]]
  BY <1>8, <1>10, Zenon
<1>12. Leaves(r, n)
  BY <1>4, <1>5 DEF Leaves
<1> QED BY <1>11, <1>12, Zenon

\* A complete prefix: flags on all groups but the last.
Complete(p) ==
  /\ p \in Seq(Bytes) /\ Len(p) \in 1 .. MaxBytes
  /\ \A i \in 1 .. Len(p) : p[i].more = (i < Len(p))

\* The decoder takes one spelling of a length only, the encoder's: dividing the
\* value by the base takes the groups off again, and the last one is not zero.
LEMMA OneSpelling ==
  ASSUME NEW p, Complete(p), Canonical(p)
  PROVE  Value(p) \in Nat /\ Varint(Value(p)) = p
<1> DEFINE n == Len(p)
           v == Value(p)
           g(i) == p[i].bits
<1>1. p \in Seq(Bytes) /\ n \in 1 .. MaxBytes /\ n \in Nat /\ 1 <= n /\ n <= MaxBytes
  BY FrameAssumption DEF Complete
<1>2. PICK s : Sums(s, p) /\ v = s[n]
  BY <1>1, SumsExist, Zenon DEF n, v
<1>3. /\ s \in [0 .. n -> Nat] /\ s[0] = 0
      /\ \A i \in 1 .. n : s[i] = s[i - 1] * Base + g(n - i + 1)
  BY <1>2 DEF Sums
<1>4. \A i \in 1 .. n : g(i) \in 0 .. Base - 1
  <2> SUFFICES ASSUME NEW i \in 1 .. n PROVE g(i) \in 0 .. Base - 1
    OBVIOUS
  <2>1. p[i] \in Bytes
    BY <1>1
  <2> QED BY <2>1 DEF Bytes
<1>5. v \in Nat
  BY <1>1, <1>2, <1>3
<1> HIDE DEF v
<1>6. PICK r : Leaves(r, v) /\ Varint(v) = [k \in 1 .. Width(r) |->
                                             [more |-> k < Width(r), bits |-> r[k - 1] % Base]]
  BY <1>5, VarintIs
<1>7. r[0] = v /\ \A k \in 1 .. MaxBytes : r[k] = r[k - 1] \div Base
  BY <1>6 DEF Leaves
<1>8. n > 1 => g(n) # 0
  <2> SUFFICES ASSUME n > 1, g(n) = 0 PROVE FALSE
    OBVIOUS
  <2>1. n \in 1 .. n /\ ~ (n < n)
    BY <1>1
  <2>2. p[n].more = (n < n)
    BY <2>1 DEF Complete
  <2>3. p[n].more = FALSE
    <3>1. (n < n) = FALSE
      BY <2>1
    <3> QED BY <2>2, <3>1, Zenon
  <2>4. p[n] \in Bytes /\ p[n].bits = 0
    BY <1>1, <2>1
  <2>5. p[n] = [more |-> FALSE, bits |-> 0]
    BY <2>3, <2>4 DEF Bytes
  <2> QED BY <2>5 DEF Canonical
<1> HIDE DEF g, n
<1>20. n \in Nat /\ 1 <= n /\ n <= MaxBytes /\ MaxBytes \in Nat
  BY <1>1, FrameAssumption
\* What is left behind k groups is what the others spell.
<1>9. ASSUME NEW k \in 1 .. n
      PROVE  /\ s[n - k] \in Nat /\ g(k) \in 0 .. Base - 1
             /\ (s[n - k] * Base + g(k)) \div Base = s[n - k]
             /\ (s[n - k] * Base + g(k)) % Base = g(k)
             /\ s[n - (k - 1)] = s[n - k] * Base + g(k)
  <2> DEFINE a == s[n - k]
             e == g(k)
  <2>1. n - k \in 0 .. n /\ n - (k - 1) \in 1 .. n /\ n - (k - 1) - 1 = n - k
        /\ n - (n - (k - 1)) + 1 = k
    BY <1>20
  <2>2. a \in Nat /\ e \in 0 .. Base - 1
    BY <2>1, <1>3, <1>4
  <2>3. s[n - (k - 1)] = a * Base + e
    BY <2>1, <1>3
  <2> HIDE DEF a, e
  <2>4. (a * Base + e) \div Base = a /\ (a * Base + e) % Base = e
    BY <2>2, FrameAssumption
  <2> QED BY <2>2, <2>3, <2>4 DEF a, e
<1> DEFINE T == {k \in Nat : k <= n => r[k] = s[n - k]}
<1>10. 0 \in T
  <2>1. n - 0 = n
    BY <1>20
  <2> QED BY <2>1, <1>2, <1>7
<1>11. ASSUME NEW k \in Nat, k \in T PROVE k + 1 \in T
  <2> SUFFICES ASSUME k + 1 <= n PROVE r[k + 1] = s[n - (k + 1)]
    OBVIOUS
  <2>1. k + 1 \in 1 .. n /\ k + 1 \in 1 .. MaxBytes /\ k + 1 - 1 = k /\ k <= n
    BY <1>20
  <2>2. r[k] = s[n - k]
    BY <1>11, <2>1
  <2>3. r[k + 1] = r[k] \div Base
    BY <2>1, <1>7
  <2>4. s[n - k] = s[n - (k + 1)] * Base + g(k + 1)
        /\ (s[n - (k + 1)] * Base + g(k + 1)) \div Base = s[n - (k + 1)]
    BY <2>1, <1>9
  <2> HIDE DEF T
  <2> QED BY <2>2, <2>3, <2>4
<1>12. \A k \in 0 .. n : r[k] = s[n - k]
  <2>1. Nat \subseteq T
    <3> HIDE DEF T
    <3> QED BY <1>10, <1>11, NumbersInduction
  <2> QED BY <2>1
<1> HIDE DEF T
<1>13. r[n] = 0
  <2>1. n \in 0 .. n /\ n - n = 0
    BY <1>20
  <2> QED BY <2>1, <1>3, <1>12
\* The groups but the first are not all zero as long as one is left.
<1>14. ASSUME NEW j \in 1 .. n - 1 PROVE r[j] # 0
  <2> DEFINE U == {i \in Nat : i + 1 <= n => s[i + 1] > 0}
  <2>1. n > 1 /\ g(n) \in 0 .. Base - 1 /\ g(n) # 0
    BY <1>20, <1>4, <1>8
  <2>2. 0 \in U
    <3>1. 1 \in 1 .. n /\ n - 1 + 1 = n /\ 1 - 1 = 0 /\ 0 + 1 = 1
      BY <1>20
    <3>2. s[1] = 0 * Base + g(n)
      BY <3>1, <1>3
    <3>3. 0 * Base = 0
      BY FrameAssumption
    <3>4. s[1] > 0
      BY <3>2, <3>3, <2>1, FrameAssumption
    <3> QED BY <3>1, <3>4
  <2>3. ASSUME NEW i \in Nat, i \in U PROVE i + 1 \in U
    <3> SUFFICES ASSUME i + 1 + 1 <= n PROVE s[i + 1 + 1] > 0
      OBVIOUS
    <3> DEFINE a == s[i + 1]
               e == g(n - (i + 1 + 1) + 1)
    <3>1. i + 1 + 1 \in 1 .. n /\ i + 1 + 1 - 1 = i + 1 /\ i + 1 <= n /\ i + 1 \in 0 .. n
          /\ n - (i + 1 + 1) + 1 \in 1 .. n
      BY <1>20
    <3>2. a > 0 /\ a \in Nat /\ e \in 0 .. Base - 1
      BY <2>3, <3>1, <1>3, <1>4
    <3>3. s[i + 1 + 1] = a * Base + e
      BY <3>1, <1>3
    <3> HIDE DEF a, e
    <3>4. a * Base + e > 0
      BY <3>2, FrameAssumption
    <3> QED BY <3>3, <3>4
  <2>4. Nat \subseteq U
    <3> HIDE DEF U
    <3> QED BY <2>2, <2>3, NumbersInduction
  <2>5. n - j - 1 \in Nat /\ n - j - 1 + 1 = n - j /\ n - j <= n /\ j \in 0 .. n
    BY <1>20
  <2>6. s[n - j] > 0
    BY <2>4, <2>5
  <2> QED BY <2>5, <2>6, <1>12
<1>15. Width(r) = n
  <2> DEFINE W(k) == r[k] = 0 /\ \A j \in 1 .. k - 1 : r[j] # 0
             w == CHOOSE k \in 1 .. MaxBytes : W(k)
  <2>1. n \in 1 .. MaxBytes /\ W(n)
    BY <1>20, <1>13, <1>14
  <2>2. w \in 1 .. MaxBytes /\ W(w)
    BY <2>1
  <2> HIDE DEF w
  <2>3. ~ (w < n)
    <3>1. w < n => w \in 1 .. n - 1
      BY <2>2, <1>20
    <3> QED BY <3>1, <2>2, <1>14
  <2>4. ~ (n < w)
    <3>1. n < w => n \in 1 .. w - 1
      BY <2>2, <1>20
    <3> QED BY <3>1, <2>2, <1>13
  <2>5. w = n
    BY <2>2, <2>3, <2>4, <1>20, FrameAssumption
  <2> QED BY <2>5 DEF w, Width
<1>16. ASSUME NEW k \in 1 .. n PROVE p[k] = [more |-> k < n, bits |-> r[k - 1] % Base]
  <2>1. p[k] \in Bytes /\ p[k].more = (k < n)
    BY <1>1 DEF Complete, n
  <2>2. p[k].bits = r[k - 1] % Base
    <3>1. k - 1 \in 0 .. n
      BY <1>20
    <3>2. r[k - 1] = s[n - (k - 1)]
      BY <3>1, <1>12
    <3>3. r[k - 1] % Base = g(k)
      BY <3>2, <1>9
    <3> QED BY <3>3 DEF g
  <2> QED BY <2>1, <2>2 DEF Bytes
<1>17. p = [k \in 1 .. n |-> p[k]]
  BY <1>1 DEF n
<1>18. Varint(v) = [k \in 1 .. n |-> [more |-> k < n, bits |-> r[k - 1] % Base]]
  BY <1>6, <1>15
<1>19. Varint(v) = p
  <2>1. Varint(v) = [k \in 1 .. n |-> p[k]]
    BY <1>16, <1>18
  <2> QED BY <2>1, <1>17
<1> QED BY <1>5, <1>19 DEF v

-----------------------------------------------------------------------------
(* A decoder that failed on a length or a message stays silent: what it    *)
(* failed by is still in its buffers (Spent).                              *)

\* A decoder that met an oversize length holds a prefix that spells more than
\* the ceiling, one that met a bad message a payload that is long enough.
Spent ==
  /\ failed = "oversize" =>
       expected = None /\ Value(prefix) > Maximum /\ messages = << >>
  /\ failed = "decode" =>
       expected # None /\ Len(payload) >= expected /\ messages = << >>

\* What holds of every reachable state of a decoder that may have failed.
SpentInv == DecoderInv /\ Spent

\* A new decoder has not failed.
LEMMA SpentStarts == FrameInit => SpentInv
BY DecoderInit DEF FrameInit, Spent, SpentInv, Fine

\* What push makes of a byte behind an oversize length.
LEMMA SpentPrefix ==
  ASSUME SpentInv, NEW b \in Bytes, PrefixByte(b) PROVE Spent'
<1> DEFINE p == Append(prefix, b)
<1>1. prefix \in Seq(Bytes) /\ expected = None
  BY DEF SpentInv, DecoderInv, FrameTypeOK, PrefixByte
<1>2. Value(prefix) \in Nat /\ Value(p) \in Nat /\ Value(prefix) <= Value(p)
  BY <1>1, LongerSpellsMore
<1>3. failed # "decode"
  BY <1>1 DEF SpentInv, Spent
<1> HIDE DEF p
<1>4. failed = "oversize" => Value(p) > Maximum /\ messages = << >>
  BY <1>2, FrameAssumption DEF SpentInv, Spent
<1>5. CASE prefix' = p /\ Fail("malformed") /\ UNCHANGED <<payload, expected>>
  BY <1>1, <1>3, <1>4, <1>5 DEF Fail, Spent, Fine
<1>6. CASE prefix' = p /\ Continue /\ UNCHANGED <<payload, expected, messages>>
  BY <1>1, <1>3, <1>4, <1>6 DEF Continue, Spent
<1>7. CASE ~ Fits(Value(p)) /\ prefix' = p /\ Fail("oversize") /\ UNCHANGED <<payload, expected>>
  <2>1. Value(p) > Maximum
    BY <1>2, <1>7, FrameAssumption DEF Fits
  <2> QED BY <1>1, <1>3, <1>7, <2>1 DEF Fail, Spent, Fine
<1>8. CASE (Fits(Value(p)) \/ Value(p) = 0) /\ Continue
  <2>1. Value(p) <= Maximum
    BY <1>2, <1>8, FrameAssumption DEF Fits
  <2>2. failed # "oversize"
    BY <1>2, <1>4, <2>1, FrameAssumption
  <2> QED BY <1>3, <1>8, <2>2 DEF Continue, Spent
<1> QED BY <1>5, <1>6, <1>7, <1>8 DEF PrefixByte, p

\* What push makes of a byte behind a message that could not be decoded.
LEMMA SpentPayload ==
  ASSUME SpentInv, NEW b \in Bytes, PayloadByte(b) PROVE Spent'
<1> DEFINE p == Append(payload, b)
<1>1. expected \in 0 .. Maximum /\ expected # None
  BY DEF SpentInv, DecoderInv, FrameTypeOK, PayloadByte
<1>2. Len(p) = Len(payload) + 1 /\ Len(payload) \in Nat
  BY DEF SpentInv, DecoderInv, FrameTypeOK
<1>3. failed # "oversize"
  BY <1>1 DEF SpentInv, Spent
<1> HIDE DEF p
<1>4. failed = "decode" => Len(payload) >= expected /\ messages = << >>
  BY DEF SpentInv, Spent
<1>5. CASE Len(p) # expected /\ payload' = p /\ Continue /\ UNCHANGED <<expected, messages>>
  <2>1. failed = "decode" => Len(p) >= expected
    BY <1>1, <1>2, <1>4, FrameAssumption
  <2> QED BY <1>1, <1>3, <1>4, <1>5, <2>1 DEF Continue, Spent
<1>6. CASE Len(p) = expected /\ Completed(p) /\ Continue
  <2>1. failed # "decode"
    BY <1>1, <1>2, <1>4, <1>6, FrameAssumption
  <2> QED BY <1>3, <1>6, <2>1 DEF Continue, Spent
<1>7. CASE Len(p) = expected /\ Rejected(p)
  <2>1. Len(p) >= expected
    BY <1>1, <1>7, FrameAssumption
  <2>2. payload' = p /\ expected' = expected /\ messages' = << >>
        /\ failed' = IF failed = Fine THEN "decode" ELSE failed
    BY <1>7 DEF Rejected, Fail
  <2> QED BY <1>1, <1>3, <2>1, <2>2 DEF Spent, Fine
<1> QED BY <1>5, <1>6, <1>7 DEF PayloadByte, p

\* No step takes a decoder that failed away from what it failed by.
LEMMA SpentSteps == ASSUME SpentInv, [FrameNext]_frameVars PROVE SpentInv'
<1>1. DecoderInv'
  BY DecoderNext DEF SpentInv
<1>2. ASSUME NEW b \in Bytes, Byte(b) PROVE Spent'
  BY <1>2, SpentPrefix, SpentPayload DEF Byte
<1>3. ASSUME PushReturns PROVE Spent'
  BY <1>3 DEF PushReturns, SpentInv, Spent
<1>4. ASSUME Finish PROVE Spent'
  BY <1>4 DEF Finish, SpentInv, Spent
<1>5. ASSUME UNCHANGED frameVars PROVE Spent'
  BY <1>5 DEF frameVars, SpentInv, Spent
<1> QED BY <1>1, <1>2, <1>3, <1>4, <1>5 DEF FrameNext, SpentInv

\* However a caller cuts the body and goes on pushing, a decoder that met an
\* oversize length or a bad message delivers nothing more.
THEOREM SpentStaysSilentAlways == FrameSpec => SpentStaysSilent
<1>1. ASSUME SpentInv, [FrameNext]_frameVars
      PROVE  [(failed \in {"oversize", "decode"}) => delivered' = delivered]_frameVars
  <2>1. ASSUME failed \in {"oversize", "decode"}, PushReturns PROVE delivered' = delivered
    <3>1. messages = << >> /\ delivered \in Seq(Messages)
      BY <1>1, <2>1 DEF SpentInv, Spent, DecoderInv, FrameTypeOK
    <3> QED BY <2>1, <3>1 DEF PushReturns
  <2> QED BY <1>1, <2>1 DEF FrameNext, Byte, Finish, frameVars
<1> QED BY <1>1, SpentStarts, SpentSteps, PTL DEF FrameSpec, SpentStaysSilent

-----------------------------------------------------------------------------
(* Nothing of a body is lost: what came out and the frame under way encode *)
(* to exactly the bytes that went in (Lossless).                           *)

\* The messages whose frames the encoder can write.
Framed == {m \in Seq(Bytes) : Frame(m) \in Seq(Bytes)}

\* No messages, no bytes.
LEMMA EncodedEmpty == Encoded(<< >>) = << >>
<1>1. [i \in DOMAIN << >> |-> Frame(<< >>[i])] = << >>
  OBVIOUS
<1> QED BY <1>1, FlattenEmpty DEF Encoded

\* One message more is its frame more.
LEMMA EncodedAppend ==
  ASSUME NEW ms \in Seq(Framed), NEW m \in Framed
  PROVE  Encoded(ms) \in Seq(Bytes) /\ Encoded(Append(ms, m)) = Encoded(ms) \o Frame(m)
<1> DEFINE q == [i \in DOMAIN ms |-> Frame(ms[i])]
           a == Append(ms, m)
<1>1. \A i \in 1 .. Len(ms) : ms[i] \in Framed
  OBVIOUS
<1>2. \A k \in Framed : Frame(k) \in Seq(Bytes)
  BY DEF Framed
<1>3. DOMAIN ms = 1 .. Len(ms) /\ Len(ms) \in Nat
  OBVIOUS
<1> DEFINE V == Seq(Bytes)
<1>4. q \in Seq(V) /\ Len(q) = Len(ms)
  <2> HIDE DEF V
  <2>1. \A i \in 1 .. Len(ms) : Frame(ms[i]) \in V
    BY <1>1, <1>2 DEF V
  <2> QED BY <2>1, <1>3
<1>5. [i \in DOMAIN a |-> Frame(a[i])] = Append(q, Frame(m))
  <2>1. DOMAIN a = 1 .. Len(ms) + 1 /\ a[Len(ms) + 1] = m
        /\ \A i \in 1 .. Len(ms) : a[i] = ms[i]
    BY <1>3
  <2> DEFINE s == [i \in DOMAIN a |-> Frame(a[i])]
             t == Append(q, Frame(m))
  <2>2. DOMAIN s = 1 .. Len(ms) + 1
    BY <2>1
  <2>3. DOMAIN t = 1 .. Len(ms) + 1 /\ t[Len(ms) + 1] = Frame(m)
        /\ \A i \in 1 .. Len(ms) : t[i] = q[i]
    <3> HIDE DEF q, V
    <3> QED BY <1>3, <1>4
  <2>4. \A i \in 1 .. Len(ms) + 1 : s[i] = t[i]
    <3> SUFFICES ASSUME NEW i \in 1 .. Len(ms) + 1 PROVE s[i] = t[i]
      OBVIOUS
    <3>1. s[i] = Frame(a[i])
      BY <2>1
    <3>2. CASE i = Len(ms) + 1
      BY <3>1, <3>2, <2>1, <2>3
    <3>3. CASE i # Len(ms) + 1
      <4>1. i \in 1 .. Len(ms) /\ i \in DOMAIN ms
        BY <3>3, <1>3
      <4>2. t[i] = Frame(ms[i])
        BY <4>1, <2>3
      <4> QED BY <3>1, <4>1, <4>2, <2>1
    <3> QED BY <3>2, <3>3
  <2>5. s = [i \in DOMAIN s |-> s[i]] /\ t = [i \in DOMAIN t |-> t[i]]
    <3>1. t \in Seq(V)
      <4>1. Frame(m) \in V
        BY <1>2
      <4> HIDE DEF V, q
      <4> QED BY <1>4, <4>1
    <3> HIDE DEF t, V
    <3> QED BY <3>1
  <2> HIDE DEF s, t
  <2>6. s = t
    BY <2>2, <2>3, <2>4, <2>5
  <2> QED BY <2>6 DEF s, t
<1>6. FlattenSeq(q) \in Seq(Bytes) /\ FlattenSeq(Append(q, Frame(m))) = FlattenSeq(q) \o Frame(m)
  <2>1. Frame(m) \in Seq(Bytes)
    BY <1>2
  <2> HIDE DEF q
  <2> QED BY <1>4, <2>1, FlattenAppend
<1> QED BY <1>5, <1>6 DEF Encoded

\* Messages the encoder can write are bytes on the wire.
LEMMA EncodedType == ASSUME NEW ms \in Seq(Framed) PROVE Encoded(ms) \in Seq(Bytes)
<1>1. CASE Framed = {}
  <2>1. ms = << >> /\ << >> \in Seq(Bytes)
    BY <1>1
  <2> QED BY <2>1, EncodedEmpty
<1>2. ASSUME NEW m \in Framed PROVE Encoded(ms) \in Seq(Bytes)
  BY EncodedAppend
<1> QED BY <1>1, <1>2

\* As long as nothing failed: what came out has frames, a prefix under way has
\* its flags on, an expected length a spelling, and nothing of the body is lost.
Lossless ==
  /\ delivered \in Seq(Framed) /\ messages \in Seq(Framed)
  /\ expected = None => \A i \in 1 .. Len(prefix) : prefix[i].more = TRUE
  /\ expected # None => prefix = << >> /\ Varint(expected) \in Seq(Bytes)
  /\ wire = Encoded(delivered \o messages) \o Partial

\* What holds of every reachable state of a decoder and the body behind it.
WireInv == DecoderInv /\ (failed = Fine => Lossless)

\* Before the first byte nothing has been sent or delivered.
LEMMA WireStarts == FrameInit => WireInv
<1> SUFFICES ASSUME FrameInit PROVE WireInv
  OBVIOUS
<1>1. << >> \o << >> = << >> /\ << >> \in Seq(Framed)
  OBVIOUS
<1>2. Lossless
  BY <1>1, EncodedEmpty DEF FrameInit, Lossless, Partial
<1> QED BY <1>2, DecoderInit DEF WireInv

\* A prefix that ends is whole.
LEMMA PrefixWhole ==
  ASSUME DecoderInv, Lossless, expected = None, NEW b \in Bytes, ~ b.more,
         Len(Append(prefix, b)) <= MaxBytes
  PROVE  Complete(Append(prefix, b))
<1> DEFINE p == Append(prefix, b)
           n == Len(prefix)
<1>1. prefix \in Seq(Bytes) /\ n \in Nat /\ Len(p) = n + 1 /\ p \in Seq(Bytes)
      /\ p[n + 1] = b /\ \A i \in 1 .. n : p[i] = prefix[i]
  BY DEF DecoderInv, FrameTypeOK
<1>2. b.more = FALSE
  BY DEF Bytes
<1>3. ASSUME NEW i \in 1 .. Len(p) PROVE p[i].more = (i < Len(p))
  <2>1. CASE i = n + 1
    <3>1. (i < Len(p)) = FALSE
      BY <2>1, <1>1
    <3>2. p[i].more = FALSE
      BY <2>1, <1>1, <1>2
    <3> QED BY <3>1, <3>2
  <2>2. CASE i # n + 1
    <3> HIDE DEF p
    <3>1. i \in 1 .. n
      BY <2>2, <1>1
    <3>2. (i < Len(p)) = TRUE
      BY <3>1, <1>1
    <3>3. p[i].more = TRUE
      BY <3>1, <1>1 DEF Lossless, n
    <3> QED BY <3>2, <3>3
  <2> QED BY <2>1, <2>2
<1>4. Len(p) \in 1 .. MaxBytes
  <2>1. Len(p) <= MaxBytes
    OBVIOUS
  <2> HIDE DEF p, n
  <2> QED BY <2>1, <1>1, FrameAssumption
<1>5. Complete(p)
  <2> HIDE DEF p
  <2> QED BY <1>1, <1>3, <1>4, Zenon DEF Complete
<1> QED BY <1>5

\* A prefix that ends: its spelling is the encoder's.
LEMMA PrefixEnds ==
  ASSUME DecoderInv, Lossless, expected = None, NEW b \in Bytes, ~ b.more,
         Len(Append(prefix, b)) <= MaxBytes, Canonical(Append(prefix, b))
  PROVE  Varint(Value(Append(prefix, b))) = Append(prefix, b)
BY PrefixWhole, OneSpelling

\* What a byte adds to the end of the body.
LEMMA AppendEnd ==
  ASSUME NEW s \in Seq(Bytes), NEW t \in Seq(Bytes), NEW b \in Bytes
  PROVE  Append(s \o t, b) = s \o Append(t, b)
OBVIOUS

\* One message more of what has been delivered and completed.
LEMMA OneMore ==
  ASSUME Lossless, NEW m \in Framed, messages' = Append(messages, m), UNCHANGED delivered
  PROVE  /\ messages' \in Seq(Framed)
         /\ Encoded(delivered' \o messages') = Encoded(delivered \o messages) \o Frame(m)
<1>1. delivered \in Seq(Framed) /\ messages \in Seq(Framed)
  BY DEF Lossless
<1>2. delivered \o messages \in Seq(Framed) /\ messages' \in Seq(Framed)
      /\ delivered' \o messages' = Append(delivered \o messages, m)
  BY <1>1
<1> QED BY <1>2, EncodedAppend

\* What a byte of the prefix makes of the frame under way.
LEMMA WirePrefix ==
  ASSUME WireInv, NEW b \in Bytes, PrefixByte(b), failed' = Fine,
         wire' = Append(wire, b), UNCHANGED delivered
  PROVE  Lossless'
<1> DEFINE p == Append(prefix, b)
           e == Encoded(delivered \o messages)
<1>1. failed = Fine /\ expected = None
  BY DEF PrefixByte, Fail, Continue, Fine
<1>2. DecoderInv /\ Lossless
  BY <1>1 DEF WireInv
<1>3. prefix \in Seq(Bytes) /\ p \in Seq(Bytes)
  BY <1>2 DEF DecoderInv, FrameTypeOK
<1>4. e \in Seq(Bytes)
  <2>1. delivered \o messages \in Seq(Framed)
    BY <1>2 DEF Lossless
  <2> QED BY <2>1, EncodedType
<1>5. wire' = e \o p
  <2>1. wire = e \o prefix
    BY <1>1, <1>2 DEF Lossless, Partial
  <2>2. Append(e \o prefix, b) = e \o p
    <3> HIDE DEF e
    <3> QED BY <1>3, <1>4, AppendEnd
  <2> QED BY <2>1, <2>2
<1>6. delivered' \in Seq(Framed)
  BY <1>2 DEF Lossless
<1> HIDE DEF e
<1>7. CASE Len(p) <= MaxBytes /\ b.more /\ prefix' = p /\ UNCHANGED <<payload, expected, messages>>
  <2>1. \A i \in 1 .. Len(p) : p[i].more = TRUE
    <3>1. b.more = TRUE
      BY <1>7 DEF Bytes
    <3>2. \A i \in 1 .. Len(prefix) : prefix[i].more = TRUE
      BY <1>1, <1>2 DEF Lossless
    <3>3. Len(p) = Len(prefix) + 1 /\ Len(prefix) \in Nat /\ p[Len(prefix) + 1] = b
          /\ \A i \in 1 .. Len(prefix) : p[i] = prefix[i]
      BY <1>3
    <3>4. \A i \in 1 .. Len(p) : i = Len(prefix) + 1 \/ i \in 1 .. Len(prefix)
      BY <3>3
    <3> QED BY <3>1, <3>2, <3>3, <3>4, Zenon
  <2>2. messages' \in Seq(Framed) /\ Encoded(delivered' \o messages') = e /\ Partial' = p
    BY <1>1, <1>2, <1>7 DEF Lossless, e, Partial
  <2> QED BY <1>1, <1>5, <1>6, <1>7, <2>1, <2>2 DEF Lossless
<1>8. CASE /\ Len(p) <= MaxBytes /\ ~ b.more /\ Canonical(p) /\ Fits(Value(p))
           /\ prefix' = << >> /\ payload' = << >> /\ expected' = Value(p) /\ UNCHANGED messages
  <2>1. Varint(Value(p)) = p
    BY <1>1, <1>2, <1>8, PrefixEnds
  <2>2. expected' # None
    BY <1>8, FrameAssumption DEF Fits, None
  <2>3. Partial' = p
    BY <1>3, <1>8, <2>1, <2>2 DEF Partial
  <2>4. messages' \in Seq(Framed) /\ Encoded(delivered' \o messages') = e
    BY <1>2, <1>8 DEF Lossless, e
  <2> QED BY <1>3, <1>5, <1>6, <1>8, <2>1, <2>2, <2>3, <2>4 DEF Lossless
<1>9. CASE /\ Len(p) <= MaxBytes /\ ~ b.more /\ Canonical(p) /\ Value(p) = 0
           /\ prefix' = << >> /\ payload' = << >> /\ messages' = Append(messages, << >>)
           /\ UNCHANGED expected
  <2>1. Varint(0) = p
    BY <1>1, <1>2, <1>9, PrefixEnds
  <2>2. Frame(<< >>) = p /\ << >> \in Framed
    <3>1. << >> \in Seq(Bytes) /\ Len(<< >>) = 0 /\ p \o << >> = p
      BY <1>3
    <3> HIDE DEF p
    <3> QED BY <2>1, <3>1, <1>3 DEF Frame, Framed
  <2>3. messages' \in Seq(Framed) /\ Encoded(delivered' \o messages') = e \o p
    BY <1>2, <1>9, <2>2, OneMore DEF e
  <2>4. Partial' = << >> /\ (e \o p) \o << >> = e \o p
    BY <1>1, <1>3, <1>4, <1>9 DEF Partial
  <2>5. \A i \in 1 .. Len(prefix') : prefix'[i].more = TRUE
    BY <1>9
  <2> QED BY <1>1, <1>5, <1>6, <1>9, <2>3, <2>4, <2>5 DEF Lossless
<1> QED BY <1>7, <1>8, <1>9 DEF PrefixByte, Fail, Continue, Fine

\* What a byte of the payload makes of the frame under way.
LEMMA WirePayload ==
  ASSUME WireInv, NEW b \in Bytes, PayloadByte(b), failed' = Fine,
         wire' = Append(wire, b), UNCHANGED delivered
  PROVE  Lossless'
<1> DEFINE p == Append(payload, b)
           e == Encoded(delivered \o messages)
           v == Varint(expected)
<1>1. failed = Fine /\ expected # None /\ UNCHANGED prefix
  BY DEF PayloadByte, Rejected, Fail, Continue, Fine
<1>2. DecoderInv /\ Lossless
  BY <1>1 DEF WireInv
<1>3. payload \in Seq(Bytes) /\ p \in Seq(Bytes) /\ v \in Seq(Bytes)
  BY <1>1, <1>2 DEF DecoderInv, FrameTypeOK, Lossless
<1>4. e \in Seq(Bytes)
  <2>1. delivered \o messages \in Seq(Framed)
    BY <1>2 DEF Lossless
  <2> QED BY <2>1, EncodedType
<1>5. wire' = e \o (v \o p)
  <2>1. wire = e \o (v \o payload)
    BY <1>1, <1>2 DEF Lossless, Partial
  <2> HIDE DEF e, v
  <2>2. v \o payload \in Seq(Bytes) /\ Append(v \o payload, b) = v \o p
    <3>1. v \o payload \in Seq(Bytes)
      <4> HIDE DEF p
      <4> QED BY <1>3
    <3> QED BY <1>3, <3>1, AppendEnd
  <2>3. Append(e \o (v \o payload), b) = e \o Append(v \o payload, b)
    BY <1>4, <2>2, AppendEnd
  <2> QED BY <2>1, <2>2, <2>3
<1>6. delivered' \in Seq(Framed)
  BY <1>2 DEF Lossless
<1> HIDE DEF e, v
<1>7. CASE payload' = p /\ UNCHANGED <<expected, messages>>
  <2>1. messages' \in Seq(Framed) /\ Encoded(delivered' \o messages') = e /\ Partial' = v \o p
    BY <1>1, <1>2, <1>7 DEF Lossless, e, v, Partial
  <2>2. prefix' = << >> /\ expected' # None /\ Varint(expected') \in Seq(Bytes)
    BY <1>1, <1>2, <1>7 DEF Lossless
  <2> HIDE DEF p
  <2> QED BY <1>5, <1>6, <2>1, <2>2 DEF Lossless
<1>8. CASE Len(p) = expected /\ messages' = Append(messages, p) /\ payload' = << >> /\ expected' = None
  <2>1. Frame(p) = v \o p
    BY <1>8 DEF Frame, v
  <2>2. v \o p \in Seq(Bytes)
    BY <1>3
  <2>3. p \in Framed
    BY <1>3, <2>1, <2>2 DEF Framed
  <2>4. messages' \in Seq(Framed) /\ Encoded(delivered' \o messages') = e \o (v \o p)
    <3> HIDE DEF p
    <3> QED BY <1>2, <1>8, <2>1, <2>3, OneMore DEF e
  <2>5. Partial' = << >> /\ prefix' = << >>
    BY <1>1, <1>2, <1>8 DEF Lossless, Partial
  <2>6. (e \o (v \o p)) \o << >> = e \o (v \o p)
    <3> HIDE DEF p
    <3> QED BY <1>4, <2>2
  <2>7. \A i \in 1 .. Len(prefix') : prefix'[i].more = TRUE
    BY <2>5
  <2> HIDE DEF p
  <2> QED BY <1>5, <1>6, <1>8, <2>4, <2>5, <2>6, <2>7 DEF Lossless
<1> QED BY <1>7, <1>8 DEF PayloadByte, Completed, Rejected, Fail, Continue, Fine

\* No step loses a byte of the body or makes one up.
LEMMA WireSteps == ASSUME WireInv, [FrameNext]_frameVars PROVE WireInv'
<1>1. DecoderInv'
  BY DecoderNext DEF WireInv
<1>2. ASSUME NEW b \in Bytes, Byte(b), failed' = Fine PROVE Lossless'
  BY <1>2, WirePrefix, WirePayload DEF Byte
<1>3. ASSUME PushReturns, failed' = Fine PROVE Lossless'
  <2>1. Lossless
    BY <1>3 DEF PushReturns, WireInv
  <2>2. delivered' = delivered \o messages /\ messages' = << >> /\ UNCHANGED <<prefix, payload, expected, wire>>
    BY <1>3 DEF PushReturns
  <2>3. delivered \o messages \in Seq(Framed) /\ << >> \in Seq(Framed)
        /\ (delivered \o messages) \o << >> = delivered \o messages
    BY <2>1 DEF Lossless
  <2>4. Partial' = Partial
    BY <2>2 DEF Partial
  <2> QED BY <2>1, <2>2, <2>3, <2>4 DEF Lossless
<1>4. ASSUME UNCHANGED <<prefix, payload, expected, messages, wire, delivered, failed>>, failed' = Fine
      PROVE  Lossless'
  BY <1>4 DEF WireInv, Lossless, Partial
<1> QED BY <1>1, <1>2, <1>3, <1>4 DEF FrameNext, Finish, frameVars, WireInv

\* For every base, word and ceiling, every body and every way of cutting it: as
\* long as push has not failed, the messages that came out and the frame under
\* way encode to exactly the bytes that went in.
THEOREM RoundTripsAlways == FrameSpec => []RoundTrips
<1>1. WireInv => RoundTrips
  BY DEF WireInv, Lossless, RoundTrips
<1> QED BY <1>1, WireStarts, WireSteps, PTL DEF FrameSpec

-----------------------------------------------------------------------------
(* The encoder's spelling of a length is a whole prefix the decoder takes  *)
(* for that length (VarintSpells), no whole prefix starts another (OneEnd), *)
(* so a body is cut into frames in one way (OneFirst).                     *)

\* A length within the ceiling leaves no more than the ceiling does.
LEMMA RestBounded ==
  ASSUME NEW n \in 0 .. Maximum, NEW r, Leaves(r, n)
  PROVE  r[MaxBytes - 1] <= Top
<1>1. Maximum \in Nat /\ n \in Nat /\ n <= Maximum /\ MaxBytes \in Nat /\ MaxBytes > 0
  BY FrameAssumption
<1>2. PICK s : Leaves(s, Maximum) /\ Rest(Maximum) = s
  BY <1>1, VarintIs
<1> DEFINE T == {k \in Nat : k <= MaxBytes => r[k] <= s[k]}
<1>3. 0 \in T
  BY <1>1, <1>2 DEF Leaves
<1>4. ASSUME NEW k \in Nat, k \in T PROVE k + 1 \in T
  <2> SUFFICES ASSUME k + 1 <= MaxBytes PROVE r[k + 1] <= s[k + 1]
    OBVIOUS
  <2>1. k \in 0 .. MaxBytes /\ k + 1 \in 1 .. MaxBytes /\ k + 1 - 1 = k
    BY <1>1
  <2> DEFINE a == r[k]
             b == s[k]
  <2>2. a \in Nat /\ b \in Nat /\ a <= b
    BY <2>1, <1>2, <1>4 DEF Leaves
  <2>3. r[k + 1] = a \div Base /\ s[k + 1] = b \div Base
    BY <2>1, <1>2 DEF Leaves
  <2> HIDE DEF a, b
  <2>4. a \div Base <= b \div Base
    BY <2>2, FrameAssumption
  <2> QED BY <2>3, <2>4
<1>5. Nat \subseteq T
  <2> HIDE DEF T
  <2> QED BY <1>3, <1>4, NumbersInduction
<1>6. MaxBytes - 1 \in T /\ MaxBytes - 1 <= MaxBytes
  BY <1>1, <1>5
<1>7. r[MaxBytes - 1] <= s[MaxBytes - 1] /\ s[MaxBytes - 1] <= Top
  BY <1>2, <1>6, LengthAssumption
<1>8. MaxBytes - 1 \in 0 .. MaxBytes
  BY <1>1
<1>9. r[MaxBytes - 1] \in Nat /\ s[MaxBytes - 1] \in Nat
  BY <1>2, <1>8 DEF Leaves
<1> QED BY <1>7, <1>9, FrameAssumption

\* The number of groups of a length within the ceiling.
LEMMA WidthIs ==
  ASSUME NEW n \in 0 .. Maximum, NEW r, Leaves(r, n)
  PROVE  /\ Width(r) \in 1 .. MaxBytes /\ r[Width(r)] = 0
         /\ \A j \in 1 .. Width(r) - 1 : r[j] # 0
<1>1. MaxBytes \in Nat /\ MaxBytes > 0 /\ MaxBytes - 1 \in 0 .. MaxBytes /\ MaxBytes \in 1 .. MaxBytes
  BY FrameAssumption
<1>2. r[MaxBytes - 1] <= Top /\ r[MaxBytes - 1] \in Nat
  BY RestBounded, <1>1 DEF Leaves
<1>3. r[MaxBytes] = 0
  <2> DEFINE a == r[MaxBytes - 1]
  <2>1. r[MaxBytes] = a \div Base
    BY <1>1 DEF Leaves
  <2>2. a \in Nat /\ a < Base
    BY <1>2, FrameAssumption
  <2> HIDE DEF a
  <2>3. a \div Base = 0
    BY <2>2, FrameAssumption
  <2> QED BY <2>1, <2>3
<1> DEFINE U == {k \in 1 .. MaxBytes : r[k] = 0}
<1>4. U \subseteq Nat /\ U # {}
  BY <1>1, <1>3
<1>5. PICK w \in U : \A k \in U : w <= k
  <2> HIDE DEF U
  <2> QED BY <1>4, LeastNumber
<1>6. ASSUME NEW j \in 1 .. w - 1, r[j] = 0 PROVE FALSE
  <2>1. j \in U
    BY <1>1, <1>6
  <2> QED BY <2>1, <1>1, <1>5
<1>7. w \in 1 .. MaxBytes /\ r[w] = 0 /\ \A j \in 1 .. w - 1 : r[j] # 0
  BY <1>5, <1>6
<1> QED BY <1>7, Zenon DEF Width

\* What the encoder spells: a whole prefix the decoder takes for the length.
LEMMA VarintSpells ==
  ASSUME NEW n \in 0 .. Maximum
  PROVE  Complete(Varint(n)) /\ Canonical(Varint(n)) /\ Value(Varint(n)) = n
<1>1. n \in Nat /\ MaxBytes \in Nat /\ Base \in Nat /\ Base > 1
  BY FrameAssumption
<1>2. PICK r : Leaves(r, n) /\ Varint(n) = [k \in 1 .. Width(r) |->
                                             [more |-> k < Width(r), bits |-> r[k - 1] % Base]]
  BY <1>1, VarintIs
<1> DEFINE w == Width(r)
           p == Varint(n)
<1>3. w \in 1 .. MaxBytes /\ r[w] = 0 /\ \A j \in 1 .. w - 1 : r[j] # 0
  BY <1>2, WidthIs
<1>4. p = [k \in 1 .. w |-> [more |-> k < w, bits |-> r[k - 1] % Base]]
  BY <1>2
<1> HIDE DEF w, p
<1>5. \A k \in 0 .. w : r[k] \in Nat
  BY <1>1, <1>2, <1>3 DEF Leaves
<1> DEFINE d(x) == x % Base
           m(x) == x * Base
<1>6. ASSUME NEW k \in 1 .. w
      PROVE  /\ d(r[k - 1]) \in 0 .. Base - 1 /\ r[k - 1] \in Nat
             /\ r[k - 1] = m(r[k]) + d(r[k - 1])
  <2>1. k - 1 \in 0 .. w /\ k \in 0 .. w /\ k \in 1 .. MaxBytes
    BY <1>1, <1>3
  <2>2. r[k - 1] \in Nat /\ r[k] \in Nat /\ r[k] = r[k - 1] \div Base
    BY <2>1, <1>2, <1>5 DEF Leaves
  <2>3. ASSUME NEW a \in Nat PROVE d(a) \in 0 .. Base - 1 /\ a = m(a \div Base) + d(a)
    BY <1>1
  <2> HIDE DEF d, m
  <2> QED BY <2>2, <2>3
<1>7. \A k \in 1 .. w : p[k] \in Bytes /\ p[k].more = (k < w) /\ p[k].bits = d(r[k - 1])
  BY <1>4, <1>6 DEF Bytes
<1>19. m(0) = 0
  BY <1>1
<1> HIDE DEF d, m
<1>8. p \in Seq(Bytes) /\ Len(p) = w
  <2>1. w \in Nat
    BY <1>3
  <2>2. p = [k \in 1 .. w |-> p[k]]
    BY <1>4
  <2> QED BY <1>7, <2>1, <2>2
<1>9. Complete(p)
  BY <1>3, <1>7, <1>8 DEF Complete
<1>10. w \in 1 .. w /\ w \in Nat
  BY <1>3
<1>11. r[w - 1] = d(r[w - 1]) /\ r[w - 1] \in 0 .. Base - 1
  <2>1. r[w - 1] = m(0) + d(r[w - 1]) /\ d(r[w - 1]) \in 0 .. Base - 1
    BY <1>3, <1>6, <1>10
  <2> QED BY <2>1, <1>1, <1>19
<1>12. p[w].bits = r[w - 1]
  BY <1>7, <1>10, <1>11
<1>13. Canonical(p)
  <2>1. w = MaxBytes => p[w].bits <= Top
    BY <1>2, <1>12, RestBounded
  <2>2. w > 1 => p[w].bits # 0
    <3>1. w > 1 => w - 1 \in 1 .. w - 1
      BY <1>10
    <3> QED BY <3>1, <1>3, <1>12
  <2>3. p[w].bits \in Int /\ Top \in Int
    BY <1>11, <1>12, FrameAssumption
  <2>4. ~ (w = MaxBytes /\ p[w].bits > Top)
    BY <2>1, <2>3
  <2>5. ~ (w > 1 /\ p[w] = [more |-> FALSE, bits |-> 0])
    BY <2>2
  <2> QED BY <1>8, <2>4, <2>5 DEF Canonical
<1>14. PICK s : Sums(s, p) /\ Value(p) = s[w]
  BY <1>8, SumsExist
<1>15. s[0] = 0 /\ \A i \in 1 .. w : s[i] = m(s[i - 1]) + p[w - i + 1].bits
  BY <1>8, <1>14 DEF Sums, m
<1> DEFINE T == {i \in Nat : i <= w => s[i] = r[w - i]}
<1>16. 0 \in T
  <2>1. w - 0 = w
    BY <1>10
  <2> QED BY <2>1, <1>3, <1>15
<1>17. ASSUME NEW i \in Nat, i \in T PROVE i + 1 \in T
  <2> SUFFICES ASSUME i + 1 <= w PROVE s[i + 1] = r[w - (i + 1)]
    OBVIOUS
  <2>1. i + 1 \in 1 .. w /\ i + 1 - 1 = i /\ w - i \in 1 .. w /\ w - i - 1 = w - (i + 1)
        /\ w - (i + 1) + 1 = w - i /\ i <= w
    BY <1>10
  <2>2. s[i] = r[w - i]
    BY <2>1, <1>17
  <2>3. s[i + 1] = m(s[i]) + p[w - i].bits
    BY <2>1, <1>15
  <2>4. p[w - i].bits = d(r[w - (i + 1)]) /\ r[w - (i + 1)] = m(r[w - i]) + d(r[w - (i + 1)])
    BY <2>1, <1>6, <1>7
  <2> QED BY <2>2, <2>3, <2>4, Zenon
<1>18. s[w] = n
  <2>1. Nat \subseteq T
    <3> HIDE DEF T
    <3> QED BY <1>16, <1>17, NumbersInduction
  <2>2. s[w] = r[w - w] /\ w - w = 0
    BY <2>1, <1>10
  <2> QED BY <2>2, <1>2 DEF Leaves
<1> QED BY <1>9, <1>13, <1>14, <1>18 DEF p

\* Where the elements of a concatenation come from.
LEMMA JoinedIs ==
  ASSUME NEW a \in Seq(Bytes), NEW b \in Seq(Bytes)
  PROVE  /\ Len(a \o b) = Len(a) + Len(b) /\ Len(a) \in Nat /\ Len(b) \in Nat
         /\ \A i \in 1 .. Len(a) : (a \o b)[i] = a[i]
         /\ \A i \in 1 .. Len(b) : (a \o b)[Len(a) + i] = b[i]
<1>1. Len(a \o b) = Len(a) + Len(b) /\ Len(a) \in Nat /\ Len(b) \in Nat
  OBVIOUS
<1>2. \A i \in 1 .. Len(a) : (a \o b)[i] = a[i]
  BY <1>1
<1>3. ASSUME NEW i \in 1 .. Len(b) PROVE (a \o b)[Len(a) + i] = b[i]
  <2>1. Len(a) + i \in 1 .. Len(a) + Len(b) /\ ~ (Len(a) + i <= Len(a)) /\ Len(a) + i - Len(a) = i
    BY <1>1
  <2> QED BY <1>1, <2>1
<1> QED BY <1>1, <1>2, <1>3

\* Sequences whose fronts are equally long are equal when both parts are.
LEMMA SameParts ==
  ASSUME NEW a \in Seq(Bytes), NEW b \in Seq(Bytes), NEW c \in Seq(Bytes), NEW d \in Seq(Bytes),
         a \o b = c \o d, Len(a) = Len(c)
  PROVE  a = c /\ b = d
<1> DEFINE n == Len(a)
           s == a \o b
<1>1. /\ n \in Nat /\ Len(b) \in Nat /\ Len(s) = n + Len(b)
      /\ \A i \in 1 .. Len(b) : s[n + i] = b[i]
  BY JoinedIs
<1>2. /\ Len(d) \in Nat /\ Len(s) = n + Len(d)
      /\ \A i \in 1 .. Len(d) : s[n + i] = d[i]
  <2>1. s = c \o d /\ n = Len(c)
    OBVIOUS
  <2> HIDE DEF s, n
  <2> QED BY <2>1, JoinedIs
<1>3. \A i \in 1 .. n : s[i] = a[i]
  BY JoinedIs
<1>4. \A i \in 1 .. n : s[i] = c[i]
  <2>1. s = c \o d /\ n = Len(c)
    OBVIOUS
  <2> HIDE DEF s, n
  <2> QED BY <2>1, JoinedIs
<1> HIDE DEF s
<1>5. \A i \in 1 .. Len(a) : a[i] = c[i]
  BY <1>3, <1>4
<1>6. a = c
  BY <1>5, SeqEqual, Zenon
<1> HIDE DEF n
<1>7. Len(b) = Len(d)
  BY <1>1, <1>2
<1>8. \A i \in 1 .. Len(b) : b[i] = d[i]
  BY <1>1, <1>2, <1>7
<1>9. b = d
  BY <1>7, <1>8, SeqEqual, Zenon
<1> QED BY <1>6, <1>9

\* Bytes with their flags on end before a whole prefix that starts alike.
LEMMA FlagsEnd ==
  ASSUME NEW q, Complete(q), NEW f \in Seq(Bytes), \A i \in 1 .. Len(f) : f[i].more = TRUE,
         NEW x \in Seq(Bytes), NEW y \in Seq(Bytes), f \o x = q \o y
  PROVE  Len(f) < Len(q)
<1>1. q \in Seq(Bytes) /\ Len(q) \in Nat /\ Len(q) >= 1 /\ Len(f) \in Nat
  BY FrameAssumption DEF Complete
<1> SUFFICES ASSUME Len(q) <= Len(f) PROVE FALSE
  BY <1>1
<1> DEFINE n == Len(q)
<1>2. n \in 1 .. Len(q) /\ n \in 1 .. Len(f)
  BY <1>1
<1>3. q[n].more = (n < Len(q))
  BY <1>2 DEF Complete
<1>4. (n < Len(q)) = FALSE
  BY <1>1
<1>5. (f \o x)[n] = f[n] /\ (q \o y)[n] = q[n]
  BY <1>1, <1>2
<1>6. f[n].more = TRUE
  BY <1>2
<1> HIDE DEF n
<1> QED BY <1>3, <1>4, <1>5, <1>6

\* Two strings that both start with a whole prefix are the same.
StartAlike(p, x, q, y) ==
  Complete(p) /\ Complete(q) /\ x \in Seq(Bytes) /\ y \in Seq(Bytes) /\ p \o x = q \o y

\* No whole prefix starts another: what follows starts at the same place.
LEMMA OneEnd ==
  ASSUME NEW p, NEW q, NEW x, NEW y, StartAlike(p, x, q, y)
  PROVE  p = q /\ x = y
<1>0. Complete(p) /\ Complete(q) /\ x \in Seq(Bytes) /\ y \in Seq(Bytes) /\ p \o x = q \o y
  BY DEF StartAlike
<1>1. p \in Seq(Bytes) /\ q \in Seq(Bytes) /\ Len(p) \in Nat /\ Len(q) \in Nat /\ Len(p) >= 1 /\ Len(q) >= 1
  BY <1>0, FrameAssumption DEF Complete
<1>2. ASSUME NEW s, Complete(s), NEW t, Complete(t), NEW u \in Seq(Bytes), NEW v \in Seq(Bytes),
             s \o u = t \o v, Len(s) < Len(t)
      PROVE  FALSE
  <2> DEFINE n == Len(s)
  <2>1. s \in Seq(Bytes) /\ t \in Seq(Bytes) /\ n \in Nat /\ Len(t) \in Nat /\ n >= 1
    BY <1>2, FrameAssumption DEF Complete
  <2>2. n \in 1 .. Len(s) /\ n \in 1 .. Len(t)
    BY <1>2, <2>1
  <2>3. s[n].more = (n < Len(s)) /\ t[n].more = (n < Len(t))
    BY <1>2, <2>2 DEF Complete
  <2>4. (n < Len(s)) = FALSE /\ (n < Len(t)) = TRUE
    BY <1>2, <2>1
  <2>5. (s \o u)[n] = s[n] /\ (t \o v)[n] = t[n]
    BY <2>1, <2>2
  <2> HIDE DEF n
  <2> QED BY <1>2, <2>3, <2>4, <2>5
<1>3. ~ (Len(p) < Len(q)) /\ ~ (Len(q) < Len(p))
  BY <1>0, <1>2
<1>4. Len(p) = Len(q)
  BY <1>1, <1>3
<1> QED BY <1>0, <1>1, <1>4, SameParts

\* The messages an encoder may send to this decoder.
Sendable == {m \in Messages : Len(m) <= Maximum}

\* A frame is a whole prefix and the payload it tells the length of.
LEMMA FrameParts ==
  ASSUME NEW m \in Sendable
  PROVE  /\ m \in Seq(Bytes) /\ m \in Messages /\ Len(m) \in 0 .. Maximum
         /\ Complete(Varint(Len(m))) /\ Canonical(Varint(Len(m))) /\ Value(Varint(Len(m))) = Len(m)
         /\ Varint(Len(m)) \in Seq(Bytes) /\ Len(Varint(Len(m))) \in Nat /\ Len(Varint(Len(m))) > 0
         /\ Frame(m) \in Seq(Bytes) /\ m \in Framed
         /\ Len(Frame(m)) = Len(Varint(Len(m))) + Len(m)
<1>1. m \in Seq(Bytes) /\ m \in Messages /\ Len(m) <= Maximum
  BY LengthAssumption DEF Sendable
<1>2. Len(m) \in 0 .. Maximum
  BY <1>1, FrameAssumption
<1> DEFINE v == Varint(Len(m))
<1>3. Complete(v) /\ Canonical(v) /\ Value(v) = Len(m)
  BY <1>2, VarintSpells
<1> HIDE DEF v
<1>4. v \in Seq(Bytes) /\ Len(v) \in Nat /\ Len(v) > 0
  BY <1>3, FrameAssumption DEF Complete
<1>5. v \o m \in Seq(Bytes) /\ Len(v \o m) = Len(v) + Len(m)
  BY <1>1, <1>4
<1>6. Frame(m) = v \o m
  BY DEF Frame, v
<1>7. m \in Framed
  BY <1>1, <1>5, <1>6 DEF Framed
<1>8. Len(Frame(m)) = Len(v) + Len(m) /\ Frame(m) \in Seq(Bytes)
  BY <1>5, <1>6
<1> QED BY <1>1, <1>2, <1>3, <1>4, <1>7, <1>8, Zenon DEF v

\* Two bodies that both start with a frame are the same.
CutAlike(m, x, k, y) ==
  m \in Sendable /\ k \in Sendable /\ x \in Seq(Bytes) /\ y \in Seq(Bytes) /\ Frame(m) \o x = Frame(k) \o y

\* A body is cut into frames in one way.
LEMMA OneFirst ==
  ASSUME NEW m, NEW x, NEW k, NEW y, CutAlike(m, x, k, y)
  PROVE  m = k /\ x = y
<1>0. m \in Sendable /\ k \in Sendable /\ x \in Seq(Bytes) /\ y \in Seq(Bytes) /\ Frame(m) \o x = Frame(k) \o y
  BY DEF CutAlike
<1> DEFINE v == Varint(Len(m))
           w == Varint(Len(k))
<1>1. /\ m \in Seq(Bytes) /\ Complete(v) /\ Value(v) = Len(m) /\ v \in Seq(Bytes)
      /\ k \in Seq(Bytes) /\ Complete(w) /\ Value(w) = Len(k) /\ w \in Seq(Bytes)
  BY <1>0, FrameParts
<1>2. Frame(m) = v \o m /\ Frame(k) = w \o k
  BY DEF Frame
<1> HIDE DEF v, w
<1>3. m \o x \in Seq(Bytes) /\ k \o y \in Seq(Bytes)
  BY <1>0, <1>1
<1>4. (v \o m) \o x = v \o (m \o x)
  <2>1. v \in Seq(Bytes) /\ m \in Seq(Bytes) /\ x \in Seq(Bytes)
    BY <1>0, <1>1
  <2> QED BY <2>1
<1>5. (w \o k) \o y = w \o (k \o y)
  <2>1. w \in Seq(Bytes) /\ k \in Seq(Bytes) /\ y \in Seq(Bytes)
    BY <1>0, <1>1
  <2> QED BY <2>1
<1>6. v \o (m \o x) = w \o (k \o y)
  BY <1>0, <1>2, <1>4, <1>5, Zenon
<1>7. v = w /\ m \o x = k \o y
  <2>1. PICK a \in Seq(Bytes) : a = m \o x
    BY <1>3
  <2>2. PICK b \in Seq(Bytes) : b = k \o y
    BY <1>3
  <2>3. v \o a = w \o b
    BY <1>6, <2>1, <2>2, Zenon
  <2>4. Complete(v) /\ Complete(w)
    BY <1>1
  <2>5. v = w /\ a = b
    BY <2>1, <2>2, <2>3, <2>4, OneEnd DEF StartAlike
  <2> QED BY <2>1, <2>2, <2>5, Zenon
<1>8. Len(m) = Len(k)
  BY <1>1, <1>7
<1> QED BY <1>0, <1>1, <1>7, <1>8, SameParts

-----------------------------------------------------------------------------
(* What an encoder may write: the encodings of messages it may send, which *)
(* are the bodies of WellFormed within the bound (WellFormedIs).           *)

\* What an encoder may write.
IsBody(w) == \E ms \in Seq(Sendable) : w = Encoded(ms)

\* Messages to send have frames.
LEMMA SendableFramed == ASSUME NEW ms \in Seq(Sendable) PROVE ms \in Seq(Framed)
<1>1. \A m \in Sendable : m \in Framed
  BY FrameParts
<1> HIDE DEF Sendable, Framed
<1> QED BY <1>1

\* A body is bytes, and the empty one is a body.
LEMMA BodyBytes == IsBody(<< >>) /\ \A w : IsBody(w) => w \in Seq(Bytes)
<1>1. << >> \in Seq(Sendable)
  OBVIOUS
<1>2. ASSUME NEW ms \in Seq(Sendable) PROVE Encoded(ms) \in Seq(Bytes)
  BY SendableFramed, EncodedType
<1> QED BY <1>1, <1>2, EncodedEmpty, Zenon DEF IsBody

\* One message more at the end of a body is a frame more.
LEMMA SentAppend ==
  ASSUME NEW ms \in Seq(Sendable), NEW k \in Sendable
  PROVE  /\ Append(ms, k) \in Seq(Sendable) /\ Encoded(ms) \in Seq(Bytes) /\ Frame(k) \in Seq(Bytes)
         /\ Encoded(Append(ms, k)) = Encoded(ms) \o Frame(k)
<1>1. ms \in Seq(Framed) /\ k \in Framed /\ Frame(k) \in Seq(Bytes)
  BY SendableFramed, FrameParts
<1>2. Append(ms, k) \in Seq(Sendable)
  <2> HIDE DEF Sendable
  <2> QED OBVIOUS
<1> QED BY <1>1, <1>2, EncodedAppend

\* A frame before a body makes a body.
LEMMA BodyMore ==
  ASSUME NEW m \in Sendable, NEW w, IsBody(w) PROVE IsBody(Frame(m) \o w)
<1> DEFINE T == {ms \in Seq(Sendable) : IsBody(Frame(m) \o Encoded(ms))}
<1>1. << >> \in T
  <2>1. << >> \in Seq(Sendable)
    OBVIOUS
  <2>2. /\ Append(<< >>, m) \in Seq(Sendable) /\ Frame(m) \in Seq(Bytes)
        /\ Encoded(Append(<< >>, m)) = Encoded(<< >>) \o Frame(m)
    BY <2>1, SentAppend
  <2>3. << >> \o Frame(m) = Frame(m) /\ Frame(m) \o << >> = Frame(m)
    BY <2>2
  <2>4. Frame(m) \o Encoded(<< >>) = Encoded(Append(<< >>, m))
    BY <2>2, <2>3, EncodedEmpty, Zenon
  <2> QED BY <2>1, <2>2, <2>4 DEF IsBody
<1>2. ASSUME NEW ms \in Seq(Sendable), NEW k \in Sendable, ms \in T PROVE Append(ms, k) \in T
  <2>1. PICK y \in Seq(Sendable) : Frame(m) \o Encoded(ms) = Encoded(y)
    BY <1>2 DEF IsBody
  <2>2. /\ Append(ms, k) \in Seq(Sendable) /\ Encoded(ms) \in Seq(Bytes) /\ Frame(k) \in Seq(Bytes)
        /\ Encoded(Append(ms, k)) = Encoded(ms) \o Frame(k)
    BY SentAppend
  <2>3. Append(y, k) \in Seq(Sendable) /\ Encoded(Append(y, k)) = Encoded(y) \o Frame(k)
    BY SentAppend
  <2>4. Frame(m) \in Seq(Bytes)
    BY FrameParts
  <2>5. (Frame(m) \o Encoded(ms)) \o Frame(k) = Frame(m) \o (Encoded(ms) \o Frame(k))
    <3>1. Frame(m) \in Seq(Bytes) /\ Encoded(ms) \in Seq(Bytes) /\ Frame(k) \in Seq(Bytes)
      BY <2>2, <2>4
    <3> QED BY <3>1
  <2>6. Frame(m) \o Encoded(Append(ms, k)) = Encoded(Append(y, k))
    BY <2>1, <2>2, <2>3, <2>5, Zenon
  <2> QED BY <2>2, <2>3, <2>6 DEF IsBody
<1>3. Seq(Sendable) \subseteq T
  <2> HIDE DEF T
  <2> QED BY <1>1, <1>2, SequencesInduction
<1> QED BY <1>3 DEF IsBody

\* A body that is not empty starts with a frame.
LEMMA BodyFront ==
  ASSUME NEW w, IsBody(w), w # << >>
  PROVE  \E m \in Sendable : \E x \in Seq(Bytes) : IsBody(x) /\ w = Frame(m) \o x
<1> DEFINE Cut(v) == \E m \in Sendable : \E x \in Seq(Sendable) : v = Frame(m) \o Encoded(x)
           T == {ms \in Seq(Sendable) : Encoded(ms) = << >> \/ Cut(Encoded(ms))}
<1>1. << >> \in T
  <2>1. << >> \in Seq(Sendable)
    OBVIOUS
  <2> QED BY <2>1, EncodedEmpty
<1>2. ASSUME NEW ms \in Seq(Sendable), NEW k \in Sendable, ms \in T PROVE Append(ms, k) \in T
  <2>1. /\ Append(ms, k) \in Seq(Sendable) /\ Encoded(ms) \in Seq(Bytes) /\ Frame(k) \in Seq(Bytes)
        /\ Encoded(Append(ms, k)) = Encoded(ms) \o Frame(k)
    BY SentAppend
  <2>2. CASE Encoded(ms) = << >>
    <3>1. << >> \o Frame(k) = Frame(k) \o << >>
      BY <2>1
    <3>2. Encoded(Append(ms, k)) = Frame(k) \o Encoded(<< >>)
      BY <2>1, <2>2, <3>1, EncodedEmpty, Zenon
    <3>3. << >> \in Seq(Sendable)
      OBVIOUS
    <3> QED BY <2>1, <3>2, <3>3
  <2>3. CASE Cut(Encoded(ms))
    <3>1. PICK m \in Sendable : \E x \in Seq(Sendable) : Encoded(ms) = Frame(m) \o Encoded(x)
      BY <2>3
    <3>2. PICK x \in Seq(Sendable) : Encoded(ms) = Frame(m) \o Encoded(x)
      BY <3>1
    <3>3. /\ Append(x, k) \in Seq(Sendable) /\ Encoded(x) \in Seq(Bytes)
          /\ Encoded(Append(x, k)) = Encoded(x) \o Frame(k)
      BY SentAppend
    <3>4. Frame(m) \in Seq(Bytes)
      BY FrameParts
    <3>5. (Frame(m) \o Encoded(x)) \o Frame(k) = Frame(m) \o (Encoded(x) \o Frame(k))
      <4>1. Frame(m) \in Seq(Bytes) /\ Encoded(x) \in Seq(Bytes) /\ Frame(k) \in Seq(Bytes)
        BY <2>1, <3>3, <3>4
      <4> QED BY <4>1
    <3>6. Encoded(Append(ms, k)) = Frame(m) \o Encoded(Append(x, k))
      BY <2>1, <3>2, <3>3, <3>5, Zenon
    <3> QED BY <2>1, <3>3, <3>6
  <2> QED BY <1>2, <2>2, <2>3
<1>3. Seq(Sendable) \subseteq T
  <2> HIDE DEF T
  <2> QED BY <1>1, <1>2, SequencesInduction
<1>4. PICK ms \in Seq(Sendable) : w = Encoded(ms)
  BY DEF IsBody
<1>5. Cut(w)
  BY <1>3, <1>4
<1>6. \A x \in Seq(Sendable) : IsBody(Encoded(x)) /\ Encoded(x) \in Seq(Bytes)
  BY BodyBytes DEF IsBody
<1> QED BY <1>5, <1>6, Zenon

\* What follows whole frames in a body is a body.
LEMMA BodyBehind ==
  ASSUME NEW s \in Seq(Sendable), NEW u \in Seq(Bytes), IsBody(Encoded(s) \o u)
  PROVE  IsBody(u)
<1> DEFINE T == {ms \in Seq(Sendable) : \A t \in Seq(Bytes) : IsBody(Encoded(ms) \o t) => IsBody(t)}
<1>1. << >> \in T
  <2>1. << >> \in Seq(Sendable)
    OBVIOUS
  <2>2. ASSUME NEW t \in Seq(Bytes), IsBody(Encoded(<< >>) \o t) PROVE IsBody(t)
    <3>1. << >> \o t = t
      OBVIOUS
    <3> QED BY <2>2, <3>1, EncodedEmpty, Zenon
  <2> QED BY <2>1, <2>2
<1>2. ASSUME NEW ms \in Seq(Sendable), NEW k \in Sendable, ms \in T PROVE Append(ms, k) \in T
  <2>1. /\ Append(ms, k) \in Seq(Sendable) /\ Encoded(ms) \in Seq(Bytes) /\ Frame(k) \in Seq(Bytes)
        /\ Encoded(Append(ms, k)) = Encoded(ms) \o Frame(k)
    BY SentAppend
  <2>2. ASSUME NEW t \in Seq(Bytes), IsBody(Encoded(Append(ms, k)) \o t) PROVE IsBody(t)
    <3>1. (Encoded(ms) \o Frame(k)) \o t = Encoded(ms) \o (Frame(k) \o t)
      <4>1. Encoded(ms) \in Seq(Bytes) /\ Frame(k) \in Seq(Bytes) /\ t \in Seq(Bytes)
        BY <2>1
      <4> QED BY <4>1
    <3>2. Frame(k) \o t \in Seq(Bytes) /\ Frame(k) \o t # << >>
      <4>1. Len(Frame(k)) > 0 /\ Frame(k) \in Seq(Bytes)
        <5>1. Len(Frame(k)) = Len(Varint(Len(k))) + Len(k) /\ Len(Varint(Len(k))) > 0
              /\ Len(Varint(Len(k))) \in Nat /\ Len(k) \in 0 .. Maximum
          BY FrameParts
        <5> QED BY <2>1, <5>1, FrameAssumption
      <4>2. Frame(k) \o t \in Seq(Bytes) /\ Len(Frame(k) \o t) = Len(Frame(k)) + Len(t)
        BY <4>1
      <4>3. Len(t) \in Nat /\ Len(Frame(k)) \in Nat /\ Len(<< >>) = 0
        BY <4>1
      <4>4. Len(Frame(k) \o t) # 0
        BY <4>1, <4>2, <4>3
      <4> QED BY <4>2, <4>3, <4>4, Zenon
    <3>3. IsBody(Encoded(ms) \o (Frame(k) \o t))
      BY <2>1, <2>2, <3>1, Zenon
    <3>4. IsBody(Frame(k) \o t)
      BY <1>2, <3>2, <3>3
    <3>5. PICK m \in Sendable : \E x \in Seq(Bytes) : IsBody(x) /\ Frame(k) \o t = Frame(m) \o x
      BY <3>2, <3>4, BodyFront
    <3>6. PICK x \in Seq(Bytes) : IsBody(x) /\ Frame(k) \o t = Frame(m) \o x
      BY <3>5
    <3>7. t = x
      BY <3>6, OneFirst DEF CutAlike
    <3> QED BY <3>6, <3>7
  <2> QED BY <2>1, <2>2
<1>3. Seq(Sendable) \subseteq T
  <2> HIDE DEF T
  <2> QED BY <1>1, <1>2, SequencesInduction
<1> QED BY <1>3

\* The bodies of up to n bytes, given those of fewer: nothing, or a frame and
\* a body behind it.
Longer(b, n) ==
  {<< >>} \cup UNION {{Frame(m) \o body : body \in b[n - Len(Frame(m))]} :
                      m \in {k \in Messages : Len(k) <= Maximum /\ Len(Frame(k)) <= n}}

\* The frame of m starts w, and b has what is behind it.
Continues(w, m, b, n) == Len(Frame(m)) <= n /\ \E x \in b[n - Len(Frame(m))] : w = Frame(m) \o x

\* The members of Longer one by one.
LEMMA LongerHas ==
  ASSUME NEW b, NEW n, NEW w
  PROVE  w \in Longer(b, n) <=> w = << >> \/ \E m \in Sendable : Continues(w, m, b, n)
<1> DEFINE K == {k \in Messages : Len(k) <= Maximum /\ Len(Frame(k)) <= n}
           F(m) == {Frame(m) \o body : body \in b[n - Len(Frame(m))]}
<1>1. \A m : m \in K <=> m \in Sendable /\ Len(Frame(m)) <= n
  BY Zenon DEF Sendable
<1>2. \A m : w \in F(m) <=> \E x \in b[n - Len(Frame(m))] : w = Frame(m) \o x
  BY Zenon
<1>3. Longer(b, n) = {<< >>} \cup UNION {F(m) : m \in K}
  BY Zenon DEF Longer
<1> HIDE DEF K, F
<1>4. w \in Longer(b, n) <=> w = << >> \/ \E m \in K : w \in F(m)
  BY <1>3, Zenon
<1> QED BY <1>1, <1>2, <1>4, Zenon DEF Continues

\* The bodies there are, by the bytes they may take.
Bodies == [n \in 0 .. MaxWire |-> {w \in Seq(Bytes) : IsBody(w) /\ Len(w) <= n}]

\* How long a body is behind its first frame.
LEMMA FrameLeaves ==
  ASSUME NEW m \in Sendable, NEW x \in Seq(Bytes), NEW n \in Nat
  PROVE  /\ Len(Frame(m)) \in Nat /\ Len(Frame(m)) > 0 /\ Frame(m) \o x \in Seq(Bytes)
         /\ Len(Frame(m) \o x) <= n <=> Len(Frame(m)) <= n /\ Len(x) <= n - Len(Frame(m))
<1>1. Frame(m) \in Seq(Bytes) /\ Len(Frame(m)) = Len(Varint(Len(m))) + Len(m)
      /\ Len(Varint(Len(m))) > 0 /\ Len(Varint(Len(m))) \in Nat /\ Len(m) \in 0 .. Maximum
  BY FrameParts
<1>2. Len(Frame(m)) \in Nat /\ Len(Frame(m)) > 0
  BY <1>1, FrameAssumption
<1>3. Frame(m) \o x \in Seq(Bytes) /\ Len(Frame(m) \o x) = Len(Frame(m)) + Len(x) /\ Len(x) \in Nat
  BY <1>1
<1>4. Len(Frame(m) \o x) <= n <=> Len(Frame(m)) <= n /\ Len(x) <= n - Len(Frame(m))
  BY <1>2, <1>3
<1> QED BY <1>2, <1>3, <1>4

\* Bodies keep to the equation of WellFormed.
LEMMA BodiesLonger ==
  ASSUME NEW n \in 0 .. MaxWire, NEW w
  PROVE  w \in Bodies[n] <=> w \in Longer(Bodies, n)
<1>1. n \in Nat /\ MaxWire \in Nat /\ Len(<< >>) = 0 /\ << >> \in Seq(Bytes) /\ 0 <= n
  BY FrameAssumption
<1>2. \A k \in 0 .. MaxWire : \A v : v \in Bodies[k] <=> v \in Seq(Bytes) /\ IsBody(v) /\ Len(v) <= k
  BY DEF Bodies
<1>3. ASSUME w \in Bodies[n], w # << >> PROVE w \in Longer(Bodies, n)
  <2>1. IsBody(w) /\ Len(w) <= n
    BY <1>2, <1>3
  <2>2. PICK m \in Sendable : \E x \in Seq(Bytes) : IsBody(x) /\ w = Frame(m) \o x
    BY <1>3, <2>1, BodyFront
  <2>3. PICK x \in Seq(Bytes) : IsBody(x) /\ w = Frame(m) \o x
    BY <2>2
  <2>4. Len(Frame(m)) \in Nat /\ Len(Frame(m)) <= n /\ Len(x) <= n - Len(Frame(m))
    BY <1>1, <2>1, <2>3, FrameLeaves
  <2>5. n - Len(Frame(m)) \in 0 .. MaxWire
    BY <1>1, <2>4
  <2>6. x \in Bodies[n - Len(Frame(m))]
    BY <1>2, <2>3, <2>4, <2>5
  <2>7. Continues(w, m, Bodies, n)
    BY <2>3, <2>4, <2>6, Zenon DEF Continues
  <2> QED BY <2>7, LongerHas
<1>4. ASSUME NEW m \in Sendable, Len(Frame(m)) <= n,
             NEW x \in Bodies[n - Len(Frame(m))], w = Frame(m) \o x
      PROVE  w \in Bodies[n]
  <2>1. Len(Frame(m)) \in Nat
    <3>1. << >> \in Seq(Bytes)
      OBVIOUS
    <3> QED BY <1>1, <3>1, FrameLeaves
  <2>2. n - Len(Frame(m)) \in 0 .. MaxWire
    BY <1>1, <1>4, <2>1
  <2>3. x \in Seq(Bytes) /\ IsBody(x) /\ Len(x) <= n - Len(Frame(m))
    BY <1>2, <2>2
  <2>4. w \in Seq(Bytes) /\ Len(w) <= n
    BY <1>1, <1>4, <2>3, FrameLeaves
  <2>5. IsBody(w)
    BY <1>4, <2>3, BodyMore
  <2> QED BY <1>2, <2>4, <2>5
<1>5. << >> \in Bodies[n]
  BY <1>1, <1>2, BodyBytes
<1>6. ASSUME NEW m \in Sendable, Continues(w, m, Bodies, n) PROVE w \in Bodies[n]
  BY <1>4, <1>6, Zenon DEF Continues
<1>7. w \in Longer(Bodies, n) => w = << >> \/ \E m \in Sendable : Continues(w, m, Bodies, n)
  BY LongerHas
<1>8. << >> \in Longer(Bodies, n)
  BY LongerHas
<1> QED BY <1>3, <1>5, <1>6, <1>7, <1>8, Zenon

\* What an encoder may write within the bound is what is well formed.
LEMMA WellFormedIs ==
  ASSUME NEW w PROVE w \in WellFormed <=> IsBody(w) /\ Len(w) <= MaxWire
<1>1. MaxWire \in Nat /\ MaxWire \in 0 .. MaxWire
  BY FrameAssumption
<1>2. Bodies = [n \in 0 .. MaxWire |-> Longer(Bodies, n)]
  <2>1. \A n \in 0 .. MaxWire : Bodies[n] = Longer(Bodies, n)
    BY BodiesLonger, Zenon
  <2>2. Bodies = [n \in 0 .. MaxWire |-> Bodies[n]]
    BY DEF Bodies
  <2> HIDE DEF Bodies
  <2> QED BY <2>1, <2>2
<1> DEFINE c == CHOOSE c : c = [n \in 0 .. MaxWire |-> Longer(c, n)]
<1>3. c = [n \in 0 .. MaxWire |-> Longer(c, n)]
  BY <1>2, Zenon
<1>4. WellFormed = c[MaxWire]
  BY Zenon DEF WellFormed, Longer
<1> HIDE DEF c
<1> DEFINE T == {n \in Nat : \A k \in 0 .. n : k <= MaxWire => c[k] = Bodies[k]}
<1>5. ASSUME NEW n \in 0 .. MaxWire, \A k \in 0 .. n - 1 : c[k] = Bodies[k]
      PROVE  c[n] = Bodies[n]
  <2>1. c[n] = Longer(c, n)
    BY <1>3
  <2>2. ASSUME NEW m \in Sendable, Len(Frame(m)) <= n
        PROVE  c[n - Len(Frame(m))] = Bodies[n - Len(Frame(m))]
    <3>1. << >> \in Seq(Bytes) /\ n \in Nat
      BY <1>1
    <3>2. Len(Frame(m)) \in Nat /\ Len(Frame(m)) > 0
      BY <3>1, FrameLeaves
    <3>3. n - Len(Frame(m)) \in 0 .. n - 1
      BY <2>2, <3>1, <3>2
    <3> QED BY <1>5, <3>3
  <2>3. ASSUME NEW v PROVE v \in Longer(c, n) <=> v \in Longer(Bodies, n)
    <3>1. v \in Longer(c, n) <=> v = << >> \/ \E m \in Sendable : Continues(v, m, c, n)
      BY LongerHas
    <3>2. v \in Longer(Bodies, n) <=> v = << >> \/ \E m \in Sendable : Continues(v, m, Bodies, n)
      BY LongerHas
    <3>3. ASSUME NEW m \in Sendable PROVE Continues(v, m, c, n) <=> Continues(v, m, Bodies, n)
      BY <2>2, Zenon DEF Continues
    <3> QED BY <3>1, <3>2, <3>3, Zenon
  <2>4. \A v : v \in c[n] <=> v \in Bodies[n]
    BY <2>1, <2>3, BodiesLonger, Zenon
  <2> QED BY <2>4
<1>6. 0 \in T
  <2>1. 0 \in 0 .. MaxWire /\ \A k \in 0 .. 0 - 1 : c[k] = Bodies[k]
    BY <1>1
  <2>2. c[0] = Bodies[0]
    BY <1>5, <2>1
  <2> QED BY <2>2
<1>7. ASSUME NEW n \in Nat, n \in T PROVE n + 1 \in T
  <2>1. ASSUME n + 1 <= MaxWire PROVE c[n + 1] = Bodies[n + 1]
    <3>1. n + 1 \in 0 .. MaxWire /\ \A k \in 0 .. n + 1 - 1 : k \in 0 .. n /\ k <= MaxWire
      BY <1>1, <2>1
    <3>2. \A k \in 0 .. n + 1 - 1 : c[k] = Bodies[k]
      BY <1>7, <3>1
    <3> QED BY <1>5, <3>1, <3>2
  <2>2. \A k \in 0 .. n + 1 : k = n + 1 \/ k \in 0 .. n
    OBVIOUS
  <2> QED BY <1>7, <2>1, <2>2
<1>8. c[MaxWire] = Bodies[MaxWire]
  <2>1. Nat \subseteq T
    <3> HIDE DEF T
    <3> QED BY <1>6, <1>7, NumbersInduction
  <2> QED BY <1>1, <2>1
<1>9. w \in Bodies[MaxWire] <=> IsBody(w) /\ Len(w) <= MaxWire
  BY <1>1, BodyBytes DEF Bodies
<1> QED BY <1>4, <1>8, <1>9, Zenon

\* A body that starts with w.
Starts(w) == \E z \in Seq(Bytes) : IsBody(w \o z)

\* What is cut from a body starts one.
LEMMA FragmentStarts ==
  ASSUME NEW w \in Fragments PROVE Starts(w)
<1>1. PICK body \in WellFormed : \E i \in 0 .. Len(body) : w = SubSeq(body, 1, i)
  BY Zenon DEF Fragments
<1>2. PICK i \in 0 .. Len(body) : w = SubSeq(body, 1, i)
  BY <1>1
<1>3. IsBody(body) /\ body \in Seq(Bytes)
  BY WellFormedIs, BodyBytes
<1> DEFINE z == SubSeq(body, i + 1, Len(body))
<1>4. z \in Seq(Bytes) /\ SubSeq(body, 1, i) \o z = body
  <2>1. Len(body) \in Nat /\ i \in Nat /\ i <= Len(body)
    BY <1>3
  <2>2. /\ SubSeq(body, 1, i) \in Seq(Bytes) /\ Len(SubSeq(body, 1, i)) = i
        /\ \A k \in 1 .. i : SubSeq(body, 1, i)[k] = body[k]
    BY <1>3, <2>1
  <2>3. /\ z \in Seq(Bytes) /\ Len(z) = Len(body) - i
        /\ \A k \in 1 .. Len(body) - i : z[k] = body[i + k]
    <3>1. z \in Seq(Bytes)
      BY <1>3, <2>1
    <3>2. Len(z) = Len(body) - i
      BY <1>3, <2>1
    <3>3. ASSUME NEW k \in 1 .. Len(body) - i PROVE z[k] = body[i + k]
      <4>1. k \in 1 .. Len(body) - (i + 1) + 1 /\ i + 1 + k - 1 = i + k
        BY <2>1
      <4> QED BY <1>3, <2>1, <4>1
    <3> QED BY <3>1, <3>2, <3>3
  <2> HIDE DEF z
  <2>4. PICK a \in Seq(Bytes) : a = SubSeq(body, 1, i)
    BY <2>2
  <2>5. Len(a) = i /\ \A k \in 1 .. i : a[k] = body[k]
    BY <2>2, <2>4, Zenon
  <2>6. /\ Len(a \o z) = Len(a) + Len(z) /\ a \o z \in Seq(Bytes)
        /\ \A k \in 1 .. Len(a) : (a \o z)[k] = a[k]
        /\ \A k \in 1 .. Len(z) : (a \o z)[Len(a) + k] = z[k]
    <3>1. a \in Seq(Bytes) /\ z \in Seq(Bytes)
      BY <2>3, <2>4
    <3>2. a \o z \in Seq(Bytes)
      BY <3>1
    <3> QED BY <3>1, <3>2, JoinedIs, Zenon
  <2>7. Len(a \o z) = Len(body)
    BY <2>1, <2>3, <2>5, <2>6
  <2>8. ASSUME NEW k \in 1 .. Len(a \o z) PROVE (a \o z)[k] = body[k]
    <3>1. CASE k <= i
      <4>1. k \in 1 .. i
        BY <2>1, <2>7, <3>1
      <4> QED BY <2>5, <2>6, <4>1
    <3>2. CASE ~ (k <= i)
      <4>1. k - i \in 1 .. Len(body) - i /\ i + (k - i) = k
        BY <2>1, <2>7, <3>2
      <4>2. (a \o z)[Len(a) + (k - i)] = z[k - i] /\ z[k - i] = body[i + (k - i)]
        BY <2>3, <2>6, <4>1
      <4> QED BY <2>5, <4>1, <4>2
    <3> QED BY <3>1, <3>2
  <2>9. a \o z = body
    BY <1>3, <2>6, <2>7, <2>8, SeqEqual, Zenon
  <2> QED BY <2>3, <2>4, <2>9, Zenon
<1>5. IsBody(w \o z)
  BY <1>2, <1>3, <1>4, Zenon
<1> HIDE DEF z
<1> QED BY <1>4, <1>5 DEF Starts

-----------------------------------------------------------------------------
(* What a decoder refuses starts no body (Refused): where it fails, a frame *)
(* would have had another prefix or another payload.                       *)

\* What completed are messages an encoder may send.
Sent == delivered \in Seq(Sendable) /\ messages \in Seq(Sendable)

\* A body that goes on behind whole frames goes on with a frame.
LEMMA FrameComes ==
  ASSUME NEW s \in Seq(Sendable), NEW u \in Seq(Bytes), u # << >>, Starts(Encoded(s) \o u)
  PROVE  \E m \in Sendable : \E x, z \in Seq(Bytes) : u \o z = Varint(Len(m)) \o (m \o x)
<1>1. PICK z \in Seq(Bytes) : IsBody((Encoded(s) \o u) \o z)
  BY DEF Starts
<1>2. Encoded(s) \in Seq(Bytes)
  BY BodyBytes DEF IsBody
<1>3. (Encoded(s) \o u) \o z = Encoded(s) \o (u \o z)
  <2>1. Encoded(s) \in Seq(Bytes) /\ u \in Seq(Bytes) /\ z \in Seq(Bytes)
    BY <1>1, <1>2
  <2> QED BY <2>1
<1>4. PICK y \in Seq(Bytes) : y = u \o z
  <2>1. z \in Seq(Bytes)
    BY <1>1
  <2>2. u \o z \in Seq(Bytes)
    BY <2>1
  <2> QED BY <2>2, Zenon
<1>5. IsBody(Encoded(s) \o y)
  BY <1>1, <1>3, <1>4, Zenon
<1>6. IsBody(y)
  BY <1>4, <1>5, BodyBehind
<1>7. y # << >>
  <2>1. Len(u) \in Nat /\ Len(z) \in Nat /\ Len(y) = Len(u) + Len(z) /\ Len(u) # 0
    BY <1>1, <1>4
  <2> QED BY <2>1
<1>8. PICK m \in Sendable : \E x \in Seq(Bytes) : IsBody(x) /\ y = Frame(m) \o x
  BY <1>6, <1>7, BodyFront
<1>9. PICK x \in Seq(Bytes) : y = Frame(m) \o x
  BY <1>8
<1>10. Varint(Len(m)) \in Seq(Bytes) /\ m \in Seq(Bytes)
  BY FrameParts
<1>11. (Varint(Len(m)) \o m) \o x = Varint(Len(m)) \o (m \o x)
  <2>1. Varint(Len(m)) \in Seq(Bytes) /\ m \in Seq(Bytes) /\ x \in Seq(Bytes)
    BY <1>9, <1>10
  <2> QED BY <2>1
<1>12. u \o z = Varint(Len(m)) \o (m \o x)
  BY <1>4, <1>9, <1>11, Zenon DEF Frame
<1> QED BY <1>1, <1>9, <1>12, Zenon

\* push refuses no prefix an encoder wrote.
LEMMA RefusedPrefix ==
  ASSUME DecoderInv, Lossless, Sent, NEW b \in Bytes, PrefixByte(b), failed = Fine, failed' # Fine
  PROVE  ~ Starts(Append(wire, b))
<1> DEFINE p == Append(prefix, b)
           s == delivered \o messages
           e == Encoded(s)
<1>1. expected = None /\ prefix \in Seq(Bytes) /\ p \in Seq(Bytes) /\ p # << >> /\ Len(p) = Len(prefix) + 1
      /\ Len(prefix) \in Nat /\ s \in Seq(Sendable)
  <2>1. expected = None
    BY Zenon DEF PrefixByte
  <2>2. prefix \in Seq(Bytes)
    BY DEF DecoderInv, FrameTypeOK
  <2>3. p \in Seq(Bytes) /\ p # << >> /\ Len(p) = Len(prefix) + 1 /\ Len(prefix) \in Nat
    BY <2>2
  <2>4. s \in Seq(Sendable)
    <3>1. delivered \in Seq(Sendable) /\ messages \in Seq(Sendable)
      BY DEF Sent
    <3> HIDE DEF Sendable
    <3> QED BY <3>1
  <2> QED BY <2>1, <2>2, <2>3, <2>4, Zenon
<1>2. e \in Seq(Bytes)
  BY <1>1, BodyBytes DEF IsBody
<1>3. wire = e \o prefix
  BY <1>1 DEF Lossless, Partial
<1> HIDE DEF e
<1>4. Append(wire, b) = e \o p
  BY <1>1, <1>2, <1>3, AppendEnd
<1> SUFFICES ASSUME Starts(e \o p) PROVE FALSE
  BY <1>4
<1>5. PICK m \in Sendable : \E x, z \in Seq(Bytes) : p \o z = Varint(Len(m)) \o (m \o x)
  <2> HIDE DEF s, p
  <2> QED BY <1>1, FrameComes DEF e
<1>6. PICK x \in Seq(Bytes), z \in Seq(Bytes) : p \o z = Varint(Len(m)) \o (m \o x)
  BY <1>5
<1>7. PICK v : v = Varint(Len(m))
  OBVIOUS
<1>8. /\ m \in Seq(Bytes) /\ Len(m) \in 0 .. Maximum
      /\ Complete(v) /\ Canonical(v) /\ Value(v) = Len(m) /\ v \in Seq(Bytes)
  BY <1>7, FrameParts
<1>9. PICK y \in Seq(Bytes) : y = m \o x
  <2>1. m \o x \in Seq(Bytes)
    BY <1>6, <1>8
  <2> QED BY <2>1, Zenon
<1>10. p \o z = v \o y
  BY <1>6, <1>7, <1>9, Zenon
<1>11. CASE Len(p) > MaxBytes
  <2>1. \A i \in 1 .. Len(prefix) : prefix[i].more = TRUE
    BY <1>1 DEF Lossless
  <2>2. p \o z = prefix \o (<<b>> \o z)
    <3>1. prefix \in Seq(Bytes) /\ <<b>> \in Seq(Bytes) /\ z \in Seq(Bytes)
      BY <1>1, <1>6
    <3>2. (prefix \o <<b>>) \o z = prefix \o (<<b>> \o z)
      BY <3>1
    <3>3. p = prefix \o <<b>>
      <4>1. prefix \in Seq(Bytes)
        BY <1>1
      <4> QED BY <4>1
    <3> QED BY <3>2, <3>3, Zenon
  <2>3. PICK t \in Seq(Bytes) : t = <<b>> \o z
    <3>1. <<b>> \in Seq(Bytes) /\ z \in Seq(Bytes)
      BY <1>6
    <3>2. <<b>> \o z \in Seq(Bytes)
      BY <3>1
    <3> QED BY <3>2, Zenon
  <2>4. prefix \o t = v \o y
    BY <1>10, <2>2, <2>3, Zenon
  <2>5. Len(prefix) < Len(v)
    BY <1>1, <1>8, <1>9, <2>1, <2>3, <2>4, FlagsEnd
  <2>6. Len(v) \in 1 .. MaxBytes
    BY <1>8 DEF Complete
  <2> HIDE DEF p
  <2> QED BY <1>1, <1>11, <2>5, <2>6, FrameAssumption
<1>12. CASE Len(p) <= MaxBytes
  <2>1. ~ b.more /\ (~ Canonical(p) \/ ~ Fits(Value(p)))
    <3>1. Len(p) \in Nat /\ MaxBytes \in Nat
      BY <1>1, FrameAssumption
    <3> HIDE DEF p
    <3>2. ~ (Len(p) > MaxBytes)
      BY <1>12, <3>1
    <3> QED BY <3>2 DEF PrefixByte, Fail, Continue, p
  <2>2. Complete(p)
    BY <1>1, <1>12, <2>1, PrefixWhole
  <2> HIDE DEF p
  <2>3. StartAlike(p, z, v, y)
    BY <1>6, <1>8, <1>9, <1>10, <2>2 DEF StartAlike
  <2>4. p = v
    BY <2>3, OneEnd
  <2> QED BY <1>8, <2>1, <2>4 DEF Fits
<1> QED
  <2>1. Len(p) \in Nat /\ MaxBytes \in Nat
    BY <1>1, FrameAssumption
  <2> HIDE DEF p
  <2> QED BY <1>11, <1>12, <2>1

\* push refuses no payload an encoder wrote.
LEMMA RefusedPayload ==
  ASSUME DecoderInv, Lossless, Sent, NEW b \in Bytes, PayloadByte(b), failed = Fine, failed' # Fine
  PROVE  ~ Starts(Append(wire, b))
<1> DEFINE p == Append(payload, b)
           s == delivered \o messages
           e == Encoded(s)
           q == Varint(expected)
<1>1. /\ expected # None /\ expected \in 0 .. Maximum /\ payload \in Seq(Bytes) /\ p \in Seq(Bytes)
      /\ s \in Seq(Sendable)
  <2>1. expected # None
    BY Zenon DEF PayloadByte
  <2>2. payload \in Seq(Bytes) /\ expected \in 0 .. Maximum
    BY <2>1 DEF DecoderInv, FrameTypeOK
  <2>3. p \in Seq(Bytes)
    BY <2>2
  <2>4. s \in Seq(Sendable)
    <3>1. delivered \in Seq(Sendable) /\ messages \in Seq(Sendable)
      BY DEF Sent
    <3> HIDE DEF Sendable
    <3> QED BY <3>1
  <2> QED BY <2>1, <2>2, <2>3, <2>4, Zenon
<1>2. e \in Seq(Bytes) /\ Complete(q) /\ Value(q) = expected
  BY <1>1, BodyBytes, VarintSpells DEF IsBody
<1>3. q \in Seq(Bytes) /\ Len(q) > 0
  BY <1>2, FrameAssumption DEF Complete
<1>4. wire = e \o (q \o payload)
  BY <1>1 DEF Lossless, Partial
<1>5. Len(p) = expected /\ p \notin Messages
  BY DEF PayloadByte, Completed, Rejected, Fail, Continue
<1> HIDE DEF e, q
<1>6. Append(wire, b) = e \o (q \o p)
  <2>1. q \o payload \in Seq(Bytes) /\ Append(q \o payload, b) = q \o p
    <3>1. q \o payload \in Seq(Bytes)
      <4> HIDE DEF p
      <4> QED BY <1>1, <1>3
    <3> QED BY <1>1, <1>3, <3>1, AppendEnd
  <2>2. Append(e \o (q \o payload), b) = e \o Append(q \o payload, b)
    BY <1>2, <2>1, AppendEnd
  <2> QED BY <1>4, <2>1, <2>2, Zenon
<1> HIDE DEF p
<1>7. PICK u \in Seq(Bytes) : u = q \o p
  <2>1. q \o p \in Seq(Bytes)
    BY <1>1, <1>3
  <2> QED BY <2>1, Zenon
<1>8. u # << >>
  <2>1. Len(u) = Len(q) + Len(p) /\ Len(q) \in Nat /\ Len(p) \in Nat
    BY <1>1, <1>3, <1>7
  <2> QED BY <1>3, <2>1
<1> SUFFICES ASSUME Starts(e \o u) PROVE FALSE
  BY <1>6, <1>7, Zenon
<1>9. PICK m \in Sendable : \E x, z \in Seq(Bytes) : u \o z = Varint(Len(m)) \o (m \o x)
  <2> HIDE DEF s
  <2> QED BY <1>1, <1>7, <1>8, FrameComes DEF e
<1>10. PICK x \in Seq(Bytes), z \in Seq(Bytes) : u \o z = Varint(Len(m)) \o (m \o x)
  BY <1>9
<1>11. PICK v : v = Varint(Len(m))
  OBVIOUS
<1>12. /\ m \in Seq(Bytes) /\ m \in Messages
       /\ Complete(v) /\ Value(v) = Len(m) /\ v \in Seq(Bytes)
  BY <1>11, FrameParts
<1>13. (q \o p) \o z = q \o (p \o z)
  <2>1. q \in Seq(Bytes) /\ p \in Seq(Bytes) /\ z \in Seq(Bytes)
    BY <1>1, <1>3, <1>10
  <2> QED BY <2>1
<1>14. PICK y \in Seq(Bytes) : y = m \o x
  <2>1. m \o x \in Seq(Bytes)
    BY <1>10, <1>12
  <2> QED BY <2>1, Zenon
<1>15. PICK t \in Seq(Bytes) : t = p \o z
  <2>1. p \o z \in Seq(Bytes)
    BY <1>1, <1>10
  <2> QED BY <2>1, Zenon
<1>16. q \o t = v \o y
  BY <1>7, <1>10, <1>11, <1>13, <1>14, <1>15, Zenon
<1>17. q = v /\ t = y
  <2>1. StartAlike(q, t, v, y)
    BY <1>2, <1>12, <1>14, <1>15, <1>16 DEF StartAlike
  <2> QED BY <2>1, OneEnd
<1>18. p \o z = m \o x /\ Len(p) = Len(m)
  BY <1>2, <1>5, <1>12, <1>14, <1>15, <1>17, Zenon
<1>19. p = m
  BY <1>1, <1>10, <1>12, <1>18, SameParts
<1> QED BY <1>5, <1>12, <1>19

\* A decoder between frames holds a whole body, any other a part of a frame.
LEMMA BoundaryTells ==
  ASSUME DecoderInv, Lossless, Sent, failed = Fine, messages = << >>, Len(wire) <= MaxWire
  PROVE  AtBoundary <=> wire \in WellFormed
<1> DEFINE e == Encoded(delivered)
<1>1. delivered \in Seq(Sendable) /\ prefix \in Seq(Bytes) /\ payload \in Seq(Bytes)
  BY DEF Sent, DecoderInv, FrameTypeOK
<1>2. IsBody(e) /\ e \in Seq(Bytes)
  BY <1>1, BodyBytes DEF IsBody
<1>3. wire = e \o Partial
  <2>1. delivered \o << >> = delivered
    BY <1>1
  <2> QED BY <2>1 DEF Lossless
<1> HIDE DEF e
<1>4. ASSUME AtBoundary PROVE wire \in WellFormed
  <2>1. Partial = << >>
    BY <1>4 DEF AtBoundary, Partial
  <2>2. wire = e
    BY <1>2, <1>3, <2>1
  <2> QED BY <1>2, <2>2, WellFormedIs
<1>5. ASSUME ~ AtBoundary, wire \in WellFormed PROVE FALSE
  <2>1. IsBody(e \o Partial)
    BY <1>3, <1>5, WellFormedIs
  <2>2. ASSUME NEW u \in Seq(Bytes), u # << >>, u = Partial
        PROVE  \E m \in Sendable : \E x \in Seq(Bytes) : u = Varint(Len(m)) \o (m \o x)
    <3>1. IsBody(u)
      BY <1>1, <2>1, <2>2, BodyBehind DEF e
    <3>2. PICK m \in Sendable : \E x \in Seq(Bytes) : IsBody(x) /\ u = Frame(m) \o x
      BY <2>2, <3>1, BodyFront
    <3>3. PICK x \in Seq(Bytes) : u = Frame(m) \o x
      BY <3>2
    <3>4. (Varint(Len(m)) \o m) \o x = Varint(Len(m)) \o (m \o x)
      <4>1. Varint(Len(m)) \in Seq(Bytes) /\ m \in Seq(Bytes) /\ x \in Seq(Bytes)
        BY <3>3, FrameParts
      <4> QED BY <4>1
    <3> QED BY <3>3, <3>4, Zenon DEF Frame
  <2>3. CASE expected = None
    <3>1. prefix # << >> /\ Partial = prefix
      BY <1>5, <2>3 DEF AtBoundary, Partial
    <3>2. PICK m \in Sendable : \E x \in Seq(Bytes) : prefix = Varint(Len(m)) \o (m \o x)
      BY <1>1, <2>2, <3>1
    <3>3. PICK x \in Seq(Bytes) : prefix = Varint(Len(m)) \o (m \o x)
      BY <3>2
    <3>4. PICK v : v = Varint(Len(m))
      OBVIOUS
    <3>5. m \in Seq(Bytes) /\ Complete(v) /\ v \in Seq(Bytes)
      BY <3>4, FrameParts
    <3>6. PICK y \in Seq(Bytes) : y = m \o x
      <4>1. m \o x \in Seq(Bytes)
        BY <3>3, <3>5
      <4> QED BY <4>1, Zenon
    <3>7. prefix \o << >> = v \o y /\ << >> \in Seq(Bytes)
      <4>1. prefix \o << >> = prefix
        BY <1>1
      <4> QED BY <3>3, <3>4, <3>6, <4>1
    <3>8. \A i \in 1 .. Len(prefix) : prefix[i].more = TRUE
      BY <2>3 DEF Lossless
    <3>9. Len(prefix) < Len(v)
      BY <1>1, <3>5, <3>6, <3>7, <3>8, FlagsEnd
    <3>10. Len(prefix) = Len(v) + Len(y) /\ Len(v) \in Nat /\ Len(y) \in Nat
      BY <3>3, <3>4, <3>5, <3>6
    <3> QED BY <3>9, <3>10
  <2>4. CASE expected # None
    <3>1. PICK q : q = Varint(expected)
      OBVIOUS
    <3>2. expected \in 0 .. Maximum /\ Len(payload) < expected /\ Complete(q) /\ Value(q) = expected
      BY <2>4, <3>1, VarintSpells DEF DecoderInv, FrameTypeOK, Filling
    <3>3. q \in Seq(Bytes) /\ Len(q) > 0
      BY <3>2, FrameAssumption DEF Complete
    <3>4. PICK u \in Seq(Bytes) : u = q \o payload
      <4>1. q \o payload \in Seq(Bytes)
        BY <1>1, <3>3
      <4> QED BY <4>1, Zenon
    <3>5. u = Partial /\ u # << >>
      <4>1. u = Partial
        BY <2>4, <3>1, <3>4 DEF Partial
      <4>2. Len(u) = Len(q) + Len(payload) /\ Len(q) \in Nat /\ Len(payload) \in Nat
        BY <1>1, <3>3, <3>4
      <4> QED BY <3>3, <4>1, <4>2
    <3>6. PICK m \in Sendable : \E x \in Seq(Bytes) : u = Varint(Len(m)) \o (m \o x)
      BY <2>2, <3>5
    <3>7. PICK x \in Seq(Bytes) : u = Varint(Len(m)) \o (m \o x)
      BY <3>6
    <3>8. PICK v : v = Varint(Len(m))
      OBVIOUS
    <3>9. m \in Seq(Bytes) /\ Complete(v) /\ Value(v) = Len(m) /\ v \in Seq(Bytes)
      BY <3>8, FrameParts
    <3>10. PICK y \in Seq(Bytes) : y = m \o x
      <4>1. m \o x \in Seq(Bytes)
        BY <3>7, <3>9
      <4> QED BY <4>1, Zenon
    <3>11. StartAlike(q, payload, v, y)
      BY <1>1, <3>2, <3>4, <3>7, <3>8, <3>9, <3>10 DEF StartAlike
    <3>12. q = v /\ payload = y
      BY <3>11, OneEnd
    <3>13. Len(y) = Len(m) + Len(x) /\ Len(m) \in Nat /\ Len(x) \in Nat
      BY <3>7, <3>9, <3>10
    <3>14. expected = Len(m)
      BY <3>2, <3>9, <3>12
    <3> QED BY <3>2, <3>12, <3>13, <3>14
  <2> QED BY <2>3, <2>4
<1> QED BY <1>4, <1>5

\* Behind a push nothing waits to be returned, behind finish nothing happens.
Rests ==
  /\ ~ pushing => messages = << >>
  /\ result # "open" => ~ pushing /\ (result = "complete" <=> AtBoundary)

\* A decoder that failed was sent no body.
Refused == failed # Fine => ~ Starts(wire)

\* What holds of every reachable state of a decoder and the encoder behind it.
AcceptInv == WireInv /\ Sent /\ Rests /\ Refused /\ Len(wire) <= MaxWire

\* Before the first byte nothing is returned or refused.
LEMMA AcceptStarts == FrameInit => AcceptInv
<1> SUFFICES ASSUME FrameInit PROVE AcceptInv
  OBVIOUS
<1>1. << >> \in Seq(Sendable) /\ Len(<< >>) = 0
  OBVIOUS
<1>2. Len(wire) <= MaxWire
  BY <1>1, FrameAssumption DEF FrameInit
<1>3. Sent /\ Rests /\ Refused
  BY <1>1 DEF FrameInit, Sent, Rests, Refused
<1> QED BY <1>2, <1>3, WireStarts DEF AcceptInv

\* The messages a push completes are such as an encoder may send.
LEMMA SentByte ==
  ASSUME DecoderInv, Sent, NEW b \in Bytes, Byte(b) PROVE Sent'
<1>1. delivered' = delivered /\ delivered \in Seq(Sendable) /\ messages \in Seq(Sendable)
  BY DEF Byte, Sent
<1>2. \A m \in Sendable : Append(messages, m) \in Seq(Sendable)
  <2> HIDE DEF Sendable
  <2> QED BY <1>1
<1>3. << >> \in Seq(Sendable)
  OBVIOUS
<1>4. << >> \in Sendable
  <2>1. Len(<< >>) = 0 /\ 0 <= Maximum
    BY FrameAssumption
  <2> QED BY <2>1, FrameAssumption DEF Sendable
<1>5. ASSUME PrefixByte(b) PROVE messages' = << >> \/ messages' = messages \/ messages' = Append(messages, << >>)
  BY <1>5, Zenon DEF PrefixByte, Fail
<1>6. ASSUME PayloadByte(b)
      PROVE  \/ messages' = << >> \/ messages' = messages
             \/ \E m \in Sendable : messages' = Append(messages, m)
  <2> DEFINE p == Append(payload, b)
  <2>1. \/ messages' = << >> \/ messages' = messages
        \/ Len(p) = expected /\ p \in Messages /\ messages' = Append(messages, p)
    BY <1>6, Zenon DEF PayloadByte, Completed, Rejected, Fail
  <2>2. expected <= Maximum
    BY <1>6, FrameAssumption DEF PayloadByte, DecoderInv, FrameTypeOK
  <2> HIDE DEF p
  <2>3. Len(p) = expected /\ p \in Messages => p \in Sendable
    BY <2>2 DEF Sendable
  <2> QED BY <2>1, <2>3, Zenon
<1>7. messages' \in Seq(Sendable)
  BY <1>1, <1>2, <1>3, <1>4, <1>5, <1>6, Zenon DEF Byte
<1> QED BY <1>1, <1>7 DEF Sent

\* What starts a body after one more byte started one before it.
LEMMA StartsShorter ==
  ASSUME NEW w \in Seq(Bytes), NEW b \in Bytes, Starts(Append(w, b)) PROVE Starts(w)
<1>1. PICK z \in Seq(Bytes) : IsBody(Append(w, b) \o z)
  BY DEF Starts
<1>2. <<b>> \in Seq(Bytes)
  OBVIOUS
<1>3. <<b>> \o z \in Seq(Bytes)
  BY <1>1, <1>2
<1>4. (w \o <<b>>) \o z = w \o (<<b>> \o z)
  <2>1. w \in Seq(Bytes) /\ <<b>> \in Seq(Bytes) /\ z \in Seq(Bytes)
    BY <1>1, <1>2
  <2> QED BY <2>1
<1>5. Append(w, b) = w \o <<b>>
  BY AppendIsConcat
<1>6. IsBody(w \o (<<b>> \o z))
  BY <1>1, <1>4, <1>5, Zenon
<1> QED BY <1>3, <1>6, Zenon DEF Starts

\* A step of push that fails met no body, and none is one that goes on from it.
LEMMA RefusedByte ==
  ASSUME AcceptInv, NEW b \in Bytes, Byte(b) PROVE Refused'
<1>1. /\ wire' = Append(wire, b) /\ wire \in Seq(Bytes)
      /\ PrefixByte(b) \/ PayloadByte(b)
  BY DEF Byte, AcceptInv, WireInv, DecoderInv, FrameTypeOK
<1>2. CASE failed = Fine
  <2>1. DecoderInv /\ Lossless /\ Sent
    BY <1>2 DEF AcceptInv, WireInv
  <2>2. failed' # Fine => ~ Starts(Append(wire, b))
    BY <1>1, <1>2, <2>1, RefusedPrefix, RefusedPayload
  <2> QED BY <1>1, <2>2 DEF Refused, Starts, IsBody, Encoded, Frame, Varint, Rest
<1>3. CASE failed # Fine
  <2>1. ~ Starts(wire)
    BY <1>3 DEF AcceptInv, Refused
  <2>2. ~ Starts(Append(wire, b))
    BY <1>1, <2>1, StartsShorter
  <2> QED BY <1>1, <2>2 DEF Refused
<1> QED BY <1>2, <1>3

\* No step refuses a body, and finish tells whether there is one.
LEMMA AcceptSteps == ASSUME AcceptInv, [FrameNext]_frameVars PROVE AcceptInv'
<1>1. WireInv' /\ WireInv /\ DecoderInv
  BY WireSteps DEF AcceptInv, WireInv
<1>2. ASSUME NEW b \in Bytes, Byte(b) PROVE Sent' /\ Rests' /\ Refused' /\ Len(wire') <= MaxWire
  <2>1. Sent' /\ Refused'
    BY <1>1, <1>2, SentByte, RefusedByte DEF AcceptInv
  <2>2. Rests'
    <3>1. result' = "open"
      BY <1>2 DEF Byte
    <3>2. ~ pushing' => messages' = << >>
      BY <1>2, Zenon DEF Byte, PrefixByte, PayloadByte, Completed, Rejected, Fail, Continue
    <3> QED BY <3>1, <3>2 DEF Rests
  <2>3. Len(wire') <= MaxWire
    <3>1. wire \in Seq(Bytes) /\ wire' = Append(wire, b) /\ Len(wire) < MaxWire
      BY <1>1, <1>2 DEF Byte, DecoderInv, FrameTypeOK
    <3>2. Len(wire') = Len(wire) + 1 /\ Len(wire) \in Nat
      BY <3>1
    <3> QED BY <3>1, <3>2, FrameAssumption
  <2> QED BY <2>1, <2>2, <2>3
<1>3. ASSUME PushReturns PROVE Sent' /\ Rests' /\ Refused' /\ Len(wire') <= MaxWire
  <2>1. /\ delivered' = delivered \o messages /\ messages' = << >> /\ pushing /\ pushing' = FALSE
        /\ UNCHANGED <<prefix, payload, expected, wire, failed, result>>
    BY <1>3 DEF PushReturns
  <2>2. delivered \o messages \in Seq(Sendable) /\ << >> \in Seq(Sendable)
    <3>1. delivered \in Seq(Sendable) /\ messages \in Seq(Sendable)
      BY DEF AcceptInv, Sent
    <3> HIDE DEF Sendable
    <3> QED BY <3>1
  <2>3. Sent'
    BY <2>1, <2>2 DEF Sent
  <2>4. Rests'
    BY <2>1 DEF AcceptInv, Rests
  <2> QED BY <2>1, <2>3, <2>4 DEF AcceptInv, Refused
<1>4. ASSUME Finish PROVE Sent' /\ Rests' /\ Refused' /\ Len(wire') <= MaxWire
  <2>1. Sent' /\ Refused' /\ Len(wire') <= MaxWire
    BY <1>4 DEF Finish, AcceptInv, Sent, Refused
  <2>2. Rests'
    BY <1>4 DEF Finish, AcceptInv, Rests, AtBoundary
  <2> QED BY <2>1, <2>2
<1>5. ASSUME UNCHANGED frameVars PROVE Sent' /\ Rests' /\ Refused' /\ Len(wire') <= MaxWire
  BY <1>5 DEF frameVars, AcceptInv, Sent, Rests, Refused, AtBoundary
<1> QED BY <1>1, <1>2, <1>3, <1>4, <1>5 DEF FrameNext, AcceptInv

\* For every base, word and ceiling and every way of cutting a body: what an
\* encoder wrote is never refused, whole or in part, and finish accepts it at
\* the end of a frame and nowhere else.
THEOREM AcceptsExactlyAlways == FrameSpec => []AcceptsExactly
<1>1. AcceptInv => AcceptsExactly
  <2> SUFFICES ASSUME AcceptInv PROVE AcceptsExactly
    OBVIOUS
  <2>1. wire \in Fragments => failed = Fine
    BY FragmentStarts DEF AcceptInv, Refused
  <2>2. ASSUME failed = Fine, result # "open" PROVE result = "complete" <=> wire \in WellFormed
    <3>1. DecoderInv /\ Lossless /\ Sent /\ messages = << >> /\ Len(wire) <= MaxWire
          /\ (result = "complete" <=> AtBoundary)
      BY <2>2 DEF AcceptInv, WireInv, Rests
    <3> QED BY <2>2, <3>1, BoundaryTells
  <2> QED BY <2>1, <2>2 DEF AcceptsExactly
<1> QED BY <1>1, AcceptStarts, AcceptSteps, PTL DEF FrameSpec

-----------------------------------------------------------------------------
(* The health sentinel.                                                    *)

\* What the task has seen to be ok has been ok, the status says no more, and
\* only the last step comes to "stopped".
Confirmed ==
  /\ snapshot \/ seen \/ reported = "serving" => everOk
  /\ doing = "stopped" => reported = "not serving"

\* What holds of every reachable state of the sentinel.
HealthInv == HealthTypeOK /\ Confirmed

\* Before boot nothing is reported.
LEMMA HealthStarts == HealthInit => HealthInv
<1> SUFFICES ASSUME HealthInit PROVE HealthInv
  OBVIOUS
<1>1. HealthTypeOK
  BY Zenon DEF HealthInit, HealthTypeOK
<1>2. Confirmed
  BY DEF HealthInit, Confirmed
<1> QED BY <1>1, <1>2 DEF HealthInv

\* A probe may make the snapshot ok, which is remembered; a status is the word
\* for what was seen; and the consumer that stopped says no more.
LEMMA HealthSteps == ASSUME HealthInv, [HealthNext]_healthVars PROVE HealthInv'
<1> USE DEF HealthInv, HealthTypeOK, Confirmed, Word, Select
<1>1. CASE Probe
  BY <1>1 DEF Probe
<1>2. CASE CancelToken
  BY <1>2 DEF CancelToken
<1>3. CASE LoadInitial
  BY <1>3 DEF LoadInitial
<1>4. CASE PublishInitial
  BY <1>4 DEF PublishInitial
<1>5. CASE Baseline
  BY <1>5 DEF Baseline
<1>6. CASE Poll
  BY <1>6 DEF Poll
<1>7. CASE Report
  BY <1>7 DEF Report
<1>8. CASE Cancelled
  BY <1>8 DEF Cancelled
<1>9. CASE Stop
  BY <1>9 DEF Stop
<1>10. CASE UNCHANGED healthVars
  BY <1>10 DEF healthVars
<1> QED
  BY <1>1, <1>2, <1>3, <1>4, <1>5, <1>6, <1>7, <1>8, <1>9, <1>10
  DEF HealthNext, Boot, Consumer

\* The status, the baseline and the task's place keep their types.
THEOREM HealthTypeCorrect == HealthSpec => []HealthTypeOK
<1>1. HealthInv => HealthTypeOK
  BY DEF HealthInv
<1> QED BY <1>1, HealthStarts, HealthSteps, PTL DEF HealthSpec

\* However the probes, the token and the consumer take turns, the sentinel is
\* serving only once a snapshot has been ok, and is not when the task is over.
THEOREM ServingConfirmedAlways == HealthSpec => []ServingConfirmed
<1>1. HealthInv => ServingConfirmed
  BY DEF HealthInv, Confirmed, ServingConfirmed
<1> QED BY <1>1, HealthStarts, HealthSteps, PTL DEF HealthSpec

-----------------------------------------------------------------------------
(* Version ranges: the bounds to_bounds makes select the versions that     *)
(* VersionReq::matches accepts.  What the bounds of each operator select is *)
(* compared part by part with what matches asks of the same operator       *)
(* (WildcardBounds, ExactBounds, TildeBounds, CaretBounds, StarBounds).    *)

\* What has been stored is what the parser at hand makes of the text, and the
\* bounds are those of what is stored.
Parsed ==
  /\ authored \in Expressions
  /\ answer = "new" => how = "none"
  /\ answer \notin {"new", "refused"} /\ how = "loose" =>
       Normalizes(authored) /\ stored = Normalized(authored)
  /\ answer \notin {"new", "refused", "pin"} /\ how = "spec" =>
       Bare(authored) /\ Len(authored.parts) < 3 /\ stored = authored

\* Nothing is stored before the first parse.
LEMMA ParsedStarts == VersionInit => Parsed
BY VersionAssumption DEF VersionInit, Parsed

\* Only a parser changes what is stored, and says which it was.
LEMMA ParsedSteps == ASSUME Parsed, [VersionNext]_versionVars PROVE Parsed'
<1> USE DEF Parsed
<1>1. CASE Parse
  BY <1>1 DEF Parse, Stores, Refuses
<1>2. CASE ParseLoose
  BY <1>2 DEF ParseLoose, Stores, Refuses
<1>3. CASE ParseSpec
  BY <1>3 DEF ParseSpec, Stores, Refuses
<1>4. CASE ToBounds
  BY <1>4 DEF ToBounds
<1>5. CASE UNCHANGED versionVars
  BY <1>5 DEF versionVars
<1> QED BY <1>1, <1>2, <1>3, <1>4, <1>5 DEF VersionNext

\* An expression's parts.
LEMMA PartsAre ==
  ASSUME NEW x \in Expressions
  PROVE  /\ Len(x.parts) \in 1 .. 4 /\ DOMAIN x.parts = 1 .. Len(x.parts)
         /\ \A i \in 1 .. Len(x.parts) : x.parts[i] \in Part
         /\ x.op \in {"bare", "^", "~", "=", "chain"}
         /\ x.parts \in Seq(Part)
<1>1. PICK n \in 1 .. 4 : x.parts \in [1 .. n -> Part]
  BY DEF Expressions
<1>2. x.op \in {"bare", "^", "~", "=", "chain"}
  BY DEF Expressions
<1>3. n \in Nat
  BY <1>1
<1>4. x.parts \in Seq(Part) /\ Len(x.parts) = n
  BY <1>1, <1>3, LenProperties
<1> QED BY <1>1, <1>2, <1>4

\* Padding makes three parts.
LEMMA PaddedIs ==
  ASSUME NEW x \in Expressions
  PROVE  /\ Len(Padded(x.parts)) = 3
         /\ \A i \in 1 .. 3 : Padded(x.parts)[i] = IF i <= Len(x.parts) THEN x.parts[i] ELSE 0
BY DEF Padded

\* normalize_loose keeps what was bare and partial apart from the rest.
LEMMA NormalizedPartial ==
  ASSUME NEW x \in Expressions, Normalizes(x)
  PROVE  IsLoosePartial(Normalized(x)) <=> Bare(x) /\ Len(x.parts) < 3
<1>1. Len(x.parts) \in 1 .. 4 /\ x.op \in {"bare", "^", "~", "=", "chain"}
  BY PartsAre
<1>2. CASE x.op \in {"=", "chain"} \/ Wilds(x.parts) # {}
  <2>1. Normalized(x) = x
    BY <1>2 DEF Normalized
  <2> QED BY <1>2, <2>1 DEF IsLoosePartial, Bare
<1>3. CASE x.op \in {"^", "~"} /\ Wilds(x.parts) = {}
  <2>1. Normalized(x) = [x EXCEPT !.parts = Padded(x.parts)]
    BY <1>3 DEF Normalized
  <2>2. Normalized(x).parts = Padded(x.parts)
    BY <2>1 DEF Expressions
  <2>3. Len(Normalized(x).parts) = 3
    BY <2>2, PaddedIs
  <2>4. ~ IsLoosePartial(Normalized(x))
    <3>1. Normalized(x).op = x.op
      BY <2>1 DEF Expressions
    <3> QED BY <1>3, <2>3, <3>1 DEF IsLoosePartial
  <2> QED BY <1>3, <2>4 DEF IsLoosePartial, Bare
<1>4. CASE x.op = "bare" /\ Wilds(x.parts) = {}
  <2>1. Len(x.parts) \in 1 .. 3
    <3>1. Len(x.parts) <= 3
      BY <1>4 DEF Normalizes
    <3>2. Len(x.parts) \in 1 .. 4
      BY PartsAre
    <3> QED BY <3>1, <3>2
  <2>2. Normalized(x) = [x EXCEPT !.op = <<"^", "~", "=">>[Len(x.parts)]]
    BY <1>4 DEF Normalized
  <2>3. Normalized(x).parts = x.parts /\ Normalized(x).op = <<"^", "~", "=">>[Len(x.parts)]
    BY <2>2 DEF Expressions
  <2>4. CASE Len(x.parts) = 1
    <3>1. <<"^", "~", "=">>[1] = "^"
      OBVIOUS
    <3>2. Normalized(x).op = "^"
      BY <2>3, <2>4, <3>1
    <3> QED BY <1>4, <2>3, <2>4, <3>2 DEF IsLoosePartial, Bare
  <2>5. CASE Len(x.parts) = 2
    <3>1. <<"^", "~", "=">>[2] = "~"
      OBVIOUS
    <3>2. Normalized(x).op = "~"
      BY <2>3, <2>5, <3>1
    <3> QED BY <1>4, <2>3, <2>5, <3>2 DEF IsLoosePartial, Bare
  <2>6. CASE Len(x.parts) = 3
    <3>1. <<"^", "~", "=">>[3] = "="
      OBVIOUS
    <3>2. Normalized(x).op = "="
      BY <2>3, <2>6, <3>1
    <3> QED BY <1>4, <2>3, <2>6, <3>2 DEF IsLoosePartial, Bare
  <2> QED BY <2>1, <2>4, <2>5, <2>6
<1> QED BY <1>1, <1>2, <1>3, <1>4

\* For any text, is_loose_partial says of a range parsed loosely whether the
\* text was bare and partial.
THEOREM LoosePartialKnownAlways == VersionCalls => []LoosePartialKnown
<1>1. Parsed => LoosePartialKnown
  BY NormalizedPartial DEF Parsed, LoosePartialKnown
<1> QED BY <1>1, ParsedStarts, ParsedSteps, PTL DEF VersionCalls

\* The order of triples, part by part.
LEMMA BeforeIs ==
  ASSUME NEW s, NEW t
  PROVE  Before(s, t) <=> \/ s[1] < t[1]
                          \/ s[1] = t[1] /\ s[2] < t[2]
                          \/ s[1] = t[1] /\ s[2] = t[2] /\ s[3] < t[3]
<1>1. 1 .. 1 - 1 = {} /\ 1 .. 2 - 1 = {1} /\ 1 .. 3 - 1 = {1, 2} /\ 1 .. 3 = {1, 2, 3}
  OBVIOUS
<1>2. Before(s, t) <=> \E i \in {1, 2, 3} : s[i] < t[i] /\ \A j \in 1 .. i - 1 : s[j] = t[j]
  BY <1>1, Zenon DEF Before
<1>3. (\E i \in {1, 2, 3} : s[i] < t[i] /\ \A j \in 1 .. i - 1 : s[j] = t[j])
      <=> \/ s[1] < t[1] /\ \A j \in 1 .. 1 - 1 : s[j] = t[j]
          \/ s[2] < t[2] /\ \A j \in 1 .. 2 - 1 : s[j] = t[j]
          \/ s[3] < t[3] /\ \A j \in 1 .. 3 - 1 : s[j] = t[j]
  OBVIOUS
<1>4. /\ \A j \in {} : s[j] = t[j]
      /\ (\A j \in {1} : s[j] = t[j]) <=> s[1] = t[1]
      /\ (\A j \in {1, 2} : s[j] = t[j]) <=> s[1] = t[1] /\ s[2] = t[2]
  OBVIOUS
<1>5. /\ \A j \in 1 .. 1 - 1 : s[j] = t[j]
      /\ (\A j \in 1 .. 2 - 1 : s[j] = t[j]) <=> s[1] = t[1]
      /\ (\A j \in 1 .. 3 - 1 : s[j] = t[j]) <=> s[1] = t[1] /\ s[2] = t[2]
  BY <1>1, <1>4, Zenon
<1> QED BY <1>2, <1>3, <1>5, Zenon

\* Triples are equal when their three parts are.
LEMMA TriplesEqual ==
  ASSUME NEW s \in Triples, NEW t \in Triples
  PROVE  s = t <=> s[1] = t[1] /\ s[2] = t[2] /\ s[3] = t[3]
<1> SUFFICES ASSUME s[1] = t[1] /\ s[2] = t[2] /\ s[3] = t[3] PROVE s = t
  OBVIOUS
<1>1. \A i \in 1 .. 3 : s[i] = t[i]
  OBVIOUS
<1>2. s \in [1 .. 3 -> 0 .. Largest] /\ t \in [1 .. 3 -> 0 .. Largest]
  BY DEF Triples
<1> QED BY <1>1, <1>2

\* From l up to the successor of its part r lie the triples that begin like l
\* and are not before it.
LEMMA PrefixInterval ==
  ASSUME NEW l, NEW u, NEW v, NEW r \in 1 .. 3,
         \A i \in 1 .. 3 : l[i] \in Nat /\ v[i] \in Nat /\ u[i] \in Nat,
         \A i \in 1 .. 3 : u[i] = IF i < r THEN l[i] ELSE IF i = r THEN l[i] + 1 ELSE 0
  PROVE  ~ Before(v, l) /\ Before(v, u) <=>
           ~ Before(v, l) /\ \A i \in 1 .. 3 : i <= r => v[i] = l[i]
<1>1. /\ l[1] \in Nat /\ l[2] \in Nat /\ l[3] \in Nat
      /\ v[1] \in Nat /\ v[2] \in Nat /\ v[3] \in Nat
      /\ u[1] \in Nat /\ u[2] \in Nat /\ u[3] \in Nat
  OBVIOUS
<1>2. r = 1 \/ r = 2 \/ r = 3
  OBVIOUS
<1>3. CASE r = 1
  <2>1. u[1] = l[1] + 1 /\ u[2] = 0 /\ u[3] = 0
    BY <1>3
  <2>2. (\A i \in 1 .. 3 : i <= r => v[i] = l[i]) <=> v[1] = l[1]
    BY <1>3
  <2> QED BY <1>1, <2>1, <2>2, BeforeIs
<1>4. CASE r = 2
  <2>1. u[1] = l[1] /\ u[2] = l[2] + 1 /\ u[3] = 0
    BY <1>4
  <2>2. (\A i \in 1 .. 3 : i <= r => v[i] = l[i]) <=> v[1] = l[1] /\ v[2] = l[2]
    BY <1>4
  <2> QED BY <1>1, <2>1, <2>2, BeforeIs
<1>5. CASE r = 3
  <2>1. u[1] = l[1] /\ u[2] = l[2] /\ u[3] = l[3] + 1
    BY <1>5
  <2>2. (\A i \in 1 .. 3 : i <= r => v[i] = l[i]) <=> v[1] = l[1] /\ v[2] = l[2] /\ v[3] = l[3]
    BY <1>5
  <2> QED BY <1>1, <2>1, <2>2, BeforeIs
<1> QED BY <1>2, <1>3, <1>4, <1>5

\* The lower bound: the numbers, zeros behind them.
LEMMA LowerIs ==
  ASSUME NEW x \in Expressions
  PROVE  \A i \in 1 .. 3 :
           /\ Lower(x)[i] = IF i <= Len(x.parts) /\ x.parts[i] # Wild THEN x.parts[i] ELSE 0
           /\ Lower(x)[i] \in 0 .. Largest
<1> SUFFICES ASSUME NEW i \in 1 .. 3
             PROVE  /\ Lower(x)[i] = IF i <= Len(x.parts) /\ x.parts[i] # Wild THEN x.parts[i] ELSE 0
                    /\ Lower(x)[i] \in 0 .. Largest
  OBVIOUS
<1>1. Lower(x)[i] = IF Padded(x.parts)[i] = Wild THEN 0 ELSE Padded(x.parts)[i]
  BY DEF Lower
<1>2. Padded(x.parts)[i] = IF i <= Len(x.parts) THEN x.parts[i] ELSE 0
  BY PaddedIs
<1>3. CASE i <= Len(x.parts)
  <2>1. Len(x.parts) \in 1 .. 4 /\ \A j \in 1 .. Len(x.parts) : x.parts[j] \in Part
    BY PartsAre
  <2>2. x.parts[i] \in Part
    BY <1>3, <2>1
  <2> QED BY <1>1, <1>2, <1>3, <2>2, VersionAssumption DEF Part, Wild
<1>4. CASE ~ (i <= Len(x.parts))
  BY <1>1, <1>2, <1>4, VersionAssumption DEF Wild
<1> QED BY <1>3, <1>4

\* How many numbers an expression has: Matches and to_bounds count alike.
Numbers(x) ==
  IF Wilds(x.parts) = {} THEN Len(x.parts)
  ELSE CHOOSE i \in 0 .. 2 : i + 1 \in Wilds(x.parts) /\ i \notin Wilds(x.parts)

\* An accepted expression with wildcards, other than "*", is one or two numbers
\* with only wildcards behind them.
LEMMA WildsTrail ==
  ASSUME NEW x \in Expressions, Accepted(x), x # Star, x.op # "chain", Wilds(x.parts) # {}
  PROVE  /\ Numbers(x) \in 1 .. 2 /\ Numbers(x) < Len(x.parts)
         /\ \A i \in 1 .. Len(x.parts) : x.parts[i] = Wild <=> i > Numbers(x)
<1>1. /\ Len(x.parts) \in 1 .. 4 /\ DOMAIN x.parts = 1 .. Len(x.parts)
  BY PartsAre
<1>2. /\ Len(x.parts) <= 3 /\ 1 \notin Wilds(x.parts)
      /\ \A i \in Wilds(x.parts) : i .. Len(x.parts) \subseteq Wilds(x.parts)
  BY DEF Accepted
<1>3. \A i \in 1 .. Len(x.parts) : x.parts[i] = Wild <=> i \in Wilds(x.parts)
  BY <1>1 DEF Wilds
<1>4. Wilds(x.parts) \subseteq 1 .. Len(x.parts)
  BY <1>1 DEF Wilds
<1> DEFINE W == Wilds(x.parts)
           l == Len(x.parts)
           n == CHOOSE i \in 0 .. 2 : i + 1 \in W /\ i \notin W
<1>5. Numbers(x) = n
  BY DEF Numbers
<1> HIDE DEF W, l
<1>6. W \subseteq 1 .. l /\ W # {} /\ 1 \notin W /\ l \in 1 .. 3
      /\ \A i \in W : i .. l \subseteq W
  BY <1>1, <1>2, <1>4 DEF W, l
<1>7. \E i \in 0 .. 2 : i + 1 \in W /\ i \notin W
  <2>1. CASE 2 \in W
    <3>1. 1 \in 0 .. 2 /\ 1 + 1 \in W /\ 1 \notin W
      BY <2>1, <1>6
    <3> QED BY <3>1
  <2>2. CASE 2 \notin W
    <3>1. PICK w \in W : TRUE
      BY <1>6
    <3>2. w = 3
      <4>1. w \in 1 .. l /\ w # 1 /\ w # 2
        BY <2>2, <1>6
      <4>2. l \in 1 .. 3
        BY <1>6
      <4> QED BY <4>1, <4>2
    <3>3. 2 \in 0 .. 2 /\ 2 + 1 \in W /\ 2 \notin W
      BY <3>1, <3>2, <2>2
    <3> QED BY <3>3
  <2> QED BY <2>1, <2>2
<1>8. n \in 0 .. 2 /\ n + 1 \in W /\ n \notin W
  BY <1>7
<1> HIDE DEF n
<1>9. n \in 1 .. 2 /\ n < l
  BY <1>6, <1>8
<1>10. ASSUME NEW i \in 1 .. l PROVE i \in W <=> i > n
  <2>1. i > n => i \in W
    <3> SUFFICES ASSUME i > n PROVE i \in W
      OBVIOUS
    <3>1. i \in n + 1 .. l
      BY <1>6, <1>9
    <3> QED BY <3>1, <1>6, <1>8
  <2>2. i \in W => i > n
    <3> SUFFICES ASSUME i \in W, ~ (i > n) PROVE FALSE
      OBVIOUS
    <3>1. n \in i .. l
      BY <1>6, <1>9
    <3> QED BY <3>1, <1>6, <1>8
  <2> QED BY <2>1, <2>2
<1> QED BY <1>3, <1>5, <1>9, <1>10 DEF W, l

\* The part of which the upper bound is the successor.
LEMMA RaisedIs ==
  ASSUME NEW x \in Expressions, Representable(x), x # Star, ~ Exact(x)
  PROVE  /\ Raised(x) \in 1 .. 3
         /\ x.op = "bare" => Raised(x) = Numbers(x) /\ Raised(x) \in 1 .. 2
         /\ x.op = "~" => Raised(x) = 2
         /\ x.op = "^" => Raised(x) = IF Lower(x)[1] # 0 THEN 1
                                      ELSE IF Lower(x)[2] # 0 THEN 2 ELSE 3
<1>1. x.op \in {"bare", "^", "~", "=", "chain"}
  BY PartsAre
<1>2. x.op # "chain" /\ Len(x.parts) <= 3 /\ (x.op = "=" => Len(x.parts) = 3)
      /\ (x.op \in {"^", "~", "="} => Wilds(x.parts) = {}) /\ (x.op = "bare" => Accepted(x))
  BY DEF Representable
<1>3. x.op # "="
  BY <1>2 DEF Exact
<1>4. CASE x.op = "^"
  BY <1>4 DEF Raised
<1>5. CASE x.op = "~"
  BY <1>5 DEF Raised
<1>6. CASE x.op = "bare"
  <2>1. Raised(x) = Numbers(x)
    BY <1>6 DEF Raised, Numbers
  <2>2. CASE Wilds(x.parts) = {}
    <3>1. Len(x.parts) # 3
      BY <1>6, <2>2 DEF Exact
    <3>2. Len(x.parts) \in 1 .. 4
      BY PartsAre
    <3>3. Numbers(x) = Len(x.parts)
      BY <2>2 DEF Numbers
    <3>4. Len(x.parts) \in 1 .. 2
      BY <1>2, <3>1, <3>2
    <3> QED BY <1>6, <2>1, <3>3, <3>4
  <2>3. CASE Wilds(x.parts) # {}
    <3>1. Numbers(x) \in 1 .. 2
      BY <1>2, <1>6, <2>3, WildsTrail
    <3> QED BY <1>6, <2>1, <3>1
  <2> QED BY <2>2, <2>3
<1> QED BY <1>1, <1>2, <1>3, <1>4, <1>5, <1>6

\* What the bounds of a representable expression select: all versions behind
\* "*", the one version of a full triple, else those that begin like the lower
\* bound up to the part raised and are not before it.
LEMMA SelectedAre ==
  ASSUME NEW x \in Expressions, Representable(x), NEW v \in Triples
  PROVE  /\ x = Star => v \in Selected(BoundsOf(x))
         /\ x # Star /\ Exact(x) =>
              (v \in Selected(BoundsOf(x)) <=> \A i \in 1 .. 3 : v[i] = Lower(x)[i])
         /\ x # Star /\ ~ Exact(x) =>
              (v \in Selected(BoundsOf(x)) <=>
                 /\ ~ Before(v, Lower(x))
                 /\ \A i \in 1 .. 3 : i <= Raised(x) => v[i] = Lower(x)[i])
<1> DEFINE b == BoundsOf(x)
           l == Lower(x)
<1>1. \A i \in 1 .. 3 : v[i] \in Nat /\ l[i] \in Nat
  <2>1. \A i \in 1 .. 3 : l[i] \in 0 .. Largest
    BY LowerIs
  <2> HIDE DEF l
  <2> QED BY <2>1, VersionAssumption DEF Triples
<1>2. /\ b.lower = l /\ b.inclusive = Exact(x)
      /\ b.upper = IF x = Star THEN Unbounded ELSE IF Exact(x) THEN l ELSE Upper(x)
  BY DEF BoundsOf
<1>3. v \in Selected(b) <=>
        ~ Before(v, l) /\ (b.upper = Unbounded \/ Before(v, b.upper) \/ (Exact(x) /\ v = b.upper))
  BY <1>2, Zenon DEF Selected
<1>4. l \in [1 .. 3 -> 0 .. Largest]
  <2>1. \A i \in 1 .. 3 : l[i] \in 0 .. Largest
    BY LowerIs
  <2>2. l = [i \in 1 .. 3 |-> l[i]]
    BY DEF Lower
  <2> HIDE DEF l
  <2> QED BY <2>1, <2>2
<1>5. CASE x = Star
  <2>1. \A i \in 1 .. 3 : l[i] = 0
    <3>1. Len(x.parts) = 1 /\ x.parts[1] = Wild
      BY <1>5 DEF Star
    <3>2. \A i \in 1 .. 3 : l[i] = IF i <= Len(x.parts) /\ x.parts[i] # Wild THEN x.parts[i] ELSE 0
      BY LowerIs
    <3> HIDE DEF l
    <3> QED BY <3>1, <3>2
  <2>2. ~ Before(v, l)
    <3> HIDE DEF l
    <3> QED BY <1>1, <2>1, BeforeIs
  <2> QED BY <1>2, <1>3, <1>5, <2>2
<1>6. CASE x # Star /\ Exact(x)
  <2>1. b.upper = l
    BY <1>2, <1>6
  <2>2. ~ (l = Unbounded)
    <3> HIDE DEF l
    <3> QED BY <1>4 DEF Unbounded
  <2>3. v \in Selected(b) <=> ~ Before(v, l) /\ (Before(v, l) \/ v = l)
    BY <1>3, <1>6, <2>1, <2>2
  <2>4. l \in Triples
    BY <1>4 DEF Triples
  <2>5. v = l <=> v[1] = l[1] /\ v[2] = l[2] /\ v[3] = l[3]
    <3> HIDE DEF l
    <3> QED BY <2>4, TriplesEqual
  <2>6. v = l => ~ Before(v, l)
    <3> HIDE DEF l
    <3> QED BY <1>1, BeforeIs
  <2>7. (\A i \in 1 .. 3 : v[i] = l[i]) <=> v[1] = l[1] /\ v[2] = l[2] /\ v[3] = l[3]
    <3> HIDE DEF l
    <3> QED OBVIOUS
  <2> QED BY <1>6, <2>3, <2>5, <2>6, <2>7
<1>7. CASE x # Star /\ ~ Exact(x)
  <2> DEFINE u == Upper(x)
             r == Raised(x)
  <2>1. b.upper = u /\ r \in 1 .. 3
    BY <1>2, <1>7, RaisedIs
  <2>2. \A i \in 1 .. 3 : u[i] = IF i < r THEN l[i] ELSE IF i = r THEN l[i] + 1 ELSE 0
    BY DEF Upper
  <2>3. \A i \in 1 .. 3 : l[i] \in Nat /\ v[i] \in Nat /\ u[i] \in Nat
    <3> HIDE DEF u, l, r
    <3> QED BY <1>1, <2>1, <2>2
  <2>4. ~ (u = Unbounded)
    <3>1. u = [i \in 1 .. 3 |-> u[i]]
      BY DEF Upper
    <3> HIDE DEF u
    <3>2. DOMAIN u = 1 .. 3 /\ DOMAIN Unbounded = {}
      BY <3>1 DEF Unbounded
    <3> QED BY <3>2
  <2>5. v \in Selected(b) <=> ~ Before(v, l) /\ Before(v, u)
    BY <1>3, <1>7, <2>1, <2>4
  <2>6. ~ Before(v, l) /\ Before(v, u) <=>
          ~ Before(v, l) /\ \A i \in 1 .. 3 : i <= r => v[i] = l[i]
    <3> HIDE DEF u, l, r
    <3> QED BY <2>1, <2>2, <2>3, PrefixInterval
  <2> QED BY <1>7, <2>5, <2>6
<1> QED BY <1>5, <1>6, <1>7

\* Zeros behind the part raised: nothing that begins like the bound is before it.
LEMMA NotBefore ==
  ASSUME NEW l, NEW v, NEW r \in 1 .. 3,
         \A i \in 1 .. 3 : l[i] \in Nat /\ v[i] \in Nat,
         \A i \in 1 .. 3 : i <= r => v[i] = l[i],
         \A i \in 1 .. 3 : i > r => l[i] = 0
  PROVE  ~ Before(v, l)
<1>1. /\ l[1] \in Nat /\ l[2] \in Nat /\ l[3] \in Nat
      /\ v[1] \in Nat /\ v[2] \in Nat /\ v[3] \in Nat
  OBVIOUS
<1>2. v[1] = l[1] /\ (v[2] = l[2] \/ l[2] = 0) /\ (v[3] = l[3] \/ l[3] = 0)
  OBVIOUS
<1> QED BY <1>1, <1>2, BeforeIs

\* A version has the numbers the expression gives, up to the k-th part.
Same(x, v, k) == \A i \in 1 .. k : i <= Numbers(x) => v[i] = x.parts[i]

\* The part up to which "^" wants a version to be the same.
Fixed(x) == IF x.parts[1] # 0 \/ Numbers(x) = 1 THEN 1
            ELSE IF x.parts[2] # 0 \/ Numbers(x) = 2 THEN 2 ELSE 3

\* VersionReq::matches by operator.
LEMMA MatchesAre ==
  ASSUME NEW x \in Expressions, NEW v
  PROVE  /\ x.op = "=" \/ (x.op = "bare" /\ Wilds(x.parts) # {}) =>
              (Matches(x, v) <=> Same(x, v, 3))
         /\ x.op = "~" =>
              (Matches(x, v) <=> Same(x, v, 2) /\ (Numbers(x) = 3 => v[3] >= x.parts[3]))
         /\ x.op = "^" =>
              (Matches(x, v) <=>
                 /\ Same(x, v, Fixed(x))
                 /\ \A i \in Fixed(x) + 1 .. Numbers(x) :
                      v[i] >= x.parts[i] \/ \E j \in Fixed(x) + 1 .. i - 1 : v[j] > x.parts[j])
<1>1. CASE x.op = "=" \/ (x.op = "bare" /\ Wilds(x.parts) # {})
  <2>1. x.op # "~" /\ x.op # "^"
    BY <1>1
  <2> QED BY <1>1, <2>1 DEF Matches, Same, Numbers
<1>2. CASE x.op = "~"
  <2>1. x.op # "=" /\ x.op # "bare" /\ x.op # "^"
    BY <1>2
  <2> QED BY <1>2, <2>1 DEF Matches, Same, Numbers
<1>3. CASE x.op = "^"
  <2>1. x.op # "=" /\ x.op # "bare" /\ x.op # "~"
    BY <1>3
  <2> QED BY <1>3, <2>1 DEF Matches, Same, Numbers, Fixed
<1> QED BY <1>1, <1>2, <1>3

\* A wildcard behind one or two numbers stands for what begins like them.
LEMMA WildcardBounds ==
  ASSUME NEW x \in Expressions, Representable(x), x # Star, x.op = "bare",
         NEW v \in Triples, ~ Exact(x)
  PROVE  /\ v \in Selected(BoundsOf(x)) <=> \A i \in 1 .. 3 : i <= Numbers(x) => v[i] = x.parts[i]
         /\ Numbers(x) \in 1 .. 2
<1> DEFINE l == Lower(x)
           r == Numbers(x)
<1>1. r \in 1 .. 2 /\ Raised(x) = r
  BY RaisedIs
<1>2. \A i \in 1 .. 3 : (i <= r => l[i] = x.parts[i]) /\ (i > r => l[i] = 0)
  <2>1. \A i \in 1 .. 3 :
          l[i] = IF i <= Len(x.parts) /\ x.parts[i] # Wild THEN x.parts[i] ELSE 0
    BY LowerIs
  <2>2. CASE Wilds(x.parts) = {}
    <3>1. r = Len(x.parts)
      BY <2>2 DEF Numbers
    <3>2. \A i \in 1 .. 3 : i <= r => x.parts[i] # Wild
      <4>1. DOMAIN x.parts = 1 .. Len(x.parts)
        BY PartsAre
      <4> QED BY <2>2, <3>1, <1>1, <4>1 DEF Wilds
    <3> HIDE DEF l, r
    <3> QED BY <2>1, <3>1, <3>2, <1>1
  <2>3. CASE Wilds(x.parts) # {}
    <3>1. Accepted(x) /\ x.op # "chain"
      BY DEF Representable
    <3>2. /\ r < Len(x.parts)
          /\ \A i \in 1 .. Len(x.parts) : x.parts[i] = Wild <=> i > r
      BY <3>1, <2>3, WildsTrail
    <3>3. Len(x.parts) \in Nat
      BY PartsAre
    <3> HIDE DEF l, r
    <3> QED BY <2>1, <3>2, <3>3, <1>1
  <2> QED BY <2>2, <2>3
<1>3. \A i \in 1 .. 3 : l[i] \in Nat /\ v[i] \in Nat
  <2>1. \A i \in 1 .. 3 : l[i] \in 0 .. Largest
    BY LowerIs
  <2> HIDE DEF l
  <2> QED BY <2>1, VersionAssumption DEF Triples
<1>4. v \in Selected(BoundsOf(x)) <=>
        ~ Before(v, l) /\ \A i \in 1 .. 3 : i <= r => v[i] = l[i]
  BY <1>1, SelectedAre
<1>5. (\A i \in 1 .. 3 : i <= r => v[i] = l[i]) => ~ Before(v, l)
  <2> HIDE DEF l, r
  <2>1. r \in 1 .. 3
    BY <1>1
  <2> QED BY <2>1, <1>2, <1>3, NotBefore
<1> HIDE DEF l
<1> QED BY <1>1, <1>2, <1>4, <1>5

\* Equal to one triple.
LEMMA ExactBounds ==
  ASSUME NEW x \in Expressions, Representable(x), x.op = "=", NEW v \in Triples
  PROVE  v \in Selected(BoundsOf(x)) <=> Matches(x, v)
<1>1. Len(x.parts) = 3 /\ Wilds(x.parts) = {} /\ x # Star /\ Exact(x)
  BY DEF Representable, Star, Exact
<1>2. \A i \in 1 .. 3 : Lower(x)[i] = x.parts[i]
  <2>1. DOMAIN x.parts = 1 .. 3
    BY <1>1, PartsAre
  <2>2. \A i \in 1 .. 3 : x.parts[i] # Wild
    BY <1>1, <2>1 DEF Wilds
  <2> QED BY <1>1, <2>2, LowerIs
<1>3. Matches(x, v) <=> \A i \in 1 .. 3 : v[i] = x.parts[i]
  <2>1. Numbers(x) = 3
    BY <1>1 DEF Numbers
  <2> QED BY <2>1, MatchesAre DEF Same
<1> QED BY <1>1, <1>2, <1>3, SelectedAre

\* An expression without wildcards behind an operator: its numbers.
LEMMA PlainParts ==
  ASSUME NEW x \in Expressions, Wilds(x.parts) = {}, NEW v \in Triples
  PROVE  /\ Numbers(x) = Len(x.parts)
         /\ \A i \in 1 .. 3 : Lower(x)[i] = IF i <= Len(x.parts) THEN x.parts[i] ELSE 0
         /\ \A i \in 1 .. 3 : Lower(x)[i] \in Nat /\ v[i] \in Nat
<1>1. DOMAIN x.parts = 1 .. Len(x.parts) /\ Len(x.parts) \in Nat
  BY PartsAre
<1>2. \A i \in 1 .. 3 : i <= Len(x.parts) => x.parts[i] # Wild
  BY <1>1 DEF Wilds
<1>3. \A i \in 1 .. 3 :
        Lower(x)[i] = IF i <= Len(x.parts) /\ x.parts[i] # Wild THEN x.parts[i] ELSE 0
  BY LowerIs
<1>4. \A i \in 1 .. 3 : Lower(x)[i] \in 0 .. Largest
  BY LowerIs
<1>5. \A i \in 1 .. 3 : Lower(x)[i] = IF i <= Len(x.parts) THEN x.parts[i] ELSE 0
  BY <1>2, <1>3
<1>6. \A i \in 1 .. 3 : Lower(x)[i] \in Nat /\ v[i] \in Nat
  BY <1>4, VersionAssumption DEF Triples
<1> QED BY <1>5, <1>6 DEF Numbers

\* Behind "~", with a minor: the same major and minor.
LEMMA TildeBounds ==
  ASSUME NEW x \in Expressions, Representable(x), x.op = "~", Len(x.parts) # 1,
         NEW v \in Triples
  PROVE  v \in Selected(BoundsOf(x)) <=> Matches(x, v)
<1> DEFINE l == Lower(x)
<1>1. Len(x.parts) = 2 \/ Len(x.parts) = 3
  <2>1. Len(x.parts) <= 3
    BY DEF Representable, Star
  <2>2. Len(x.parts) \in 1 .. 4
    BY PartsAre
  <2> QED BY <2>1, <2>2
<1>2. Wilds(x.parts) = {} /\ x # Star /\ ~ Exact(x)
  BY DEF Representable, Star, Exact
<1>3. v \in Selected(BoundsOf(x)) <=>
        ~ Before(v, l) /\ \A i \in 1 .. 3 : i <= 2 => v[i] = l[i]
  <2>1. Raised(x) = 2
    BY <1>2, RaisedIs
  <2> QED BY <1>2, <2>1, SelectedAre
<1>4. Matches(x, v) <=> Same(x, v, 2) /\ (Numbers(x) = 3 => v[3] >= x.parts[3])
  BY MatchesAre
<1>5. /\ Numbers(x) = Len(x.parts)
      /\ \A i \in 1 .. 3 : l[i] = IF i <= Len(x.parts) THEN x.parts[i] ELSE 0
      /\ \A i \in 1 .. 3 : l[i] \in Nat /\ v[i] \in Nat
  BY <1>2, PlainParts
<1> HIDE DEF l
<1>6. /\ l[1] = x.parts[1] /\ l[2] = x.parts[2]
      /\ (Len(x.parts) = 3 => l[3] = x.parts[3]) /\ (Len(x.parts) = 2 => l[3] = 0)
  BY <1>1, <1>5
<1>7. (\A i \in 1 .. 3 : i <= 2 => v[i] = l[i]) <=> v[1] = l[1] /\ v[2] = l[2]
  OBVIOUS
<1>8. Same(x, v, 2) <=> v[1] = l[1] /\ v[2] = l[2]
  BY <1>1, <1>5, <1>6 DEF Same
<1>9. /\ l[1] \in Nat /\ l[2] \in Nat /\ l[3] \in Nat
      /\ v[1] \in Nat /\ v[2] \in Nat /\ v[3] \in Nat
  BY <1>5
<1>10. v[1] = l[1] /\ v[2] = l[2] => (~ Before(v, l) <=> v[3] >= l[3])
  BY <1>9, BeforeIs
<1>11. (Numbers(x) = 3 => v[3] >= x.parts[3]) <=> v[3] >= l[3]
  <2>1. CASE Len(x.parts) = 3
    BY <2>1, <1>5, <1>6
  <2>2. CASE Len(x.parts) = 2
    <3>1. Numbers(x) # 3 /\ v[3] >= l[3]
      BY <2>2, <1>5, <1>6, <1>9
    <3> QED BY <3>1
  <2> QED BY <1>1, <2>1, <2>2
<1> QED BY <1>3, <1>4, <1>7, <1>8, <1>10, <1>11

\* Behind "^": the same numbers up to the first that is not zero.
LEMMA CaretBounds ==
  ASSUME NEW x \in Expressions, Representable(x), x.op = "^", NEW v \in Triples,
         Len(x.parts) = 3 \/ (Len(x.parts) = 1 /\ x.parts[1] # 0)
  PROVE  v \in Selected(BoundsOf(x)) <=> Matches(x, v)
<1> DEFINE l == Lower(x)
           f == Fixed(x)
<1>1. Wilds(x.parts) = {} /\ x # Star /\ ~ Exact(x)
  BY DEF Representable, Star, Exact
<1>2. /\ Numbers(x) = Len(x.parts)
      /\ \A i \in 1 .. 3 : l[i] = IF i <= Len(x.parts) THEN x.parts[i] ELSE 0
      /\ \A i \in 1 .. 3 : l[i] \in Nat /\ v[i] \in Nat
  BY <1>1, PlainParts
<1>3. v \in Selected(BoundsOf(x)) <=>
        ~ Before(v, l) /\ \A i \in 1 .. 3 : i <= Raised(x) => v[i] = l[i]
  BY <1>1, SelectedAre
<1>4. Raised(x) = IF l[1] # 0 THEN 1 ELSE IF l[2] # 0 THEN 2 ELSE 3
  BY <1>1, RaisedIs
<1>5. Matches(x, v) <=>
        /\ Same(x, v, f)
        /\ \A i \in f + 1 .. Numbers(x) :
             v[i] >= x.parts[i] \/ \E j \in f + 1 .. i - 1 : v[j] > x.parts[j]
  BY MatchesAre
<1>6. /\ l[1] \in Nat /\ l[2] \in Nat /\ l[3] \in Nat
      /\ v[1] \in Nat /\ v[2] \in Nat /\ v[3] \in Nat
  <2> HIDE DEF l
  <2> QED BY <1>2
<1>7. CASE Len(x.parts) = 1 /\ x.parts[1] # 0
  <2>1. l[1] = x.parts[1] /\ l[2] = 0 /\ l[3] = 0
    <3> HIDE DEF l
    <3> QED BY <1>2, <1>7
  <2>2. f = 1 /\ Numbers(x) = 1 /\ Raised(x) = 1
    <3>1. f = 1 /\ Numbers(x) = 1
      BY <1>2, <1>7 DEF Fixed
    <3> HIDE DEF l, f
    <3> QED BY <3>1, <1>4, <1>7, <2>1
  <2> HIDE DEF l, f
  <2>3. Matches(x, v) <=> v[1] = l[1]
    <3>1. Same(x, v, f) <=> v[1] = x.parts[1]
      BY <2>2 DEF Same
    <3>2. f + 1 .. Numbers(x) = {}
      BY <2>2
    <3> QED BY <1>5, <2>1, <3>1, <3>2
  <2>4. (\A i \in 1 .. 3 : i <= Raised(x) => v[i] = l[i]) <=> v[1] = l[1]
    BY <2>2
  <2>5. v[1] = l[1] => ~ Before(v, l)
    BY <1>6, <2>1, BeforeIs
  <2> QED BY <1>3, <2>3, <2>4, <2>5
<1>8. CASE Len(x.parts) = 3
  <2>1. l[1] = x.parts[1] /\ l[2] = x.parts[2] /\ l[3] = x.parts[3]
    <3> HIDE DEF l
    <3> QED BY <1>2, <1>8
  <2>2. Numbers(x) = 3 /\ f = Raised(x)
    <3>1. Numbers(x) = 3
      BY <1>2, <1>8
    <3> QED BY <1>4, <2>1, <3>1 DEF Fixed
  <2> HIDE DEF l, f
  <2>3. f = 1 \/ f = 2 \/ f = 3
    BY <1>4, <2>2
  <2>4. Same(x, v, f) <=> \A i \in 1 .. 3 : i <= f => v[i] = l[i]
    BY <2>1, <2>2, <2>3 DEF Same
  <2>5. (\A i \in 1 .. 3 : i <= f => v[i] = l[i]) =>
          ((\A i \in f + 1 .. Numbers(x) :
              v[i] >= x.parts[i] \/ \E j \in f + 1 .. i - 1 : v[j] > x.parts[j])
           <=> ~ Before(v, l))
    <3> SUFFICES ASSUME \A i \in 1 .. 3 : i <= f => v[i] = l[i]
                 PROVE  (\A i \in f + 1 .. 3 :
                           v[i] >= x.parts[i] \/ \E j \in f + 1 .. i - 1 : v[j] > x.parts[j])
                        <=> ~ Before(v, l)
      BY <2>2
    <3>1. CASE f = 1
      <4>1. 1 + 1 .. 3 = {2, 3} /\ 1 + 1 .. 2 - 1 = {} /\ 1 + 1 .. 3 - 1 = {2}
        OBVIOUS
      <4>2. (\A i \in {2, 3} :
               v[i] >= x.parts[i] \/ \E j \in 1 + 1 .. i - 1 : v[j] > x.parts[j])
            <=> /\ v[2] >= x.parts[2] \/ \E j \in 1 + 1 .. 2 - 1 : v[j] > x.parts[j]
                /\ v[3] >= x.parts[3] \/ \E j \in 1 + 1 .. 3 - 1 : v[j] > x.parts[j]
        OBVIOUS
      <4>3. /\ ~ \E j \in 1 + 1 .. 2 - 1 : v[j] > x.parts[j]
            /\ (\E j \in 1 + 1 .. 3 - 1 : v[j] > x.parts[j]) <=> v[2] > x.parts[2]
        BY <4>1
      <4>4. v[1] = l[1]
        BY <3>1
      <4>5. v[2] >= l[2] /\ (v[3] >= l[3] \/ v[2] > l[2]) <=> ~ Before(v, l)
        BY <4>4, <1>6, BeforeIs
      <4> QED BY <3>1, <2>1, <4>1, <4>2, <4>3, <4>5
    <3>2. CASE f = 2
      <4>1. 2 + 1 .. 3 = {3} /\ 2 + 1 .. 3 - 1 = {}
        OBVIOUS
      <4>2. (\A i \in {3} :
               v[i] >= x.parts[i] \/ \E j \in 2 + 1 .. i - 1 : v[j] > x.parts[j])
            <=> v[3] >= x.parts[3]
        BY <4>1
      <4>3. v[1] = l[1] /\ v[2] = l[2]
        BY <3>2
      <4>4. v[3] >= l[3] <=> ~ Before(v, l)
        BY <4>3, <1>6, BeforeIs
      <4> QED BY <3>2, <2>1, <4>1, <4>2, <4>4
    <3>3. CASE f = 3
      <4>1. 3 + 1 .. 3 = {}
        OBVIOUS
      <4>2. v[1] = l[1] /\ v[2] = l[2] /\ v[3] = l[3]
        BY <3>3
      <4>3. ~ Before(v, l)
        BY <4>2, <1>6, BeforeIs
      <4> QED BY <3>3, <4>1, <4>3
    <3> QED BY <2>3, <3>1, <3>2, <3>3
  <2> QED BY <1>3, <1>5, <2>2, <2>4, <2>5
<1> QED BY <1>7, <1>8

\* What normalize_loose makes of an expression.
LEMMA NormalizedIs ==
  ASSUME NEW x \in Expressions, Normalizes(x), NEW y, y = Normalized(x)
  PROVE  /\ y \in Expressions
         /\ y.op = "bare" => Wilds(y.parts) # {}
         /\ y.op = "~" => Len(y.parts) # 1
         /\ y.op = "^" => Len(y.parts) = 1 \/ Len(y.parts) = 3
<1>1. Len(x.parts) \in 1 .. 4 /\ x.op \in {"bare", "^", "~", "=", "chain"}
  BY PartsAre
<1>2. CASE x.op \in {"=", "chain"} \/ Wilds(x.parts) # {}
  <2>1. y = x
    BY <1>2 DEF Normalized
  <2>2. x.op \notin {"^", "~"}
    BY <1>2 DEF Normalizes
  <2> QED BY <1>1, <1>2, <2>1, <2>2
<1>3. CASE x.op \in {"^", "~"} /\ Wilds(x.parts) = {}
  <2>1. y = [x EXCEPT !.parts = Padded(x.parts)]
    BY <1>3 DEF Normalized
  <2>2. Padded(x.parts) \in [1 .. 3 -> Part] /\ Len(Padded(x.parts)) = 3
    <3>1. \A i \in 1 .. Len(x.parts) : x.parts[i] \in Part
      BY PartsAre
    <3>2. \A i \in 1 .. 3 : Padded(x.parts)[i] \in Part
      <4> SUFFICES ASSUME NEW i \in 1 .. 3 PROVE Padded(x.parts)[i] \in Part
        OBVIOUS
      <4>1. Padded(x.parts)[i] = IF i <= Len(x.parts) THEN x.parts[i] ELSE 0
        BY PaddedIs
      <4>2. 0 \in Part
        BY VersionAssumption DEF Part
      <4>3. i <= Len(x.parts) => i \in 1 .. Len(x.parts)
        BY <1>1
      <4> QED BY <4>1, <4>2, <4>3, <3>1
    <3>3. Padded(x.parts) = [i \in 1 .. 3 |-> Padded(x.parts)[i]]
      BY DEF Padded
    <3>4. Len(Padded(x.parts)) = 3
      BY PaddedIs
    <3> QED BY <3>2, <3>3, <3>4
  <2>3. y.op = x.op /\ y.parts = Padded(x.parts)
    BY <2>1 DEF Expressions
  <2>4. y \in Expressions
    BY <2>1, <2>2 DEF Expressions
  <2>5. y.op # "bare" /\ Len(y.parts) = 3
    BY <1>3, <2>2, <2>3
  <2> QED BY <2>4, <2>5
<1>4. CASE x.op = "bare" /\ Wilds(x.parts) = {}
  <2>1. Len(x.parts) <= 3
    BY <1>4 DEF Normalizes
  <2>2. Len(x.parts) = 1 \/ Len(x.parts) = 2 \/ Len(x.parts) = 3
    <3> DEFINE l == Len(x.parts)
    <3>1. l \in 1 .. 4 /\ l <= 3
      BY <1>1, <2>1
    <3> HIDE DEF l
    <3>2. l = 1 \/ l = 2 \/ l = 3
      BY <3>1
    <3> QED BY <3>2 DEF l
  <2>3. y = [x EXCEPT !.op = <<"^", "~", "=">>[Len(x.parts)]]
    BY <1>4 DEF Normalized
  <2>4. y.parts = x.parts /\ y.op = <<"^", "~", "=">>[Len(x.parts)]
    BY <2>3 DEF Expressions
  <2>5. <<"^", "~", "=">>[1] = "^" /\ <<"^", "~", "=">>[2] = "~" /\ <<"^", "~", "=">>[3] = "="
    OBVIOUS
  <2>6. y \in Expressions
    <3>1. <<"^", "~", "=">>[Len(x.parts)] \in {"bare", "^", "~", "=", "chain"}
      BY <2>2, <2>5
    <3> QED BY <2>3, <3>1 DEF Expressions
  <2>7. CASE Len(x.parts) = 1
    <3>1. y.op = "^" /\ Len(y.parts) = 1
      BY <2>4, <2>5, <2>7
    <3> QED BY <2>6, <3>1
  <2>8. CASE Len(x.parts) = 2
    <3>1. y.op = "~" /\ Len(y.parts) = 2
      BY <2>4, <2>5, <2>8
    <3> QED BY <2>6, <3>1
  <2>9. CASE Len(x.parts) = 3
    <3>1. y.op = "=" /\ Len(y.parts) = 3
      BY <2>4, <2>5, <2>9
    <3> QED BY <2>6, <3>1
  <2> QED BY <2>2, <2>7, <2>8, <2>9
<1> QED BY <1>1, <1>2, <1>3, <1>4

\* "*" selects and matches everything.
LEMMA StarBounds ==
  ASSUME NEW v \in Triples, Star \in Expressions
  PROVE  v \in Selected(BoundsOf(Star)) /\ Matches(Star, v)
<1>1. Representable(Star)
  BY DEF Representable
<1>2. v \in Selected(BoundsOf(Star))
  BY <1>1, SelectedAre
<1>3. Star.op = "bare" /\ Wilds(Star.parts) = {1}
  BY DEF Star, Wilds
<1>4. Numbers(Star) = 0
  <2>1. Numbers(Star) = CHOOSE i \in 0 .. 2 : i + 1 \in {1} /\ i \notin {1}
    BY <1>3 DEF Numbers
  <2>2. 0 \in 0 .. 2 /\ 0 + 1 \in {1} /\ 0 \notin {1}
    OBVIOUS
  <2> DEFINE n == CHOOSE i \in 0 .. 2 : i + 1 \in {1} /\ i \notin {1}
  <2>3. n \in 0 .. 2 /\ n + 1 \in {1}
    BY <2>2
  <2> HIDE DEF n
  <2>4. n = 0
    BY <2>3
  <2> QED BY <2>1, <2>4 DEF n
<1>5. Same(Star, v, 3)
  BY <1>4 DEF Same
<1> QED BY <1>2, <1>3, <1>5, MatchesAre

\* The bounds of a normalised range, but for "^0", or of a full triple behind an
\* operator select what the range matches.
LEMMA BoundsMatches ==
  ASSUME NEW x \in Expressions, Representable(x), NEW v \in Triples,
         x.op = "bare" => Wilds(x.parts) # {},
         x.op = "~" => Len(x.parts) # 1,
         x.op = "^" => Len(x.parts) = 3 \/ (Len(x.parts) = 1 /\ x.parts[1] # 0)
  PROVE  v \in Selected(BoundsOf(x)) <=> Matches(x, v)
<1>1. x.op \in {"bare", "^", "~", "=", "chain"}
  BY PartsAre
<1>2. CASE x = Star
  <2>1. Star \in Expressions
    BY <1>2
  <2> QED BY <1>2, <2>1, StarBounds
<1>3. CASE x # Star /\ x.op = "bare"
  <2>1. ~ Exact(x) /\ Wilds(x.parts) # {}
    BY <1>3 DEF Exact
  <2>2. v \in Selected(BoundsOf(x)) <=> \A i \in 1 .. 3 : i <= Numbers(x) => v[i] = x.parts[i]
    BY <1>3, <2>1, WildcardBounds
  <2>3. Matches(x, v) <=> Same(x, v, 3)
    BY <1>3, <2>1, MatchesAre
  <2> QED BY <2>2, <2>3 DEF Same
<1>4. x # Star => x.op # "chain"
  BY DEF Representable
<1> QED BY <1>1, <1>2, <1>3, <1>4, ExactBounds, TildeBounds, CaretBounds

\* The bounds of a scope select its prefix line.
LEMMA ScopeBounds ==
  ASSUME NEW x \in Expressions, Representable(x), Bare(x), Len(x.parts) < 3, NEW v \in Triples
  PROVE  v \in Selected(BoundsOf(x)) <=> v \in Line(x)
<1>1. x.op = "bare" /\ Wilds(x.parts) = {} /\ x # Star /\ ~ Exact(x)
  <2>1. Wilds(Star.parts) = {1}
    BY DEF Star, Wilds
  <2>2. x # Star
    BY <2>1 DEF Bare
  <2>3. ~ Exact(x)
    <3>1. ASSUME Len(x.parts) = 3 PROVE FALSE
      <4>1. 3 < 3
        BY <3>1, Zenon
      <4> QED BY <4>1
    <3> QED BY <3>1 DEF Exact
  <2> QED BY <2>2, <2>3 DEF Bare
<1>2. v \in Selected(BoundsOf(x)) <=> \A i \in 1 .. 3 : i <= Numbers(x) => v[i] = x.parts[i]
  BY <1>1, WildcardBounds
<1>3. Numbers(x) = Len(x.parts) /\ DOMAIN x.parts = 1 .. Len(x.parts) /\ Len(x.parts) \in Nat
  BY <1>1, PartsAre DEF Numbers
<1>4. (\A i \in 1 .. 3 : i <= Numbers(x) => v[i] = x.parts[i])
      <=> \A i \in DOMAIN x.parts : v[i] = x.parts[i]
  BY <1>3
<1> QED BY <1>2, <1>4 DEF Line

\* The bounds are those of what is stored.
BoundsStored ==
  /\ stored \in Expressions
  /\ answer = "bounds" => Representable(stored) /\ bounds = BoundsOf(stored)

\* What holds of every reachable state of a range.
VersionInv == Parsed /\ BoundsStored

\* A new range has no bounds.
LEMMA VersionStarts == VersionInit => VersionInv
<1> SUFFICES ASSUME VersionInit PROVE VersionInv
  OBVIOUS
<1>1. BoundsStored
  BY VersionAssumption DEF VersionInit, BoundsStored
<1> QED BY <1>1, ParsedStarts DEF VersionInv

\* Bounds come of to_bounds alone, and a parse that stores a range drops them.
LEMMA VersionSteps == ASSUME VersionInv, [VersionNext]_versionVars PROVE VersionInv'
<1>1. authored \in Expressions /\ BoundsStored
  BY DEF VersionInv, Parsed
<1>2. BoundsStored'
  <2> USE <1>1 DEF BoundsStored
  <2>1. CASE Parse
    BY <2>1 DEF Parse, Stores, Refuses
  <2>2. CASE ParseLoose
    <3>1. CASE Stores(Normalized(authored)) /\ Normalizes(authored)
      BY <3>1, NormalizedIs DEF Stores
    <3>2. CASE Refuses
      BY <3>2 DEF Refuses
    <3> QED BY <2>2, <3>1, <3>2 DEF ParseLoose
  <2>3. CASE ParseSpec
    BY <2>3 DEF ParseSpec, Stores, Refuses
  <2>4. CASE ToBounds
    BY <2>4 DEF ToBounds
  <2>5. CASE UNCHANGED versionVars
    BY <2>5 DEF versionVars
  <2> QED BY <2>1, <2>2, <2>3, <2>4, <2>5 DEF VersionNext
<1> QED BY <1>2, ParsedSteps DEF VersionInv

\* For any text and any largest number, the bounds of a normalised range select
\* the versions it matches, and those of a scope its prefix line.
THEOREM BoundsMatchAlways == VersionCalls => []BoundsMatch
<1>1. VersionInv => BoundsMatch
  <2> SUFFICES ASSUME VersionInv, answer = "bounds" PROVE
        /\ \/ how = "loose" /\ stored # [op |-> "^", parts |-> <<0>>]
           \/ Len(stored.parts) = 3 /\ stored.op # "bare"
           => Selected(bounds) = {v \in Triples : Matches(stored, v)}
        /\ how = "spec" => Selected(bounds) = Line(authored)
    BY DEF BoundsMatch
  <2>1. stored \in Expressions /\ Representable(stored) /\ bounds = BoundsOf(stored)
        /\ authored \in Expressions
    BY DEF VersionInv, BoundsStored, Parsed
  <2>2. Selected(bounds) \subseteq Triples
    BY DEF Selected
  <2>3. ASSUME \/ how = "loose" /\ stored # [op |-> "^", parts |-> << 0 >>]
               \/ Len(stored.parts) = 3 /\ stored.op # "bare"
        PROVE  Selected(bounds) = {v \in Triples : Matches(stored, v)}
    <3>1. /\ stored.op = "bare" => Wilds(stored.parts) # {}
          /\ stored.op = "~" => Len(stored.parts) # 1
          /\ stored.op = "^" => Len(stored.parts) = 3
                                 \/ (Len(stored.parts) = 1 /\ stored.parts[1] # 0)
      <4>1. CASE Len(stored.parts) = 3 /\ stored.op # "bare"
        BY <4>1
      <4>2. CASE how = "loose" /\ stored # [op |-> "^", parts |-> <<0>>]
        <5>1. Normalizes(authored) /\ stored = Normalized(authored)
          BY <4>2 DEF VersionInv, Parsed
        <5>2. /\ stored.op = "bare" => Wilds(stored.parts) # {}
              /\ stored.op = "~" => Len(stored.parts) # 1
              /\ stored.op = "^" => Len(stored.parts) = 1 \/ Len(stored.parts) = 3
          BY <5>1, <2>1, NormalizedIs
        <5>3. ASSUME stored.op = "^", Len(stored.parts) = 1, stored.parts[1] = 0 PROVE FALSE
          <6>1. stored.parts \in Seq(Part)
            BY <2>1, PartsAre
          <6>2. stored.parts = <<0>>
            BY <6>1, <5>3
          <6>3. stored = [op |-> "^", parts |-> <<0>>]
            BY <2>1, <5>3, <6>2 DEF Expressions
          <6> QED BY <4>2, <6>3
        <5> QED BY <5>2, <5>3
      <4> QED BY <2>3, <4>1, <4>2
    <3>2. \A v \in Triples : v \in Selected(bounds) <=> Matches(stored, v)
      BY <2>1, <3>1, BoundsMatches
    <3> QED BY <2>2, <3>2
  <2>4. ASSUME how = "spec" PROVE Selected(bounds) = Line(authored)
    <3>1. Bare(authored) /\ Len(authored.parts) < 3 /\ stored = authored
      BY <2>4 DEF VersionInv, Parsed
    <3>2. \A v \in Triples : v \in Selected(bounds) <=> v \in Line(authored)
      BY <2>1, <3>1, ScopeBounds
    <3>3. Line(authored) \subseteq Triples
      BY DEF Line
    <3> QED BY <2>2, <3>2, <3>3
  <2> QED BY <2>3, <2>4
<1> QED BY <1>1, VersionStarts, VersionSteps, PTL DEF VersionCalls

\* Bounds that do not overflow are triples.
LEMMA BoundsTyped ==
  ASSUME NEW x \in Expressions, Representable(x), ~ Overflows(x)
  PROVE  BoundsOf(x) \in [lower : Triples, upper : Triples \cup {Unbounded}, inclusive : BOOLEAN]
<1>1. Lower(x) \in Triples
  <2>1. \A i \in 1 .. 3 : Lower(x)[i] \in 0 .. Largest
    BY LowerIs
  <2>2. Lower(x) = [i \in 1 .. 3 |-> Lower(x)[i]]
    BY DEF Lower
  <2> QED BY <2>1, <2>2 DEF Triples
<1>2. ASSUME x # Star, ~ Exact(x) PROVE Upper(x) \in Triples
  <2> DEFINE r == Raised(x)
             l == Lower(x)
             u == Upper(x)
  <2>1. r \in 1 .. 3
    BY <1>2, RaisedIs
  <2>2. l[r] # Largest
    BY <1>2 DEF Overflows
  <2>3. \A i \in 1 .. 3 : l[i] \in 0 .. Largest
    BY LowerIs
  <2>4. u = [i \in 1 .. 3 |-> u[i]]
    BY DEF Upper
  <2>5. \A i \in 1 .. 3 : u[i] = IF i < r THEN l[i] ELSE IF i = r THEN l[i] + 1 ELSE 0
    BY DEF Upper
  <2> HIDE DEF u, l, r
  <2>6. l[r] + 1 \in 0 .. Largest /\ 0 \in 0 .. Largest
    BY <2>1, <2>2, <2>3, VersionAssumption
  <2>7. \A i \in 1 .. 3 : u[i] \in 0 .. Largest
    BY <2>3, <2>5, <2>6
  <2>8. u \in [1 .. 3 -> 0 .. Largest]
    BY <2>4, <2>7
  <2> QED BY <2>8 DEF u, Triples
<1>3. Exact(x) \in BOOLEAN
  BY DEF Exact
<1>4. (IF x = Star THEN Unbounded ELSE IF Exact(x) THEN Lower(x) ELSE Upper(x))
      \in Triples \cup {Unbounded}
  BY <1>1, <1>2
<1> QED BY <1>1, <1>3, <1>4, Zenon DEF BoundsOf

\* A stored expression and its bounds, when there are any, have their types.
VersionTyped == VersionInv /\ VersionTypeOK

\* A new range has its type.
LEMMA VersionTypedStarts == VersionInit => VersionTyped
<1> SUFFICES ASSUME VersionInit PROVE VersionTyped
  OBVIOUS
<1>1. authored \in Expressions /\ stored \in Expressions
  BY VersionAssumption DEF VersionInit
<1>2. VersionTypeOK
  BY <1>1 DEF VersionInit, VersionTypeOK
<1> QED BY <1>2, VersionStarts DEF VersionTyped

\* A range stays typed: bounds that would overflow are refused.
LEMMA VersionTypedSteps ==
  ASSUME VersionTyped, [VersionNext]_versionVars PROVE VersionTyped'
<1>1. VersionInv'
  BY VersionSteps DEF VersionTyped
<1>2. authored' \in Expressions /\ stored' \in Expressions
  BY <1>1 DEF VersionInv, Parsed, BoundsStored
<1>3. how' \in {"none", "strict", "loose", "spec"}
  BY DEF VersionTyped, VersionTypeOK, VersionNext, Parse, ParseLoose, ParseSpec, ToBounds,
         versionVars
<1>4. answer' \in {"new", "range", "pin", "refused", "bounds", "unrepresentable", "overflow"}
  BY DEF VersionTyped, VersionTypeOK, VersionNext, Parse, ParseLoose, ParseSpec, ToBounds,
         Stores, Refuses, versionVars
<1>5. UNCHANGED bounds \/ (/\ Representable(stored) /\ ~ Overflows(stored)
                           /\ bounds' = BoundsOf(stored))
  BY DEF VersionNext, Parse, ParseLoose, ParseSpec, ToBounds, versionVars
<1>6. stored \in Expressions
  BY DEF VersionTyped, VersionTypeOK
<1>7. bounds' = NoBounds \/
        bounds' \in [lower : Triples, upper : Triples \cup {Unbounded}, inclusive : BOOLEAN]
  <2>1. CASE UNCHANGED bounds
    BY <2>1 DEF VersionTyped, VersionTypeOK
  <2>2. CASE Representable(stored) /\ ~ Overflows(stored) /\ bounds' = BoundsOf(stored)
    BY <2>2, <1>6, BoundsTyped
  <2> QED BY <1>5, <2>1, <2>2
<1> QED BY <1>1, <1>2, <1>3, <1>4, <1>7, Zenon DEF VersionTyped, VersionTypeOK

\* Whatever is written, no part of a bound exceeds the largest number.
THEOREM VersionTypeCorrect == VersionCalls => []VersionTypeOK
<1>1. VersionTyped => VersionTypeOK
  BY DEF VersionTyped
<1> QED BY <1>1, VersionTypedStarts, VersionTypedSteps, PTL DEF VersionCalls
=============================================================================
