--------------------------- MODULE MigrationLock ----------------------------
(***************************************************************************)
(* run_migrations of wyrd-sql-core: callers of several processes, each     *)
(* with its own connection pool, bring one database to the last migration  *)
(* of one plane under one session-level advisory lock.  Futures are        *)
(* dropped between any two awaits, statements and connections fail, and    *)
(* the answer to a statement that took effect may be lost.                 *)
(*                                                                         *)
(* Postgres and sqlx are external, modelled from how migration.rs uses     *)
(* them: the server keeps a session lock, counted, until it is released or *)
(* the session ends, and it may notice a broken client late; a pool hands  *)
(* out an idle connection, untested, before it opens another, and takes a  *)
(* dropped one back with whatever its session holds.  Migrator::run reads  *)
(* the ledger and applies what is missing, each migration with its ledger  *)
(* row in a transaction.  A process that crashes drops its calls and       *)
(* breaks its connections.                                                 *)
(***************************************************************************)
EXTENDS Naturals, Sequences, FiniteSets

CONSTANTS
  Callers,         \* calls of run_migrations
  Sessions,        \* connections the pools may open
  Processes,       \* each has one pool
  PoolOf,          \* the process whose pool opens a session
  MaxConnections,  \* of a pool
  Options,         \* MigrateOptions a call may be made with
  LastMigration    \* the migrator's versions are 1 to this one

NoSession == "no session"

\* An identifier is the classes of its characters: "letter" for a-z and the
\* underscore, "digit", "other".
Class == {"letter", "digit", "other"}

ASSUME MigrationAssumption ==
  /\ NoSession \notin Sessions
  /\ PoolOf \in [Sessions -> Processes]
  /\ MaxConnections \in Nat
  /\ LastMigration \in Nat
  /\ \A o \in Options : o.schemas \in Seq(Seq(Class)) /\ o.path \in Seq(Seq(Class))

VARIABLES
  home,     \* the process of each call
  stage,    \* where each call is, or what it returned
  conn,     \* the session a call has taken from its pool
  opts,     \* the options of a call
  step,     \* the next schema, then the next migration, of a call
  primary,  \* "ok", or which error the migration block ended with
  fault,    \* history: something failed under the call
  slot,     \* a pool's side of a session: "closed", "idle" or "used"
  up,       \* the pool's end of the session still works
  held,     \* how often the server has given the session the lock
  open,     \* the pools their owners have not closed
  schemas,  \* the schemas of the database
  applied   \* the ledger of applied migrations

callVars  == <<home, stage, conn, opts, step, primary, fault>>
poolVars  == <<slot, up, held, open>>
migVars   == <<callVars, poolVars, schemas, applied>>

Mine(c) == {s \in Sessions : PoolOf[s] = home[c]}

Locked   == {"schemas", "read", "apply", "unlock"}
Outcomes == {"ok", "invalid", "connect", "ddl", "migrate", "unlock_error", "gone"}
Stages   == {"idle", "acquire", "lock", "released", "kept"} \cup Locked \cup Outcomes

MigrationTypeOK ==
  /\ home \in [Callers -> Processes]
  /\ stage \in [Callers -> Stages]
  /\ conn \in [Callers -> Sessions \cup {NoSession}]
  /\ opts \in [Callers -> Options]
  /\ step \in [Callers -> Nat]
  /\ primary \in [Callers -> {"ok", "ddl", "migrate"}]
  /\ fault \in [Callers -> BOOLEAN]
  /\ slot \in [Sessions -> {"closed", "idle", "used"}]
  /\ up \in [Sessions -> BOOLEAN]
  /\ held \in [Sessions -> Nat]
  /\ open \subseteq Processes
  /\ applied \in Seq(1 .. LastMigration)

MigrationInit ==
  /\ home \in [Callers -> Processes]
  /\ stage = [c \in Callers |-> "idle"]
  /\ conn = [c \in Callers |-> NoSession]
  /\ opts \in [Callers -> Options]
  /\ step = [c \in Callers |-> 0]
  /\ primary = [c \in Callers |-> "ok"]
  /\ fault = [c \in Callers |-> FALSE]
  /\ slot = [s \in Sessions |-> "closed"]
  /\ up = [s \in Sessions |-> FALSE]
  /\ held = [s \in Sessions |-> 0]
  /\ open = Processes
  /\ schemas = {} /\ applied = << >>

ValidIdentifier(x) ==
  /\ x # << >> /\ x[1] = "letter"
  /\ \A i \in DOMAIN x : x[i] # "other"

\* validate_options: before any IO.
ValidOptions(o) ==
  /\ \A i \in DOMAIN o.schemas : ValidIdentifier(o.schemas[i])
  /\ \A i, j \in DOMAIN o.schemas : o.schemas[i] = o.schemas[j] => i = j
  /\ o.path # << >>
  /\ \A i \in DOMAIN o.path : ValidIdentifier(o.path[i])

-----------------------------------------------------------------------------
(* The session lock and the pools                                          *)

\* The server side and the pool side of a session that ends in order.
Closed(s) ==
  /\ slot' = [slot EXCEPT ![s] = "closed"]
  /\ up' = [up EXCEPT ![s] = FALSE]
  /\ held' = [held EXCEPT ![s] = 0]

\* A PoolConnection is dropped: back to the idle ones if it still works, and
\* else closed, which the server may notice later.
GivenBack(s) ==
  /\ slot' = [slot EXCEPT ![s] = IF up[s] THEN "idle" ELSE "closed"]
  /\ UNCHANGED <<up, held>>

Discarded(s) ==
  /\ slot' = [slot EXCEPT ![s] = "closed"]
  /\ up' = [up EXCEPT ![s] = FALSE]
  /\ UNCHANGED held

Taken(c) == {s \in Mine(c) : slot[s] # "closed"}

LockFree(s) == \A t \in Sessions \ {s} : held[t] = 0

\* The connection breaks; its next statement fails.
Break(s) ==
  /\ slot[s] # "closed" /\ up[s]
  /\ up' = [up EXCEPT ![s] = FALSE]
  /\ UNCHANGED <<callVars, slot, held, open, schemas, applied>>

\* The server notices that a client is gone and ends the session.
Reap(s) ==
  /\ ~up[s] /\ held[s] > 0
  /\ held' = [held EXCEPT ![s] = 0]
  /\ UNCHANGED <<callVars, slot, up, open, schemas, applied>>

\* The owner closes its pool when none of its calls is under way.
ClosePool(p) ==
  /\ p \in open
  /\ \A c \in Callers : home[c] = p => stage[c] \in {"idle"} \cup Outcomes
  /\ open' = open \ {p}
  /\ slot' = [s \in Sessions |-> IF PoolOf[s] = p THEN "closed" ELSE slot[s]]
  /\ held' = [s \in Sessions |-> IF PoolOf[s] = p /\ up[s] THEN 0 ELSE held[s]]
  /\ up' = [s \in Sessions |-> up[s] /\ PoolOf[s] # p]
  /\ UNCHANGED <<callVars, schemas, applied>>

-----------------------------------------------------------------------------
(* run_migrations                                                          *)

\* The call returns, or is gone; what it kept on its stack goes with it.
Ends(c, outcome) ==
  /\ stage' = [stage EXCEPT ![c] = outcome]
  /\ conn' = [conn EXCEPT ![c] = NoSession]
  /\ step' = [step EXCEPT ![c] = 0]
  /\ primary' = [primary EXCEPT ![c] = "ok"]
  /\ UNCHANGED <<home, opts>>

Call(c) ==
  /\ stage[c] = "idle"
  /\ stage' = [stage EXCEPT ![c] = IF ValidOptions(opts[c]) THEN "acquire" ELSE "invalid"]
  /\ UNCHANGED <<home, conn, opts, step, primary, fault, poolVars, schemas, applied>>

Acquire(c) ==
  /\ stage[c] = "acquire" /\ home[c] \in open
  /\ \E s \in Mine(c) :
       /\ \/ /\ slot[s] = "idle"
             /\ UNCHANGED up
          \/ /\ slot[s] = "closed" /\ held[s] = 0
             /\ \A t \in Mine(c) : slot[t] # "idle"
             /\ Cardinality(Taken(c)) < MaxConnections
             /\ up' = [up EXCEPT ![s] = TRUE]
       /\ slot' = [slot EXCEPT ![s] = "used"]
       /\ conn' = [conn EXCEPT ![c] = s]
  /\ stage' = [stage EXCEPT ![c] = "lock"]
  /\ UNCHANGED <<home, opts, step, primary, fault, held, open, schemas, applied>>

\* The pool is closed, the dial fails, or acquire_timeout elapses.
AcquireFails(c) ==
  /\ stage[c] = "acquire"
  /\ Ends(c, "connect")
  /\ fault' = [fault EXCEPT ![c] = TRUE]
  /\ UNCHANGED <<poolVars, schemas, applied>>

LockMutant(c) ==               \* the lock is not taken
  /\ stage[c] = "lock" /\ up[conn[c]]
  /\ stage' = [stage EXCEPT ![c] = "schemas"]
  /\ step' = [step EXCEPT ![c] = 1]
  /\ UNCHANGED <<home, conn, opts, primary, fault, poolVars, schemas, applied>>

\* pg_advisory_lock waits for every other session to give the lock up.
Lock(c) ==
  /\ stage[c] = "lock" /\ up[conn[c]] /\ LockFree(conn[c])
  /\ held' = [held EXCEPT ![conn[c]] = @ + 1]
  /\ stage' = [stage EXCEPT ![c] = "schemas"]
  /\ step' = [step EXCEPT ![c] = 1]
  /\ UNCHANGED <<home, conn, opts, primary, fault, slot, up, open, schemas, applied>>

\* An error, or an answer lost with the connection.
LockFails(c) ==
  /\ stage[c] = "lock"
  /\ \/ GivenBack(conn[c])
     \/ /\ ~up[conn[c]] /\ LockFree(conn[c])
        /\ held' = [held EXCEPT ![conn[c]] = @ + 1]
        /\ slot' = [slot EXCEPT ![conn[c]] = "closed"]
        /\ UNCHANGED up
  /\ Ends(c, "connect")
  /\ fault' = [fault EXCEPT ![c] = TRUE]
  /\ UNCHANGED <<open, schemas, applied>>

\* The migration block ends, well or with an error.
BlockEnds(c, outcome) ==
  /\ stage' = [stage EXCEPT ![c] = "unlock"]
  /\ primary' = [primary EXCEPT ![c] = outcome]
  /\ UNCHANGED <<home, conn, opts, poolVars>>

CreateSchema(c) ==
  /\ stage[c] = "schemas" /\ up[conn[c]]
  /\ step[c] <= Len(opts[c].schemas)
  /\ schemas' = schemas \cup {opts[c].schemas[step[c]]}
  /\ step' = [step EXCEPT ![c] = @ + 1]
  /\ UNCHANGED <<home, stage, conn, opts, primary, fault, poolVars, applied>>

\* CREATE SCHEMA is answered with an error, or its answer is lost.
CreateFails(c) ==
  /\ stage[c] = "schemas" /\ step[c] <= Len(opts[c].schemas)
  /\ \/ UNCHANGED schemas
     \/ held[conn[c]] > 0 /\ schemas' = schemas \cup {opts[c].schemas[step[c]]}
  /\ BlockEnds(c, "ddl")
  /\ fault' = [fault EXCEPT ![c] = TRUE]
  /\ UNCHANGED <<step, applied>>

SetSearchPath(c) ==
  /\ stage[c] = "schemas" /\ up[conn[c]]
  /\ step[c] > Len(opts[c].schemas)
  /\ stage' = [stage EXCEPT ![c] = "read"]
  /\ UNCHANGED <<home, conn, opts, step, primary, fault, poolVars, schemas, applied>>

SetFails(c) ==
  /\ stage[c] = "schemas" /\ step[c] > Len(opts[c].schemas)
  /\ BlockEnds(c, "ddl")
  /\ fault' = [fault EXCEPT ![c] = TRUE]
  /\ UNCHANGED <<step, schemas, applied>>

\* Migrator::run reads the ledger once ...
ReadLedger(c) ==
  /\ stage[c] = "read" /\ up[conn[c]]
  /\ stage' = [stage EXCEPT ![c] = "apply"]
  /\ step' = [step EXCEPT ![c] = Len(applied) + 1]
  /\ UNCHANGED <<home, conn, opts, primary, fault, poolVars, schemas, applied>>

ReadFailsMutant(c) ==          \* the error leaves run_migrations at once
  /\ stage[c] = "read"
  /\ GivenBack(conn[c])
  /\ Ends(c, "migrate")
  /\ fault' = [fault EXCEPT ![c] = TRUE]
  /\ UNCHANGED <<open, schemas, applied>>

ReadFails(c) ==
  /\ stage[c] = "read"
  /\ BlockEnds(c, "migrate")
  /\ fault' = [fault EXCEPT ![c] = TRUE]
  /\ UNCHANGED <<step, schemas, applied>>

\* ... and applies what it did not list, in order.
Apply(c) ==
  /\ stage[c] = "apply" /\ up[conn[c]]
  /\ step[c] <= LastMigration /\ step[c] > Len(applied)
  /\ applied' = Append(applied, step[c])
  /\ step' = [step EXCEPT ![c] = @ + 1]
  /\ UNCHANGED <<home, stage, conn, opts, primary, fault, poolVars, schemas>>

\* A version the ledger already has violates its primary key.
Collide(c) ==
  /\ stage[c] = "apply" /\ up[conn[c]]
  /\ step[c] <= Len(applied)
  /\ BlockEnds(c, "migrate")
  /\ UNCHANGED <<step, fault, schemas, applied>>

ApplyFails(c) ==
  /\ stage[c] = "apply" /\ step[c] <= LastMigration
  /\ \/ UNCHANGED applied
     \/ /\ held[conn[c]] > 0 /\ step[c] > Len(applied)
        /\ applied' = Append(applied, step[c])
  /\ BlockEnds(c, "migrate")
  /\ fault' = [fault EXCEPT ![c] = TRUE]
  /\ UNCHANGED <<step, schemas>>

Migrated(c) ==
  /\ stage[c] = "apply" /\ step[c] > LastMigration
  /\ BlockEnds(c, "ok")
  /\ UNCHANGED <<step, fault, schemas, applied>>

Unlock(c) ==
  /\ stage[c] = "unlock" /\ up[conn[c]]
  /\ held' = [held EXCEPT ![conn[c]] = @ - 1]
  /\ stage' = [stage EXCEPT ![c] = "released"]
  /\ UNCHANGED <<home, conn, opts, step, primary, fault, slot, up, open, schemas, applied>>

UnlockFails(c) ==
  /\ stage[c] = "unlock"
  /\ \/ UNCHANGED held
     \/ held[conn[c]] > 0 /\ held' = [held EXCEPT ![conn[c]] = @ - 1]
  /\ stage' = [stage EXCEPT ![c] = "kept"]
  /\ fault' = [fault EXCEPT ![c] = TRUE]
  /\ UNCHANGED <<home, conn, opts, step, primary, slot, up, open, schemas, applied>>

CombineMutant(first, released) ==  \* the unlock error wins
  IF released THEN first ELSE "unlock_error"

\* combine_migration_outcome: the migration's own error comes first.
Combine(first, released) ==
  IF first = "ok" /\ ~released THEN "unlock_error" ELSE first

Close(c) ==
  /\ stage[c] \in {"released", "kept"}
  /\ IF up[conn[c]] THEN Closed(conn[c]) ELSE Discarded(conn[c])
  /\ Ends(c, Combine(primary[c], stage[c] = "released"))
  /\ UNCHANGED <<fault, open, schemas, applied>>

\* The caller drops the future while it awaits.
Drop(c) ==
  /\ \/ /\ stage[c] = "acquire"
        /\ UNCHANGED <<slot, up, held>>
     \/ /\ stage[c] \in {"lock"} \cup Locked
        /\ GivenBack(conn[c]) \/ Discarded(conn[c])
     \/ /\ stage[c] \in {"released", "kept"}
        /\ Discarded(conn[c])
  /\ Ends(c, "gone")
  /\ UNCHANGED <<fault, open, schemas, applied>>

-----------------------------------------------------------------------------
Fails(c) == \/ AcquireFails(c) \/ LockFails(c) \/ CreateFails(c) \/ SetFails(c)
            \/ ReadFails(c) \/ ApplyFails(c) \/ UnlockFails(c)

Works(c) == \/ Acquire(c) \/ CreateSchema(c) \/ SetSearchPath(c) \/ ReadLedger(c)
            \/ Apply(c) \/ Collide(c) \/ Migrated(c) \/ Unlock(c) \/ Close(c)

MigrationNext ==
  \/ \E c \in Callers : Call(c) \/ Works(c) \/ Lock(c) \/ Fails(c) \/ Drop(c)
  \/ \E s \in Sessions : Break(s) \/ Reap(s)
  \/ \E p \in Processes : ClosePool(p)

MigrationSpec == MigrationInit /\ [][MigrationNext]_migVars

\* The runtime polls a call, every statement is answered or fails, Postgres
\* grants the lock to those that wait in turn and notices lost clients.
MigrationFairness ==
  /\ \A c \in Callers : /\ WF_migVars(Works(c) \/ (Fails(c) /\ stage[c] # "lock"))
                        /\ WF_migVars(LockFails(c) /\ ~up[conn[c]])
                        /\ SF_migVars(Lock(c))
  /\ \A s \in Sessions : WF_migVars(Reap(s))

MigrationLive == MigrationSpec /\ MigrationFairness

-----------------------------------------------------------------------------
Inside(c) == stage[c] \in Locked /\ up[conn[c]]

\* "Acquire the advisory lock -> ensure schemas -> set search path -> run the
\* migrator -> release": at most one call is between the two whose statements
\* can still take effect, whatever broke or was dropped before it.
OneMigrator == \A c, d \in Callers : Inside(c) /\ Inside(d) => c = d

\* A call reports an error only if something failed under it: that another
\* call migrates the same database at the same time never is the reason.
FailsOnlyByFault ==
  \A c \in Callers : stage[c] \in {"connect", "ddl", "migrate", "unlock_error"} => fault[c]

\* "Surface an unlock error only when migration succeeded": after Ok and after
\* an unlock error the database has every schema and every migration.
OutcomeTells ==
  \A c \in Callers : stage[c] \in {"ok", "unlock_error"}
    => /\ Len(applied) = LastMigration
       /\ \A i \in DOMAIN opts[c].schemas : opts[c].schemas[i] \in schemas

\* "Released unconditionally on all reachable outcomes": a pool keeps an idle
\* session with the lock only if a call of its process was dropped midway.
StrandedOnlyByDrop ==
  \A s \in Sessions : slot[s] = "idle" /\ held[s] > 0
    => \E c \in Callers : home[c] = PoolOf[s] /\ stage[c] = "gone"

\* Every call that waits for the lock returns, unless some call was dropped:
\* errors, late answers and lost connections never keep the lock for good.
MigrationsReturn ==
  \A c \in Callers : stage[c] = "lock"
    ~> (stage[c] \in Outcomes \/ \E d \in Callers : stage[d] = "gone")
=============================================================================
