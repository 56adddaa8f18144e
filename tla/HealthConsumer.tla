--------------------------- MODULE HealthConsumer ---------------------------
(***************************************************************************)
(* The gRPC health sentinel of wyrd-tonic: publish_initial_health and      *)
(* drive_health_status.  Probes swap the readiness snapshot at any time;   *)
(* the consumer polls it and reports changes to the tonic_health reporter, *)
(* which is external.  Every load of the snapshot and every await of the   *)
(* reporter is a step of its own, so the snapshot may change between them. *)
(***************************************************************************)
EXTENDS Naturals

VARIABLES
  snapshot,   \* all_ok() of the current readiness snapshot
  reported,     \* what the reporter says of the sentinel: "unset" before boot
  doing,      \* where the task is
  seen,       \* what it loaded and is about to report
  lastOk,     \* the consumer's change-detection baseline
  shutdown,   \* the cancellation token
  everOk,     \* history: the snapshot has been ok
  drifted     \* history: the baseline is not what was published

healthVars == <<snapshot, reported, doing, seen, lastOk, shutdown, everOk, drifted>>

Word(ok) == IF ok THEN "serving" ELSE "not serving"

HealthTypeOK ==
  /\ snapshot \in BOOLEAN /\ seen \in BOOLEAN /\ lastOk \in BOOLEAN
  /\ shutdown \in BOOLEAN /\ everOk \in BOOLEAN /\ drifted \in BOOLEAN
  /\ reported \in {"unset", "serving", "not serving"}
  /\ doing \in {"load", "publish", "baseline", "sleep", "report", "stopping", "stopped"}

HealthInit ==
  /\ snapshot \in BOOLEAN /\ everOk = snapshot
  /\ reported = "unset" /\ doing = "load"
  /\ seen = FALSE /\ lastOk = FALSE
  /\ shutdown = FALSE /\ drifted = FALSE

-----------------------------------------------------------------------------
\* A probe swaps the snapshot.
Probe ==
  /\ snapshot' = ~snapshot
  /\ everOk' = TRUE
  /\ UNCHANGED <<reported, doing, seen, lastOk, shutdown, drifted>>

CancelToken ==
  /\ ~shutdown
  /\ shutdown' = TRUE
  /\ UNCHANGED <<snapshot, reported, doing, seen, lastOk, everOk, drifted>>

-----------------------------------------------------------------------------
(* publish_initial_health                                                  *)

LoadInitial ==
  /\ doing = "load"
  /\ seen' = snapshot
  /\ doing' = "publish"
  /\ UNCHANGED <<snapshot, reported, lastOk, shutdown, everOk, drifted>>

PublishInitialMutant ==        \* the sentinel starts as serving
  /\ doing = "publish"
  /\ reported' = "serving"
  /\ doing' = "baseline"
  /\ UNCHANGED <<snapshot, seen, lastOk, shutdown, everOk, drifted>>

PublishInitial ==
  /\ doing = "publish"
  /\ reported' = Word(seen)
  /\ doing' = "baseline"
  /\ UNCHANGED <<snapshot, seen, lastOk, shutdown, everOk, drifted>>

-----------------------------------------------------------------------------
(* drive_health_status                                                     *)

\* The select is entered: a token cancelled before is seen at once, for the
\* sleep it races has not elapsed.
Select == IF shutdown THEN "stopping" ELSE "sleep"

\* The baseline is a load of its own.
Baseline ==
  /\ doing = "baseline"
  /\ lastOk' = snapshot
  /\ drifted' = (snapshot # seen)
  /\ doing' = Select
  /\ UNCHANGED <<snapshot, reported, seen, shutdown, everOk>>

\* The interval elapses, also when the token is cancelled in the same moment.
Poll ==
  /\ doing = "sleep"
  /\ seen' = snapshot
  /\ doing' = IF snapshot # lastOk THEN "report" ELSE Select
  /\ UNCHANGED <<snapshot, reported, lastOk, shutdown, everOk, drifted>>

ReportMutant ==                \* the baseline is not moved
  /\ doing = "report"
  /\ reported' = Word(seen)
  /\ drifted' = FALSE
  /\ doing' = Select
  /\ UNCHANGED <<snapshot, seen, lastOk, shutdown, everOk>>

Report ==
  /\ doing = "report"
  /\ reported' = Word(seen)
  /\ lastOk' = seen /\ drifted' = FALSE
  /\ doing' = Select
  /\ UNCHANGED <<snapshot, seen, shutdown, everOk>>

Cancelled ==
  /\ doing = "sleep" /\ shutdown
  /\ doing' = "stopping"
  /\ UNCHANGED <<snapshot, reported, seen, lastOk, shutdown, everOk, drifted>>

Stop ==
  /\ doing = "stopping"
  /\ reported' = "not serving"
  /\ doing' = "stopped"
  /\ UNCHANGED <<snapshot, seen, lastOk, shutdown, everOk, drifted>>

-----------------------------------------------------------------------------
Boot     == LoadInitial \/ PublishInitial
Consumer == Baseline \/ Poll \/ Report \/ Cancelled \/ Stop

HealthNext == Probe \/ CancelToken \/ Boot \/ Consumer

HealthSpec == HealthInit /\ [][HealthNext]_healthVars

\* The boot sequence and the consumer task are polled; the interval elapses.
HealthFairness == WF_healthVars(Boot \/ Consumer)

HealthLive == HealthSpec /\ HealthFairness

-----------------------------------------------------------------------------
\* "The gRPC sentinel never advertises SERVING before readiness has confirmed
\* it", and after a shutdown the consumer has seen it never serves again.
ServingConfirmed == /\ reported = "serving" => everOk
                    /\ doing = "stopped" => reported = "not serving"

\* "Drives the gRPC health sentinel": while the consumer runs, a snapshot that
\* stays as it is becomes the status, unless it changed between the initial
\* publication and the load of the baseline and not since.
StatusFollows ==
  \A ok \in BOOLEAN :
    <>[](snapshot = ok /\ ~shutdown) => <>[](reported = Word(ok) \/ drifted)

\* server/mod.rs: publish_initial_health comes first "so the reporter reflects
\* the current snapshot before the consumer's change-detection baseline is
\* set": a snapshot that stays as it is becomes the status.
StatusReflectsSnapshot ==
  \A ok \in BOOLEAN :
    <>[](snapshot = ok /\ ~shutdown) => <>[](reported = Word(ok))
=============================================================================
