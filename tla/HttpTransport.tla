--------------------------- MODULE HttpTransport ----------------------------
(***************************************************************************)
(* Requests of wyrd-client's HTTP transport over the shared token cache:   *)
(* send_with_retry for JSON, Arrow and idempotent submissions, and the     *)
(* one-shot path of the streaming helpers.  The server checks the token    *)
(* before it acts; an answer may be lost and a request that timed out may  *)
(* still be acted on later.                                                *)
(***************************************************************************)
EXTENDS AuthMiddleware

CONSTANTS
  Kind,       \* of each request: "safe" to replay, "unsafe", or a "stream"
  MaxCrashes  \* bound on the restarts of the process

ASSUME HttpAssumption ==
  /\ Kind \in [Requests -> {"safe", "unsafe", "stream"}]
  /\ MaxCrashes \in Nat

VARIABLES
  pc,        \* where each request is
  attempt,   \* retries counted against the budget
  renewed,   \* auth_retried
  token,     \* the bearer in hand
  copy,      \* the copy of the request now at the server
  late,      \* copies given up on that the server may still act on
  acted,     \* history: how often the server acted on the request
  sends,     \* history: how often the request was sent
  refused,   \* history: the token that was refused, once it was replaced
  crashes

httpVars == <<pc, attempt, renewed, token, copy, late, acted, sends, refused>>
vars     == <<authVars, httpVars, crashes>>

Done == {"ok", "err", "dropped"}

TypeOK ==
  /\ AuthTypeOK
  /\ pc \in [Requests -> {"idle", "bearer", "exchange", "send", "flight",
                          "rejected", "refresh"} \cup Done]
  /\ attempt \in [Requests -> 0 .. 2]
  /\ renewed \in [Requests -> BOOLEAN]
  /\ token \in [Requests -> Tokens \cup {Empty}]
  /\ copy \in [Requests -> {"none", "arrived", "acted"}]
  /\ late \in [Requests -> Nat] /\ acted \in [Requests -> Nat]
  /\ sends \in [Requests -> Nat]
  /\ refused \in [Requests -> Tokens \cup {Empty}]
  /\ crashes \in 0 .. MaxCrashes

Init ==
  /\ AuthInit
  /\ pc = [c \in Requests |-> "idle"]
  /\ attempt = [c \in Requests |-> 0]
  /\ renewed = [c \in Requests |-> FALSE]
  /\ token = [c \in Requests |-> Empty]
  /\ copy = [c \in Requests |-> "none"]
  /\ late = [c \in Requests |-> 0] /\ acted = [c \in Requests |-> 0]
  /\ sends = [c \in Requests |-> 0]
  /\ refused = [c \in Requests |-> Empty]
  /\ crashes = 0

Go(c, there) == pc' = [pc EXCEPT ![c] = there]

-----------------------------------------------------------------------------
(* The bearer of the next attempt                                          *)

Begin(c) ==
  /\ pc[c] = "idle"
  /\ Go(c, "bearer")
  /\ UNCHANGED <<authVars, attempt, renewed, token, copy, late, acted, sends,
                 refused, crashes>>

Bearer(c) ==
  /\ pc[c] = "bearer"
  /\ \/ /\ BearerHit(c)
        /\ token' = [token EXCEPT ![c] = cache]
        /\ Go(c, "send")
     \/ /\ BearerMiss(c)
        /\ Go(c, "exchange")
        /\ UNCHANGED token
  /\ UNCHANGED <<attempt, renewed, copy, late, acted, sends, refused, crashes>>

Exchanged(c) ==
  /\ pc[c] = "exchange"
  /\ \/ /\ ExchangeOk(c)
        /\ token' = [token EXCEPT ![c] = cache']
        /\ Go(c, "send")
     \/ /\ ExchangeFails(c)
        /\ Go(c, "err")
        /\ UNCHANGED token
  /\ UNCHANGED <<attempt, renewed, copy, late, acted, sends, refused, crashes>>

-----------------------------------------------------------------------------
(* One attempt                                                             *)

GiveUp(c) == Go(c, "err") /\ UNCHANGED attempt

AgainMutant(c, allowed) ==     \* three retries
  IF allowed /\ Kind[c] # "stream" /\ attempt[c] <= 2
  THEN Go(c, "bearer") /\ attempt' = [attempt EXCEPT ![c] = @ + 1]
  ELSE GiveUp(c)

\* Back off and start over with a new bearer, twice at most.
Again(c, allowed) ==
  IF allowed /\ Kind[c] # "stream" /\ attempt[c] < 2
  THEN Go(c, "bearer") /\ attempt' = [attempt EXCEPT ![c] = @ + 1]
  ELSE GiveUp(c)

ReplaySafeMutant(c) == TRUE    \* every request is retried alike

ReplaySafe(c) == Kind[c] = "safe"

\* A connect error: nothing reached the server.
ConnectFails(c) ==
  /\ pc[c] = "send"
  /\ Again(c, TRUE)
  /\ sends' = [sends EXCEPT ![c] = @ + 1]
  /\ UNCHANGED <<authVars, renewed, token, copy, late, acted, refused, crashes>>

Send(c) ==
  /\ pc[c] = "send"
  /\ Go(c, "flight")
  /\ copy' = [copy EXCEPT ![c] = "arrived"]
  /\ sends' = [sends EXCEPT ![c] = @ + 1]
  /\ UNCHANGED <<authVars, attempt, renewed, token, late, acted, refused, crashes>>

ServerActs(c) ==
  /\ copy[c] = "arrived" /\ token[c] \in accepted
  /\ copy' = [copy EXCEPT ![c] = "acted"]
  /\ acted' = [acted EXCEPT ![c] = @ + 1]
  /\ UNCHANGED <<authVars, pc, attempt, renewed, token, late, sends, refused, crashes>>

ServerActsLate(c) ==
  /\ late[c] > 0
  /\ late' = [late EXCEPT ![c] = @ - 1]
  /\ acted' = [acted EXCEPT ![c] = @ + 1]
  /\ UNCHANGED <<authVars, pc, attempt, renewed, token, copy, sends, refused, crashes>>

\* The answer has been read: the copy is done with.
Answered(c) == /\ copy' = [copy EXCEPT ![c] = "none"]
               /\ UNCHANGED late

\* No answer: a copy the server has not acted on yet may still be.
Abandoned(c) ==
  /\ copy' = [copy EXCEPT ![c] = "none"]
  /\ late' = IF copy[c] = "arrived" THEN [late EXCEPT ![c] = @ + 1] ELSE late

Success(c) ==
  /\ pc[c] = "flight" /\ copy[c] = "acted"
  /\ Go(c, "ok")
  /\ Answered(c)
  /\ UNCHANGED <<authVars, attempt, renewed, token, acted, sends, refused, crashes>>

UnauthorizedMutant(c) ==       \* a 401 is retried as often as it comes
  /\ pc[c] = "flight" /\ copy[c] = "arrived" /\ token[c] \notin accepted
  /\ Go(c, IF Kind[c] = "stream" THEN "err" ELSE "rejected")
  /\ renewed' = [renewed EXCEPT ![c] = TRUE]
  /\ Answered(c)
  /\ UNCHANGED <<authVars, attempt, token, acted, sends, refused, crashes>>

\* 401: one refresh and one more attempt, outside the budget.
Unauthorized(c) ==
  /\ pc[c] = "flight" /\ copy[c] = "arrived" /\ token[c] \notin accepted
  /\ IF renewed[c] \/ Kind[c] = "stream"
     THEN Go(c, "err") /\ UNCHANGED renewed
     ELSE Go(c, "rejected") /\ renewed' = [renewed EXCEPT ![c] = TRUE]
  /\ Answered(c)
  /\ UNCHANGED <<authVars, attempt, token, acted, sends, refused, crashes>>

\* 408, 429 and 5xx, from before or after the server acted.
Unavailable(c) ==
  /\ pc[c] = "flight"
  /\ Again(c, ReplaySafe(c))
  /\ Answered(c)
  /\ UNCHANGED <<authVars, renewed, token, acted, sends, refused, crashes>>

TimesOut(c) ==
  /\ pc[c] = "flight"
  /\ Again(c, ReplaySafe(c))
  /\ Abandoned(c)
  /\ UNCHANGED <<authVars, renewed, token, acted, sends, refused, crashes>>

\* Any other status, a connection that breaks, a body that cannot be read.
Fails(c) ==
  /\ pc[c] = "flight"
  /\ GiveUp(c)
  /\ Abandoned(c)
  /\ UNCHANGED <<authVars, renewed, token, acted, sends, refused, crashes>>

-----------------------------------------------------------------------------
(* The reactive refresh; its result is ignored                             *)

Refresh(c) ==
  /\ pc[c] = "rejected"
  /\ ForceRefresh(c)
  /\ Go(c, "refresh")
  /\ UNCHANGED <<attempt, renewed, token, copy, late, acted, sends, refused, crashes>>

Refreshed(c) ==
  /\ pc[c] = "refresh"
  /\ \/ /\ ExchangeOk(c)
        /\ refused' = [refused EXCEPT ![c] = token[c]]
     \/ /\ ExchangeFails(c)
        /\ UNCHANGED refused
  /\ Go(c, "bearer")
  /\ UNCHANGED <<attempt, renewed, token, copy, late, acted, sends, crashes>>

-----------------------------------------------------------------------------
\* The caller drops the request's future.
Drop(c) ==
  /\ pc[c] \notin Done \cup {"idle"}
  /\ Go(c, "dropped")
  /\ ExchangeFails(c)
  /\ Abandoned(c)
  /\ UNCHANGED <<attempt, renewed, token, acted, sends, refused, crashes>>

Restart ==
  /\ crashes < MaxCrashes
  /\ crashes' = crashes + 1
  /\ RestartAuth
  /\ pc' = [c \in Requests |-> IF pc[c] \in Done \cup {"idle"} THEN pc[c] ELSE "dropped"]
  /\ copy' = [c \in Requests |-> "none"]
  /\ late' = [c \in Requests |-> IF copy[c] = "arrived" THEN late[c] + 1 ELSE late[c]]
  /\ UNCHANGED <<attempt, renewed, token, acted, sends, refused>>

-----------------------------------------------------------------------------
Attempt(c) == \/ Success(c) \/ Unauthorized(c) \/ Unavailable(c)
              \/ TimesOut(c) \/ Fails(c)

Step(c) == \/ Bearer(c) \/ Exchanged(c) \/ ConnectFails(c) \/ Send(c)
           \/ Attempt(c) \/ Refresh(c) \/ Refreshed(c)

ClientStep(c) == Begin(c) \/ Step(c) \/ Drop(c)

ServerStep(c) == ServerActs(c) \/ ServerActsLate(c)

Clocks(t) == Reject(t) \/ GrowStale(t)

Next == \/ \E c \in Requests : ClientStep(c) \/ ServerStep(c)
        \/ \E c \in Requests : Mint(c) /\ UNCHANGED <<httpVars, crashes>>
        \/ \E t \in Tokens : Clocks(t) /\ UNCHANGED <<httpVars, crashes>>
        \/ Restart

Spec == Init /\ [][Next]_vars

\* The runtime polls every request, every send and exchange has a timeout,
\* and the lock on the cache is a fair queue.
Fairness == \A c \in Requests :
              /\ WF_vars(Exchanged(c) \/ ConnectFails(c) \/ Send(c) \/ Attempt(c) \/ Refreshed(c))
              /\ SF_vars(Bearer(c) \/ Refresh(c))

LiveSpec == Spec /\ Fairness

-----------------------------------------------------------------------------
\* "Replaying it could double-execute the mutation": the server acts at most
\* once on a request that is not safe to replay, whatever is lost, late,
\* rejected, retried or cut short by a restart.
AtMostOnce == \A c \in Requests : Kind[c] # "safe" => acted[c] + late[c] <= 1

\* "Up to 3 total attempts", plus one after a 401 that does not count.
SendsBounded ==
  \A c \in Requests : sends[c] <= (IF Kind[c] = "stream" THEN 1 ELSE 4)

\* "Retries with the new token": after a 401 and a refresh that worked, no
\* later attempt of the request presents the refused token or an older one.
RefusedTokenGone ==
  \A c \in Requests : refused[c] # Empty /\ pc[c] \in {"send", "flight"}
                        => token[c] > refused[c]

\* store and the gate: while the process lives the cached token is only ever
\* replaced by one minted later, whichever of the racing exchanges ends last.
TokensMoveForward == [][crashes' = crashes => cache' >= cache]_vars

\* Every request returns unless its caller drops it: nobody waits for ever
\* for the lock, and the retries come to an end.
RequestsReturn == \A c \in Requests : pc[c] = "bearer" ~> pc[c] \in Done
=============================================================================
