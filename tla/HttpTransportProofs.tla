------------------------ MODULE HttpTransportProofs -------------------------
(***************************************************************************)
(* Proofs about the HTTP transport for every number of requests of any     *)
(* kind, every number of tokens and restarts.                              *)
(***************************************************************************)
EXTENDS HttpTransport, TLAPS

USE AuthAssumption, HttpAssumption DEF Free, Empty

\* Before a request is sent, and once a refusal of it has been read, the
\* server neither has acted on it nor still can.  At most one copy of a
\* request that is not safe to replay ever reaches the server and is not
\* refused by it.
Untouched == {"idle", "bearer", "exchange", "send", "rejected", "refresh"}

OneCopy(c) ==
  /\ pc[c] \in Untouched => acted[c] = 0 /\ late[c] = 0
  /\ pc[c] # "flight" => copy[c] = "none"
  /\ copy[c] = "arrived" => acted[c] = 0 /\ late[c] = 0
  /\ acted[c] + late[c] <= 1

OnceInv == \A c \in Requests : Kind[c] # "safe" => OneCopy(c)

\* A token on its way to a request is the last one minted, and the request
\* holds the lock.
GateInv == /\ cache <= minted
           /\ disk # Torn => disk <= minted
           /\ \A c \in Requests : reply[c] # Empty => gate = c /\ reply[c] = minted

HttpInv == TypeOK /\ OnceInv /\ GateInv

-----------------------------------------------------------------------------
(* Types                                                                   *)

\* The first state is well typed.
LEMMA InitType == Init => TypeOK
  BY DEF Init, AuthInit, TypeOK, AuthTypeOK, Tokens

\* A write of the record leaves the disk well typed.
LEMMA WrittenType ==
  ASSUME AuthTypeOK, NEW t \in Tokens PROVE Written(t) \subseteq Tokens \cup {Empty, Torn}
  BY DEF Written, AuthTypeOK

\* The steps of the token cache keep its variables well typed.
LEMMA AuthType ==
  ASSUME AuthTypeOK, NEW c \in Requests,
         \/ Mint(c) \/ BearerHit(c) \/ BearerMiss(c) \/ ForceRefresh(c)
         \/ ExchangeOk(c) \/ ExchangeFails(c) \/ RestartAuth
  PROVE  AuthTypeOK'
  <1> USE DEF AuthTypeOK, Tokens
  <1>1. CASE Mint(c)
    <2>1. minted' \in Tokens
      BY <1>1 DEF Mint
    <2> QED BY <1>1, <2>1 DEF Mint
  <1>2. CASE BearerHit(c)
    BY <1>2 DEF BearerHit, authVars
  <1>3. CASE BearerMiss(c) \/ ForceRefresh(c)
    BY <1>3 DEF BearerMiss, ForceRefresh, Lock
  <1>4. CASE ExchangeOk(c)
    <2>1. cache' \in Tokens
      BY <1>4 DEF ExchangeOk
    <2>2. disk' \in Tokens \cup {Empty, Torn}
      BY <1>4, <2>1, WrittenType DEF ExchangeOk
    <2> QED BY <1>4, <2>1, <2>2 DEF ExchangeOk
  <1>5. CASE ExchangeFails(c)
    BY <1>5 DEF ExchangeFails
  <1>6. CASE RestartAuth
    <2>1. disk' \in Tokens \cup {Empty, Torn}
      BY <1>6, WrittenType DEF RestartAuth
    <2>2. cache' \in Tokens \cup {Empty}
      BY <1>6, <2>1 DEF RestartAuth
    <2> QED BY <1>6, <2>1, <2>2 DEF RestartAuth
  <1> QED BY <1>1, <1>2, <1>3, <1>4, <1>5, <1>6

\* A step of one request keeps the types.
LEMMA ClientType ==
  ASSUME TypeOK, NEW c \in Requests, ClientStep(c) \/ ServerStep(c) PROVE TypeOK'
  <1> USE DEF TypeOK, Go
  <1>a. ASSUME UNCHANGED authVars PROVE AuthTypeOK'
    BY <1>a DEF authVars, AuthTypeOK
  <1>b. ASSUME NEW b \in BOOLEAN, Again(c, b)
        PROVE  /\ pc' \in [Requests -> {"idle", "bearer", "exchange", "send", "flight",
                                         "rejected", "refresh"} \cup Done]
               /\ attempt' \in [Requests -> 0 .. 2]
    BY <1>b DEF Again, GiveUp, Done
  <1>c. ASSUME Answered(c) \/ Abandoned(c)
        PROVE  /\ copy' \in [Requests -> {"none", "arrived", "acted"}]
               /\ late' \in [Requests -> Nat]
    BY <1>c DEF Answered, Abandoned
  <1>1. CASE Begin(c)
    BY <1>1, <1>a DEF Begin
  <1>2. CASE Bearer(c)
    <2>1. AuthTypeOK'
      BY <1>2, AuthType DEF Bearer
    <2> QED BY <1>2, <2>1 DEF Bearer, AuthTypeOK
  <1>3. CASE Exchanged(c)
    <2>1. AuthTypeOK'
      BY <1>3, AuthType DEF Exchanged
    <2> QED BY <1>3, <2>1 DEF Exchanged, AuthTypeOK, Done
  <1>4. CASE ConnectFails(c)
    <2>1. Again(c, TRUE) /\ TRUE \in BOOLEAN
      BY <1>4 DEF ConnectFails
    <2>2. /\ pc' \in [Requests -> {"idle", "bearer", "exchange", "send", "flight",
                                   "rejected", "refresh"} \cup Done]
          /\ attempt' \in [Requests -> 0 .. 2]
      BY <2>1, <1>b
    <2>3. sends' \in [Requests -> Nat]
      BY <1>4 DEF ConnectFails
    <2>4. AuthTypeOK'
      BY <1>4, <1>a DEF ConnectFails
    <2> QED BY <1>4, <2>2, <2>3, <2>4 DEF ConnectFails
  <1>5. CASE Send(c)
    BY <1>5, <1>a DEF Send
  <1>6. CASE Success(c)
    BY <1>6, <1>a, <1>c DEF Success, Done
  <1>7. CASE Unauthorized(c)
    BY <1>7, <1>a, <1>c DEF Unauthorized, Done
  <1>8. CASE Unavailable(c) \/ TimesOut(c)
    <2>1. ReplaySafe(c) \in BOOLEAN
      BY DEF ReplaySafe
    <2> QED BY <1>8, <1>a, <1>b, <1>c, <2>1 DEF Unavailable, TimesOut
  <1>9. CASE Fails(c)
    BY <1>9, <1>a, <1>c DEF Fails, GiveUp, Done
  <1>10. CASE Refresh(c)
    <2>1. AuthTypeOK'
      BY <1>10, AuthType DEF Refresh
    <2> QED BY <1>10, <2>1 DEF Refresh
  <1>11. CASE Refreshed(c)
    <2>1. AuthTypeOK'
      BY <1>11, AuthType DEF Refreshed
    <2> QED BY <1>11, <2>1 DEF Refreshed
  <1>12. CASE Drop(c)
    <2>1. AuthTypeOK'
      BY <1>12, AuthType DEF Drop
    <2> QED BY <1>12, <2>1, <1>c DEF Drop, Done
  <1>13. CASE ServerActs(c)
    BY <1>13, <1>a DEF ServerActs
  <1>14. CASE ServerActsLate(c)
    BY <1>14, <1>a DEF ServerActsLate
  <1> QED
    BY <1>1, <1>2, <1>3, <1>4, <1>5, <1>6, <1>7, <1>8, <1>9, <1>10, <1>11, <1>12,
       <1>13, <1>14 DEF ClientStep, ServerStep, Step, Attempt

\* Every step keeps the types.
LEMMA TypeStep == TypeOK /\ [Next]_vars => TypeOK'
  <1> SUFFICES ASSUME TypeOK, [Next]_vars PROVE TypeOK'
    OBVIOUS
  <1> USE DEF TypeOK
  <1>1. ASSUME NEW c \in Requests, Mint(c), UNCHANGED <<httpVars, crashes>> PROVE TypeOK'
    <2>1. AuthTypeOK'
      BY <1>1, AuthType
    <2> QED BY <1>1, <2>1 DEF httpVars
  <1>2. ASSUME NEW t \in Tokens, Clocks(t), UNCHANGED <<httpVars, crashes>> PROVE TypeOK'
    <2>1. AuthTypeOK'
      BY <1>2 DEF Clocks, Reject, GrowStale, AuthTypeOK
    <2> QED BY <1>2, <2>1 DEF httpVars
  <1>3. CASE Restart
    <2>1. AuthTypeOK'
      <3>1. CASE Requests = {}
        BY <1>3, <3>1, WrittenType DEF Restart, RestartAuth, AuthTypeOK
      <3>2. CASE Requests # {}
        BY <1>3, <3>2, AuthType DEF Restart
      <3> QED BY <3>1, <3>2
    <2>2. crashes' \in 0 .. MaxCrashes
      BY <1>3 DEF Restart
    <2> QED BY <1>3, <2>1, <2>2 DEF Restart, Done
  <1>4. CASE UNCHANGED vars
    BY <1>4 DEF vars, authVars, httpVars, AuthTypeOK
  <1> QED BY <1>1, <1>2, <1>3, <1>4, ClientType DEF Next

\* Every reachable state is well typed.
THEOREM TypeCorrect == Spec => []TypeOK
  BY InitType, TypeStep, PTL DEF Spec

-----------------------------------------------------------------------------
(* At most once                                                            *)

\* At first nothing has been sent and nothing is held.
LEMMA InitHttp == Init => HttpInv
  <1> SUFFICES ASSUME Init PROVE HttpInv
    OBVIOUS
  <1>1. TypeOK
    BY InitType
  <1>2. OnceInv
    BY DEF Init, OnceInv, OneCopy, Untouched
  <1>3. GateInv
    BY DEF Init, AuthInit, GateInv
  <1> QED BY <1>1, <1>2, <1>3 DEF HttpInv

\* A step of one request leaves what is known of the others as it was.
LEMMA OthersKept ==
  ASSUME TypeOK, NEW c \in Requests, ClientStep(c) \/ ServerStep(c),
         NEW d \in Requests, d # c
  PROVE  /\ pc'[d] = pc[d] /\ copy'[d] = copy[d]
         /\ late'[d] = late[d] /\ acted'[d] = acted[d]
  <1> USE DEF TypeOK, Go
  <1>1. ASSUME NEW b, Again(c, b) PROVE pc'[d] = pc[d]
    BY <1>1 DEF Again, GiveUp
  <1>2. ASSUME Answered(c) \/ Abandoned(c) PROVE copy'[d] = copy[d] /\ late'[d] = late[d]
    BY <1>2 DEF Answered, Abandoned
  <1>3. CASE Begin(c) \/ Bearer(c) \/ Exchanged(c) \/ Refresh(c) \/ Refreshed(c) \/ Send(c)
    BY <1>3 DEF Begin, Bearer, Exchanged, Refresh, Refreshed, Send
  <1>4. CASE ConnectFails(c)
    <2>1. Again(c, TRUE)
      BY <1>4 DEF ConnectFails
    <2>2. UNCHANGED <<copy, late, acted>>
      BY <1>4 DEF ConnectFails
    <2> QED BY <2>1, <2>2, <1>1
  <1>5. CASE Attempt(c)
    <2>1. UNCHANGED acted /\ (Answered(c) \/ Abandoned(c))
      BY <1>5 DEF Attempt, Success, Unauthorized, Unavailable, TimesOut, Fails
    <2>2. pc'[d] = pc[d]
      BY <1>5, <1>1 DEF Attempt, Success, Unauthorized, Unavailable, TimesOut, Fails, GiveUp
    <2> QED BY <2>1, <2>2, <1>2
  <1>6. CASE Drop(c)
    BY <1>6, <1>2 DEF Drop
  <1>7. CASE ServerStep(c)
    BY <1>7 DEF ServerStep, ServerActs, ServerActsLate
  <1> QED BY <1>3, <1>4, <1>5, <1>6, <1>7 DEF ClientStep, Step

\* A step of a request that is not safe to replay keeps it to one copy.
LEMMA OneCopyStep ==
  ASSUME TypeOK, TypeOK', NEW c \in Requests, Kind[c] # "safe", OneCopy(c),
         ClientStep(c) \/ ServerStep(c)
  PROVE  OneCopy(c)'
  <1> USE DEF TypeOK, Go, Untouched, Done
  <1>1. CASE Begin(c) \/ Bearer(c) \/ Exchanged(c) \/ Refresh(c) \/ Refreshed(c)
    <2>1. UNCHANGED <<copy, late, acted>>
      BY <1>1 DEF Begin, Bearer, Exchanged, Refresh, Refreshed
    <2>2. pc[c] \in Untouched /\ pc'[c] # "flight"
      BY <1>1 DEF Begin, Bearer, Exchanged, Refresh, Refreshed
    <2> QED BY <2>1, <2>2 DEF OneCopy
  <1>2. CASE ConnectFails(c)
    <2>1. UNCHANGED <<copy, late, acted>>
      BY <1>2 DEF ConnectFails
    <2>2. pc[c] = "send" /\ pc'[c] # "flight"
      BY <1>2 DEF ConnectFails, Again, GiveUp
    <2> QED BY <2>1, <2>2 DEF OneCopy
  <1>3. CASE Send(c)
    BY <1>3 DEF Send, OneCopy
  <1>4. CASE Success(c)
    BY <1>4 DEF Success, Answered, OneCopy
  <1>5. CASE Unauthorized(c)
    <2>1. pc'[c] # "flight" /\ copy'[c] = "none" /\ copy[c] = "arrived"
      BY <1>5 DEF Unauthorized, Answered
    <2>2. late' = late /\ acted' = acted
      BY <1>5 DEF Unauthorized, Answered
    <2> QED BY <2>1, <2>2 DEF OneCopy
  <1>6. CASE Unavailable(c) \/ TimesOut(c) \/ Fails(c)
    <2>1. pc'[c] = "err" /\ acted' = acted
      BY <1>6 DEF Unavailable, TimesOut, Fails, Again, GiveUp, ReplaySafe
    <2>2. copy'[c] = "none" /\ (Answered(c) \/ Abandoned(c))
      BY <1>6 DEF Unavailable, TimesOut, Fails, Answered, Abandoned
    <2>3. late'[c] = late[c] \/ (copy[c] = "arrived" /\ late'[c] = late[c] + 1)
      BY <2>2 DEF Answered, Abandoned
    <2> QED BY <2>1, <2>2, <2>3 DEF OneCopy
  <1>7. CASE Drop(c)
    <2>1. pc'[c] = "dropped" /\ acted' = acted /\ copy'[c] = "none"
      BY <1>7 DEF Drop, Abandoned
    <2>2. late'[c] = late[c] \/ (copy[c] = "arrived" /\ late'[c] = late[c] + 1)
      BY <1>7 DEF Drop, Abandoned
    <2> QED BY <2>1, <2>2 DEF OneCopy
  <1>8. CASE ServerActs(c)
    BY <1>8 DEF ServerActs, OneCopy
  <1>9. CASE ServerActsLate(c)
    BY <1>9 DEF ServerActsLate, OneCopy
  <1> QED BY <1>1, <1>2, <1>3, <1>4, <1>5, <1>6, <1>7, <1>8, <1>9
          DEF ClientStep, ServerStep, Step, Attempt

\* Every step keeps every such request to one copy.
LEMMA OnceStep == ASSUME TypeOK, TypeOK', OnceInv, [Next]_vars PROVE OnceInv'
  <1>1. ASSUME UNCHANGED httpVars PROVE OnceInv'
    BY <1>1 DEF httpVars, OnceInv, OneCopy
  <1>2. ASSUME NEW c \in Requests, ClientStep(c) \/ ServerStep(c) PROVE OnceInv'
    <2> SUFFICES ASSUME NEW d \in Requests, Kind[d] # "safe" PROVE OneCopy(d)'
      BY DEF OnceInv
    <2>1. OneCopy(d)
      BY DEF OnceInv
    <2>2. CASE d = c
      BY <1>2, <2>1, <2>2, OneCopyStep
    <2>3. CASE d # c
      BY <1>2, <2>1, <2>3, OthersKept DEF OneCopy
    <2> QED BY <2>2, <2>3
  <1>3. CASE Restart
    <2> SUFFICES ASSUME NEW d \in Requests, Kind[d] # "safe" PROVE OneCopy(d)'
      BY DEF OnceInv
    <2>1. OneCopy(d)
      BY DEF OnceInv
    <2>2. pc'[d] \in {pc[d], "dropped"} /\ pc'[d] # "flight" /\ copy'[d] = "none"
      BY <1>3 DEF Restart, Done
    <2>3. /\ acted' = acted
          /\ late'[d] = late[d] \/ (copy[d] = "arrived" /\ late'[d] = late[d] + 1)
      BY <1>3 DEF Restart
    <2>4. pc'[d] \in Untouched => copy[d] = "none"
      BY <1>3, <2>1 DEF Restart, Untouched, OneCopy, Done
    <2> QED BY <2>1, <2>2, <2>3, <2>4 DEF OneCopy, Untouched, TypeOK
  <1> QED BY <1>1, <1>2, <1>3 DEF Next, vars

\* AtMostOnce is a part of the invariant.
LEMMA OnceSuffices == OnceInv => AtMostOnce
  BY DEF OnceInv, OneCopy, AtMostOnce

\* The server acts at most once on a request that is not safe to replay.
THEOREM ActsOnce == Spec => []AtMostOnce
  <1>1. Init => TypeOK /\ OnceInv
    BY InitHttp DEF HttpInv
  <1>2. TypeOK /\ OnceInv /\ [Next]_vars => TypeOK' /\ OnceInv'
    BY TypeStep, OnceStep
  <1> QED BY <1>1, <1>2, OnceSuffices, PTL DEF Spec

-----------------------------------------------------------------------------
(* Tokens move forward                                                     *)

\* What a step of a request does to the token cache.
LEMMA AuthSteps ==
  ASSUME NEW c \in Requests, ClientStep(c) \/ ServerStep(c)
  PROVE  \/ UNCHANGED authVars
         \/ BearerMiss(c) \/ ForceRefresh(c) \/ ExchangeOk(c) \/ ExchangeFails(c)
  <1>1. CASE Begin(c) \/ ConnectFails(c) \/ Send(c) \/ Attempt(c) \/ ServerStep(c)
    BY <1>1 DEF Begin, ConnectFails, Send, Attempt, Success, Unauthorized, Unavailable,
                TimesOut, Fails, ServerStep, ServerActs, ServerActsLate
  <1>2. CASE Bearer(c) \/ Exchanged(c) \/ Refresh(c) \/ Refreshed(c) \/ Drop(c)
    BY <1>2 DEF Bearer, Exchanged, Refresh, Refreshed, Drop, BearerHit
  <1> QED BY <1>1, <1>2 DEF ClientStep, Step

\* Each of them, and a mint, keeps the exchange in flight the only one and
\* its token the last, and never takes the cache back.
LEMMA GateKept ==
  ASSUME AuthTypeOK, GateInv, NEW c \in Requests,
         \/ Mint(c) \/ BearerMiss(c) \/ ForceRefresh(c) \/ ExchangeOk(c) \/ ExchangeFails(c)
  PROVE  GateInv' /\ cache' >= cache
  <1> USE DEF AuthTypeOK, Tokens, Torn
  <1>1. CASE Mint(c)
    <2>1. minted' = minted + 1 /\ gate = c /\ UNCHANGED <<cache, disk, gate>>
      BY <1>1 DEF Mint
    <2>2. \A d \in Requests : d # c => reply'[d] = reply[d] /\ reply[d] = Empty
      BY <1>1 DEF Mint, GateInv
    <2>3. reply'[c] = minted'
      BY <1>1 DEF Mint
    <2> QED BY <2>1, <2>2, <2>3 DEF GateInv
  <1>2. CASE BearerMiss(c) \/ ForceRefresh(c)
    <2>1. gate = Free /\ UNCHANGED <<minted, cache, disk, reply>>
      BY <1>2 DEF BearerMiss, ForceRefresh, Lock
    <2>2. \A d \in Requests : reply[d] = Empty
      BY <2>1 DEF GateInv
    <2> QED BY <2>1, <2>2 DEF GateInv
  <1>3. CASE ExchangeOk(c)
    <2>1. cache' = minted /\ gate = c /\ UNCHANGED minted
      BY <1>3 DEF ExchangeOk, GateInv
    <2>2. \A d \in Requests : reply'[d] = Empty
      BY <1>3, <2>1 DEF ExchangeOk, GateInv
    <2>3. disk' \in {minted, disk, Torn}
      BY <1>3, <2>1 DEF ExchangeOk, Written
    <2> QED BY <2>1, <2>2, <2>3 DEF GateInv
  <1>4. CASE ExchangeFails(c)
    <2>1. UNCHANGED <<minted, cache, disk>> /\ gate' = IF gate = c THEN Free ELSE gate
      BY <1>4 DEF ExchangeFails
    <2>2. \A d \in Requests : reply'[d] = IF d = c THEN Empty ELSE reply[d]
      BY <1>4 DEF ExchangeFails
    <2> QED BY <2>1, <2>2 DEF GateInv
  <1> QED BY <1>1, <1>2, <1>3, <1>4

\* A restart, which loses the exchange in flight, keeps the invariant.
LEMMA GateRestart == ASSUME AuthTypeOK, GateInv, RestartAuth PROVE GateInv'
  <1> USE DEF AuthTypeOK, Tokens, Torn
  <1>1. minted' = minted /\ \A d \in Requests : reply'[d] = Empty
    BY DEF RestartAuth
  <1>2. disk' # Torn => disk' <= minted
    <2>1. CASE UNCHANGED disk
      BY <2>1 DEF GateInv
    <2>2. ASSUME NEW c \in Requests, reply[c] # Empty, disk' \in Written(reply[c])
          PROVE  disk' # Torn => disk' <= minted
      BY <2>2 DEF Written, GateInv
    <2> QED BY <2>1, <2>2 DEF RestartAuth
  <1>3. cache' <= minted
    BY <1>2 DEF RestartAuth
  <1> QED BY <1>1, <1>2, <1>3 DEF GateInv

\* Every step keeps the invariant and, but for a restart, the cache forward.
LEMMA GateStep ==
  ASSUME TypeOK, GateInv, [Next]_vars
  PROVE  GateInv' /\ (crashes' = crashes => cache' >= cache)
  <1>1. AuthTypeOK
    BY DEF TypeOK
  <1>2. cache \in Nat /\ crashes \in Nat
    BY DEF TypeOK, AuthTypeOK, Tokens
  <1>3. ASSUME UNCHANGED authVars PROVE GateInv' /\ cache' >= cache
    BY <1>2, <1>3 DEF authVars, GateInv
  <1>4. ASSUME NEW c \in Requests, ClientStep(c) \/ ServerStep(c) \/ Mint(c)
        PROVE GateInv' /\ cache' >= cache
    BY <1>1, <1>3, <1>4, AuthSteps, GateKept
  <1>5. ASSUME NEW t \in Tokens, Clocks(t) PROVE GateInv' /\ cache' >= cache
    BY <1>2, <1>5 DEF Clocks, Reject, GrowStale, GateInv
  <1>6. CASE Restart
    BY <1>1, <1>2, <1>6, GateRestart DEF Restart
  <1> QED BY <1>3, <1>4, <1>5, <1>6 DEF Next, vars

\* While the process lives the cached token is only replaced by a later one.
THEOREM CacheMovesForward == Spec => TokensMoveForward
  <1>1. Init => TypeOK /\ GateInv
    BY InitHttp DEF HttpInv
  <1>2. TypeOK /\ GateInv /\ [Next]_vars => TypeOK' /\ GateInv'
    BY TypeStep, GateStep
  <1>3. TypeOK /\ GateInv /\ [Next]_vars => [crashes' = crashes => cache' >= cache]_vars
    BY GateStep
  <1> QED BY <1>1, <1>2, <1>3, PTL DEF Spec, TokensMoveForward
-----------------------------------------------------------------------------
(* The budget                                                              *)

\* Every attempt but the one under way, or the last, was paid for: by a retry
\* of the budget or by the one refresh.
Paid(c) ==
  /\ sends[c] <= attempt[c] + (IF renewed[c] THEN 1 ELSE 0)
                 + (IF pc[c] \in {"flight"} \cup Done THEN 1 ELSE 0)
  /\ Kind[c] = "stream" => attempt[c] = 0 /\ ~renewed[c]

\* A step of one request leaves the budget and the tokens of the others.
LEMMA OthersSame ==
  ASSUME TypeOK, NEW c \in Requests, ClientStep(c) \/ ServerStep(c),
         NEW d \in Requests, d # c
  PROVE  /\ sends'[d] = sends[d] /\ attempt'[d] = attempt[d] /\ renewed'[d] = renewed[d]
         /\ token'[d] = token[d] /\ refused'[d] = refused[d] /\ reply'[d] = reply[d]
  <1> USE DEF TypeOK, AuthTypeOK
  <1>1. ASSUME NEW b, Again(c, b) PROVE attempt'[d] = attempt[d]
    BY <1>1 DEF Again, GiveUp
  <1>2. CASE Begin(c) \/ ConnectFails(c) \/ Send(c)
    BY <1>1, <1>2 DEF Begin, ConnectFails, Send, authVars
  <1>3. CASE Bearer(c)
    BY <1>3 DEF Bearer, BearerHit, BearerMiss, authVars
  <1>4. CASE Exchanged(c)
    BY <1>4 DEF Exchanged, ExchangeOk, ExchangeFails
  <1>5. CASE Attempt(c)
    BY <1>1, <1>5 DEF Attempt, Success, Unauthorized, Unavailable, TimesOut, Fails, GiveUp, authVars
  <1>6. CASE Refresh(c)
    BY <1>6 DEF Refresh, ForceRefresh
  <1>7. CASE Refreshed(c)
    BY <1>7 DEF Refreshed, ExchangeOk, ExchangeFails
  <1>8. CASE Drop(c)
    BY <1>8 DEF Drop, ExchangeFails
  <1>9. CASE ServerStep(c)
    BY <1>9 DEF ServerStep, ServerActs, ServerActsLate, authVars
  <1> QED BY <1>2, <1>3, <1>4, <1>5, <1>6, <1>7, <1>8, <1>9 DEF ClientStep, Step

\* The arithmetic of an attempt that is paid for by a retry, or is the last.
LEMMA PaidFor ==
  ASSUME TypeOK, TypeOK', NEW c \in Requests, Paid(c), renewed' = renewed, NEW b \in BOOLEAN,
         Again(c, b), sends'[c] <= attempt[c] + (IF renewed[c] THEN 1 ELSE 0) + 1
  PROVE  Paid(c)'
  <1>1. CASE pc'[c] = "bearer" /\ attempt'[c] = attempt[c] + 1 /\ Kind[c] # "stream"
    BY <1>1 DEF Paid, TypeOK
  <1>2. CASE pc'[c] = "err" /\ attempt' = attempt
    BY <1>2 DEF Paid, TypeOK, Done
  <1> QED BY <1>1, <1>2 DEF Again, GiveUp, Go, TypeOK

LEMMA PaidStep ==
  ASSUME TypeOK, TypeOK', NEW c \in Requests, Paid(c), ClientStep(c) \/ ServerStep(c)
  PROVE  Paid(c)'
  <1> USE DEF TypeOK, Go
  <1>1. CASE Begin(c) \/ Bearer(c) \/ Refresh(c) \/ Refreshed(c)
    <2>1. UNCHANGED <<sends, attempt, renewed>> /\ pc[c] \notin {"flight"} \cup Done
      BY <1>1 DEF Begin, Bearer, Refresh, Refreshed, Done
    <2> QED BY <2>1 DEF Paid
  <1>2. CASE Exchanged(c) \/ Drop(c) \/ Success(c) \/ Fails(c)
    <2>1. UNCHANGED <<sends, attempt, renewed>>
      BY <1>2 DEF Exchanged, Drop, Success, Fails, GiveUp
    <2>2. pc[c] = "exchange" \/ pc'[c] \in Done
      BY <1>2 DEF Exchanged, Drop, Success, Fails, GiveUp, Done
    <2> QED BY <2>1, <2>2 DEF Paid, Done
  <1>3. CASE ConnectFails(c)
    <2>1. /\ sends'[c] = sends[c] + 1 /\ renewed' = renewed
          /\ sends[c] <= attempt[c] + (IF renewed[c] THEN 1 ELSE 0)
      BY <1>3 DEF ConnectFails, Paid, Done
    <2>2. Again(c, TRUE) /\ TRUE \in BOOLEAN
      BY <1>3 DEF ConnectFails
    <2>3. sends'[c] <= attempt[c] + (IF renewed[c] THEN 1 ELSE 0) + 1
      BY <2>1
    <2> QED BY <2>1, <2>2, <2>3, PaidFor
  <1>4. CASE Send(c)
    <2>1. /\ sends'[c] = sends[c] + 1 /\ UNCHANGED <<attempt, renewed>>
          /\ pc[c] = "send" /\ pc'[c] = "flight"
      BY <1>4 DEF Send
    <2> QED BY <2>1 DEF Paid, Done
  <1>5. CASE Unauthorized(c)
    <2>1. UNCHANGED <<sends, attempt>> /\ pc[c] = "flight"
      BY <1>5 DEF Unauthorized
    <2>2. CASE pc'[c] = "err" /\ renewed' = renewed
      BY <2>1, <2>2 DEF Paid, Done
    <2>3. CASE pc'[c] = "rejected" /\ ~renewed[c] /\ renewed'[c] /\ Kind[c] # "stream"
      BY <2>1, <2>3 DEF Paid, Done
    <2> QED BY <1>5, <2>2, <2>3 DEF Unauthorized
  <1>6. CASE Unavailable(c) \/ TimesOut(c)
    <2>1. /\ sends' = sends /\ renewed' = renewed
          /\ sends'[c] <= attempt[c] + (IF renewed[c] THEN 1 ELSE 0) + 1
      BY <1>6 DEF Unavailable, TimesOut, Paid
    <2>2. Again(c, ReplaySafe(c)) /\ ReplaySafe(c) \in BOOLEAN
      BY <1>6 DEF Unavailable, TimesOut, ReplaySafe
    <2> QED BY <2>1, <2>2, PaidFor
  <1>7. CASE ServerStep(c)
    BY <1>7 DEF ServerStep, ServerActs, ServerActsLate, Paid
  <1> QED BY <1>1, <1>2, <1>3, <1>4, <1>5, <1>6, <1>7 DEF ClientStep, Step, Attempt

LEMMA PaidNext ==
  ASSUME TypeOK, TypeOK', \A d \in Requests : Paid(d), [Next]_vars, NEW d \in Requests
  PROVE  Paid(d)'
  <1>1. ASSUME UNCHANGED httpVars PROVE Paid(d)'
    BY <1>1 DEF httpVars, Paid
  <1>2. ASSUME NEW c \in Requests, ClientStep(c) \/ ServerStep(c) PROVE Paid(d)'
    BY <1>2, PaidStep, OthersKept, OthersSame DEF Paid
  <1>3. CASE Restart
    <2>1. /\ UNCHANGED <<sends, attempt, renewed>>
          /\ pc'[d] = pc[d] \/ pc'[d] = "dropped"
      BY <1>3 DEF Restart
    <2> QED BY <2>1 DEF Paid, Done, TypeOK
  <1> QED BY <1>1, <1>2, <1>3 DEF Next, vars

\* No request is sent more often than its three attempts and one after a 401.
THEOREM SendsBoundedAlways == Spec => []SendsBounded
  <1> DEFINE P == \A c \in Requests : Paid(c)
  <1>1. Init => TypeOK /\ P
    BY InitType DEF Init, Paid, Done
  <1>2. TypeOK /\ P /\ [Next]_vars => TypeOK' /\ P'
    BY TypeStep, PaidNext
  <1>3. TypeOK /\ P => SendsBounded
    <2>1. ASSUME TypeOK, NEW c \in Requests, Paid(c)
          PROVE  sends[c] <= (IF Kind[c] = "stream" THEN 1 ELSE 4)
      <3>1. attempt[c] \in 0 .. 2 /\ sends[c] \in Nat
        BY <2>1 DEF TypeOK
      <3> QED BY <2>1, <3>1 DEF Paid
    <2> QED BY <2>1 DEF SendsBounded
  <1> QED BY <1>1, <1>2, <1>3, PTL DEF Spec

-----------------------------------------------------------------------------
(* The refused token                                                       *)

\* A refresh brings a token minted after the one it replaces, and the cache
\* does not go back while the request lives.
Renews(c) ==
  /\ token[c] <= minted
  /\ pc[c] = "refresh" /\ reply[c] # Empty => token[c] < reply[c]
  /\ refused[c] # Empty /\ pc[c] \notin Done =>
       /\ pc[c] # "idle" /\ cache > refused[c]
       /\ pc[c] \in {"send", "flight"} => token[c] > refused[c]

\* A step of another request, and a mint for another, change nothing of it.
LEMMA RenewsKept ==
  ASSUME TypeOK, TypeOK', NEW c \in Requests, Renews(c), cache' >= cache, minted' >= minted,
         /\ pc'[c] = pc[c] /\ token'[c] = token[c] /\ refused'[c] = refused[c]
         /\ reply'[c] = reply[c]
  PROVE  Renews(c)'
  BY DEF Renews, TypeOK, AuthTypeOK, Tokens

\* The mint of the token the request waits for.
LEMMA RenewsMint ==
  ASSUME TypeOK, TypeOK', NEW c \in Requests, NEW d \in Requests, Renews(c), Mint(d),
         UNCHANGED httpVars
  PROVE  Renews(c)'
  <1>1. /\ minted' = minted + 1 /\ cache' = cache
        /\ reply'[c] = IF c = d THEN minted' ELSE reply[c]
    BY DEF Mint, TypeOK, AuthTypeOK
  <1> QED BY <1>1 DEF Renews, TypeOK, AuthTypeOK, Tokens, httpVars

\* The request's own steps.
LEMMA RenewsStep ==
  ASSUME TypeOK, TypeOK', GateInv, NEW c \in Requests, Renews(c),
         ClientStep(c) \/ ServerStep(c)
  PROVE  Renews(c)'
  <1> USE DEF TypeOK, AuthTypeOK, Tokens, Go
  <1>1. CASE Begin(c) \/ ConnectFails(c) \/ Send(c) \/ Attempt(c) \/ ServerStep(c)
    <2>1. UNCHANGED <<authVars, token, refused>>
      BY <1>1 DEF Begin, ConnectFails, Send, Attempt, Success, Unauthorized, Unavailable,
                  TimesOut, Fails, ServerStep, ServerActs, ServerActsLate
    <2>2. /\ pc'[c] # "refresh" \/ pc'[c] = pc[c]
          /\ pc'[c] # "idle" \/ pc'[c] = pc[c]
          /\ pc'[c] \in {"send", "flight"} => pc[c] \in {"send", "flight"}
          /\ pc[c] \in Done => pc'[c] = pc[c]
      BY <1>1 DEF Begin, ConnectFails, Send, Attempt, Success, Unauthorized, Unavailable, Again,
                  TimesOut, Fails, GiveUp, ServerStep, ServerActs, ServerActsLate, Done
    <2> QED BY <2>1, <2>2 DEF Renews, authVars
  <1>2. CASE Bearer(c)
    <2>1. /\ UNCHANGED <<minted, cache, reply, refused>> /\ pc[c] = "bearer"
          /\ \/ pc'[c] = "send" /\ token'[c] = cache
             \/ pc'[c] = "exchange" /\ token' = token
      BY <1>2 DEF Bearer, BearerHit, BearerMiss, authVars
    <2> QED BY <2>1 DEF Renews, GateInv, Done
  <1>3. CASE Exchanged(c)
    <2>1. CASE ExchangeOk(c) /\ pc'[c] = "send" /\ token'[c] = cache'
      <3>1. /\ UNCHANGED <<minted, refused>> /\ pc[c] = "exchange"
            /\ cache' = reply[c] /\ reply'[c] = Empty /\ reply[c] # Empty
        BY <1>3, <2>1 DEF Exchanged, ExchangeOk, ExchangeFails
      <3>2. cache' = minted /\ (refused[c] # Empty => cache' > refused[c])
        BY <3>1 DEF GateInv, Renews, Done
      <3> QED BY <2>1, <3>1, <3>2 DEF Renews
    <2>2. CASE ExchangeFails(c) /\ pc'[c] = "err" /\ token' = token
      BY <1>3, <2>2 DEF Exchanged, ExchangeFails, Renews, Done
    <2> QED BY <1>3, <2>1, <2>2 DEF Exchanged
  <1>4. CASE Refresh(c)
    <2>1. /\ UNCHANGED <<minted, cache, reply, token, refused>>
          /\ pc[c] = "rejected" /\ pc'[c] = "refresh" /\ gate = Free
      BY <1>4 DEF Refresh, ForceRefresh, Lock
    <2>2. reply[c] = Empty
      BY <2>1 DEF GateInv
    <2> QED BY <2>1, <2>2 DEF Renews, Done
  <1>5. CASE Refreshed(c)
    <2>1. /\ UNCHANGED <<minted, token>> /\ pc[c] = "refresh" /\ pc'[c] = "bearer"
      BY <1>5 DEF Refreshed, ExchangeOk, ExchangeFails
    <2>2. CASE ExchangeOk(c) /\ refused' = [refused EXCEPT ![c] = token[c]]
      <3>1. cache' = reply[c] /\ reply[c] # Empty /\ refused'[c] = token[c]
        BY <2>2 DEF ExchangeOk
      <3>2. cache' > refused'[c]
        BY <2>1, <3>1 DEF Renews
      <3> QED BY <2>1, <3>2 DEF Renews
    <2>3. CASE ExchangeFails(c) /\ refused' = refused
      <3>1. cache' = cache
        BY <2>3 DEF ExchangeFails
      <3> QED BY <2>1, <2>3, <3>1 DEF Renews, Done
    <2> QED BY <1>5, <2>2, <2>3 DEF Refreshed
  <1>6. CASE Drop(c)
    <2>1. UNCHANGED <<minted, token>> /\ pc'[c] = "dropped"
      BY <1>6 DEF Drop, ExchangeFails
    <2> QED BY <2>1 DEF Renews, Done
  <1> QED BY <1>1, <1>2, <1>3, <1>4, <1>5, <1>6 DEF ClientStep, Step

LEMMA RenewsNext ==
  ASSUME TypeOK, TypeOK', GateInv, \A d \in Requests : Renews(d), [Next]_vars,
         NEW c \in Requests
  PROVE  Renews(c)'
  <1>1. minted \in Nat /\ cache \in Nat
    BY DEF TypeOK, AuthTypeOK, Tokens
  <1>2. ASSUME NEW d \in Requests, ClientStep(d) \/ ServerStep(d), d # c
        PROVE  Renews(c)'
    <2>1. cache' >= cache
      BY <1>1, <1>2, AuthSteps, GateKept DEF TypeOK, authVars
    <2>2. minted' = minted
      BY <1>2, AuthSteps DEF authVars, BearerMiss, ForceRefresh, ExchangeOk, ExchangeFails
    <2>3. /\ pc'[c] = pc[c] /\ token'[c] = token[c] /\ refused'[c] = refused[c]
          /\ reply'[c] = reply[c]
      BY <1>2, OthersKept, OthersSame
    <2> QED BY <1>1, <2>1, <2>2, <2>3, RenewsKept
  <1>3. ASSUME NEW t \in Tokens, Clocks(t), UNCHANGED httpVars
        PROVE  Renews(c)'
    <2>1. minted' = minted /\ cache' = cache /\ reply' = reply
      BY <1>3 DEF Clocks, Reject, GrowStale
    <2> QED BY <1>1, <1>3, <2>1, RenewsKept DEF httpVars
  <1>4. CASE Restart
    <2>1. UNCHANGED <<minted, token, refused>>
      BY <1>4 DEF Restart, RestartAuth
    <2>2. pc'[c] \in Done \/ (pc'[c] = "idle" /\ pc[c] = "idle")
      BY <1>4 DEF Restart, Done
    <2> QED BY <2>1, <2>2 DEF Renews, Done
  <1>5. CASE UNCHANGED vars
    <2>1. minted' = minted /\ cache' = cache /\ reply' = reply /\ UNCHANGED httpVars
      BY <1>5 DEF vars, authVars
    <2> QED BY <1>1, <2>1, RenewsKept DEF httpVars
  <1> QED BY <1>2, <1>3, <1>4, <1>5, RenewsStep, RenewsMint DEF Next

\* After a 401 and a refresh that worked, no attempt presents the refused token
\* or an older one.
THEOREM RefusedTokenGoneAlways == Spec => []RefusedTokenGone
  <1> DEFINE R == \A c \in Requests : Renews(c)
  <1>1. Init => TypeOK /\ GateInv /\ R
    BY InitHttp DEF HttpInv, Init, AuthInit, Renews
  <1>2. TypeOK /\ GateInv /\ R /\ [Next]_vars => TypeOK' /\ GateInv' /\ R'
    BY TypeStep, GateStep, RenewsNext
  <1>3. R => RefusedTokenGone
    BY DEF Renews, RefusedTokenGone, Done
  <1> QED BY <1>1, <1>2, <1>3, PTL DEF Spec
=============================================================================
