--------------------------- MODULE AuthMiddleware ---------------------------
(***************************************************************************)
(* The token cache of wyrd-client.  Requests share one access token, which *)
(* is exchanged for the durable secret when it is stale or a request saw   *)
(* it rejected.  The lock on the cache is held across the exchange.  In    *)
(* disk mode a token survives a restart of the process.                    *)
(*                                                                         *)
(* Tokens are numbered in the order the server mints them.  A credential   *)
(* that is a bearer token itself never comes here: bearer() returns it.    *)
(***************************************************************************)
EXTENDS Naturals

CONSTANTS
  Requests,   \* requests that share the middleware
  MaxTokens,  \* bound on the tokens the server mints
  Disk        \* TokenCacheMode::Disk

Free  == "free"
Empty == 0                     \* no token: tokens are 1, 2, ...
Torn  == MaxTokens + 1         \* a record that does not parse

ASSUME AuthAssumption ==
  /\ MaxTokens \in Nat /\ Disk \in BOOLEAN
  /\ Free \notin Requests

VARIABLES
  minted,    \* tokens minted so far
  accepted,  \* those the server accepts
  stale,     \* those within the refresh skew of their expiry, to this client
  cache,     \* the cached token
  disk,      \* the record on disk
  gate,      \* who holds the lock on the cache
  reply      \* the token on its way to a request that exchanges

authVars == <<minted, accepted, stale, cache, disk, gate, reply>>

Tokens == 1 .. MaxTokens

AuthTypeOK ==
  /\ minted \in 0 .. MaxTokens
  /\ accepted \subseteq Tokens /\ stale \subseteq Tokens
  /\ cache \in Tokens \cup {Empty}
  /\ disk \in Tokens \cup {Empty, Torn}
  /\ gate \in Requests \cup {Free}
  /\ reply \in [Requests -> Tokens \cup {Empty}]

AuthInit ==
  /\ minted = 0 /\ accepted = {} /\ stale = {}
  /\ cache = Empty /\ disk = Empty
  /\ gate = Free /\ reply = [c \in Requests |-> Empty]

-----------------------------------------------------------------------------
(* The server and the clocks                                               *)

Mint(c) ==
  /\ gate = c /\ reply[c] = Empty /\ minted < MaxTokens
  /\ minted' = minted + 1
  /\ accepted' = accepted \cup {minted'}
  /\ reply' = [reply EXCEPT ![c] = minted']
  /\ UNCHANGED <<stale, cache, disk, gate>>

\* The server's clock, or a revocation, ends a token at any time.
Reject(t) ==
  /\ t \in accepted
  /\ accepted' = accepted \ {t}
  /\ UNCHANGED <<minted, stale, cache, disk, gate, reply>>

\* The client's clock comes within REFRESH_SKEW_SECONDS of its expiry.
GrowStale(t) ==
  /\ t \in 1 .. minted /\ t \notin stale
  /\ stale' = stale \cup {t}
  /\ UNCHANGED <<minted, accepted, cache, disk, gate, reply>>

-----------------------------------------------------------------------------
(* bearer and force_refresh                                                *)

Fresh(t) == t # Empty /\ t \notin stale

LockMutant(c) == gate' = c     \* the lock is not held across the exchange

Lock(c) == gate = Free /\ gate' = c

\* The lock is taken and released in one step.
BearerHit(c) ==
  /\ gate = Free /\ Fresh(cache)
  /\ UNCHANGED authVars

BearerMiss(c) ==
  /\ ~Fresh(cache)
  /\ Lock(c)
  /\ UNCHANGED <<minted, accepted, stale, cache, disk, reply>>

ForceRefresh(c) ==
  /\ Lock(c)
  /\ UNCHANGED <<minted, accepted, stale, cache, disk, reply>>

\* What a write of the record leaves on disk: it, the old one, or a part.
Written(t) == IF Disk THEN {t, disk, Torn} ELSE {disk}

ExchangeOkMutant(c) ==         \* a cached token is not replaced
  /\ reply[c] # Empty
  /\ cache' = IF cache = Empty THEN reply[c] ELSE cache
  /\ reply' = [reply EXCEPT ![c] = Empty]
  /\ gate' = Free
  /\ UNCHANGED <<minted, accepted, stale, disk>>

\* store: the record goes to disk if it can, then the cache is replaced.
ExchangeOk(c) ==
  /\ reply[c] # Empty
  /\ cache' = reply[c]
  /\ disk' \in Written(cache')
  /\ reply' = [reply EXCEPT ![c] = Empty]
  /\ gate' = Free
  /\ UNCHANGED <<minted, accepted, stale>>

ExchangeFailsMutant(c) ==      \* the lock outlives a dropped future
  /\ reply' = [reply EXCEPT ![c] = Empty]
  /\ UNCHANGED <<minted, accepted, stale, cache, disk, gate>>

\* The server refuses, cannot be reached, or its answer is lost; or the
\* caller's future is dropped.  The cache stays as it was.
ExchangeFails(c) ==
  /\ reply' = [reply EXCEPT ![c] = Empty]
  /\ gate' = IF gate = c THEN Free ELSE gate
  /\ UNCHANGED <<minted, accepted, stale, cache, disk>>

\* The process dies, perhaps while it writes the record, and starts again:
\* build loads a record that parses and is not stale.
RestartAuth ==
  /\ \/ UNCHANGED disk
     \/ \E c \in Requests : reply[c] # Empty /\ disk' \in Written(reply[c])
  /\ cache' = IF disk' # Torn /\ Fresh(disk') THEN disk' ELSE Empty
  /\ gate' = Free /\ reply' = [c \in Requests |-> Empty]
  /\ UNCHANGED <<minted, accepted, stale>>
=============================================================================
