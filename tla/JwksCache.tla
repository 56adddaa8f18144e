----------------------------- MODULE JwksCache ------------------------------
(***************************************************************************)
(* The key cache of wyrd-auth-oidc for one jwks_uri.  Calls of key() look  *)
(* a kid up in the cached key set; on a miss the set is fetched from the   *)
(* provider, concurrent misses sharing one fetch; a set without the kid is *)
(* invalidated and fetched once more before the call gives up.  The        *)
(* provider rotates its keys meanwhile.                                    *)
(*                                                                         *)
(* The coalescing map is the moka crate's try_get_with, modelled from how  *)
(* jwks.rs uses it: of the calls that miss one runs its initialiser (the   *)
(* leader) and the others wait; a value is inserted and an error handed to *)
(* all of them; when the leader is dropped the others start over.          *)
(***************************************************************************)
EXTENDS Naturals

CONSTANTS
  Calls,    \* calls of key()
  Kids,     \* key ids
  NoKid,    \* a JWK without a "kid"
  Kid,      \* the kid each call asks for
  Entries   \* the JWKs the provider may publish

None   == [set |-> FALSE, keys |-> {}]
Some(keys) == [set |-> TRUE, keys |-> keys]
Maybe  == [set : BOOLEAN, keys : SUBSET Kids]
Nobody == "nobody"

\* An entry is sound when decoding_key_from_jwk can build a key from it.
Jwk == [kid : Kids \cup {NoKid}, sound : BOOLEAN]

ASSUME JwksAssumption ==
  /\ Kid \in [Calls -> Kids]
  /\ NoKid \notin Kids
  /\ Entries \subseteq Jwk
  /\ Nobody \notin Calls

VARIABLES
  document,  \* what the provider publishes
  cache,     \* the cached key set, if any
  leader,    \* the call whose fetch is under way
  response,  \* the key set its request was answered with, if it was
  pc,        \* where each call is
  round,     \* 1, or 2 once the call has invalidated the cache
  steady     \* history: kids the provider has had since the call began

vars == <<document, cache, leader, response, pc, round, steady>>

Returned == {"ok", "unknown", "unavailable", "cancelled"}

TypeOK ==
  /\ document \subseteq Entries
  /\ cache \in Maybe /\ response \in Maybe
  /\ leader \in Calls \cup {Nobody}
  /\ pc \in [Calls -> {"idle", "get", "wait", "stale"} \cup Returned]
  /\ round \in [Calls -> 1 .. 2]
  /\ steady \in [Calls -> SUBSET Kids]

KeyMapMutant(doc) ==           \* entries without a kid are kept
  {j.kid : j \in {e \in doc : e.sound}}

\* Entries without a kid and malformed entries are skipped.
KeyMap(doc) == {j.kid : j \in {e \in doc : e.sound /\ e.kid # NoKid}}

Init ==
  /\ document \in SUBSET Entries
  /\ cache = None /\ leader = Nobody /\ response = None
  /\ pc = [c \in Calls |-> "idle"]
  /\ round = [c \in Calls |-> 1]
  /\ steady = [c \in Calls |-> {}]

-----------------------------------------------------------------------------
(* The provider                                                            *)

Publish(j) ==
  /\ j \notin document
  /\ document' = document \cup {j}
  /\ UNCHANGED <<cache, leader, response, pc, round, steady>>

Retire(j) ==
  /\ j \in document
  /\ document' = document \ {j}
  /\ steady' = [c \in Calls |-> steady[c] \cap KeyMap(document')]
  /\ UNCHANGED <<cache, leader, response, pc, round>>

-----------------------------------------------------------------------------
(* A call                                                                  *)

Begin(c) ==
  /\ pc[c] = "idle"
  /\ pc' = [pc EXCEPT ![c] = "get"]
  /\ steady' = [steady EXCEPT ![c] = KeyMap(document)]
  /\ UNCHANGED <<document, cache, leader, response, round>>

\* What a call does with the key set it was given.
Verdict(c, keys) == IF Kid[c] \in keys THEN "ok"
                    ELSE IF round[c] = 1 THEN "stale" ELSE "unknown"

\* fetch_cached: a hit, or wait for the fetch under way, or lead a new one.
FetchCached(c) ==
  /\ pc[c] = "get"
  /\ \/ /\ cache.set
        /\ pc' = [pc EXCEPT ![c] = Verdict(c, cache.keys)]
        /\ UNCHANGED leader
     \/ /\ ~cache.set
        /\ pc' = [pc EXCEPT ![c] = "wait"]
        /\ leader' = IF leader = Nobody THEN c ELSE leader
  /\ UNCHANGED <<document, cache, response, round, steady>>

InvalidateMutant(c) ==         \* the second lookup finds the same set
  /\ pc[c] = "stale"
  /\ pc' = [pc EXCEPT ![c] = "get"]
  /\ round' = [round EXCEPT ![c] = 2]
  /\ UNCHANGED <<document, cache, leader, response, steady>>

Invalidate(c) ==
  /\ pc[c] = "stale"
  /\ cache' = None
  /\ pc' = [pc EXCEPT ![c] = "get"]
  /\ round' = [round EXCEPT ![c] = 2]
  /\ UNCHANGED <<document, leader, response, steady>>

Waiting == {c \in Calls : pc[c] = "wait"}

\* The caller's future is dropped; if it led, the others look again.
Cancel(c) ==
  /\ pc[c] \in {"get", "wait", "stale"}
  /\ IF leader = c
     THEN /\ leader' = Nobody /\ response' = None
          /\ pc' = [d \in Calls |-> IF d = c THEN "cancelled"
                                    ELSE IF d \in Waiting THEN "get" ELSE pc[d]]
     ELSE /\ pc' = [pc EXCEPT ![c] = "cancelled"]
          /\ UNCHANGED <<leader, response>>
  /\ UNCHANGED <<document, cache, round, steady>>

-----------------------------------------------------------------------------
(* The fetch under way and the cache                                       *)

\* The provider answers the request with what it publishes now.
Answer ==
  /\ leader # Nobody /\ ~response.set
  /\ response' = Some(KeyMap(document))
  /\ UNCHANGED <<document, cache, leader, pc, round, steady>>

\* The answer arrives: it is cached and given to everyone who waits for it.
FetchOk ==
  /\ leader # Nobody /\ response.set
  /\ cache' = response
  /\ leader' = Nobody /\ response' = None
  /\ pc' = [c \in Calls |-> IF c \in Waiting THEN Verdict(c, response.keys) ELSE pc[c]]
  /\ UNCHANGED <<document, round, steady>>

FetchFailsMutant ==            \* only the leader learns of the error
  /\ leader # Nobody
  /\ leader' = Nobody /\ response' = None
  /\ pc' = [pc EXCEPT ![leader] = "unavailable"]
  /\ UNCHANGED <<document, cache, round, steady>>

\* A transport error, an elapsed timeout, a status or a body that is no JWKS.
FetchFails ==
  /\ leader # Nobody
  /\ leader' = Nobody /\ response' = None
  /\ pc' = [c \in Calls |-> IF c \in Waiting THEN "unavailable" ELSE pc[c]]
  /\ UNCHANGED <<document, cache, round, steady>>

\* The entry outlives its time to live or is evicted for room.
Expire ==
  /\ cache.set
  /\ cache' = None
  /\ UNCHANGED <<document, leader, response, pc, round, steady>>

-----------------------------------------------------------------------------
Fetch == Answer \/ FetchOk \/ FetchFails

Next == \/ \E j \in Entries : Publish(j) \/ Retire(j)
        \/ \E c \in Calls : Begin(c) \/ FetchCached(c) \/ Invalidate(c) \/ Cancel(c)
        \/ Fetch
        \/ Expire

Spec == Init /\ [][Next]_vars

\* The runtime keeps polling a call, and every fetch has a deadline.
Fairness == /\ \A c \in Calls : WF_vars(FetchCached(c) \/ Invalidate(c))
            /\ WF_vars(Fetch)

LiveSpec == Spec /\ Fairness

-----------------------------------------------------------------------------
\* "Refetched exactly once; still absent => UnknownKid": a key the provider
\* published when the call began and has published since is never reported
\* unknown, whichever older fetches the call was coalesced with and whoever
\* else invalidates the cache.
PublishedKidFound == \A c \in Calls : pc[c] = "unknown" => Kid[c] \notin steady[c]

\* Every call of key() returns or is dropped by its caller, also when the
\* call that led its fetch is dropped or fails.
CallsReturn == \A c \in Calls : pc[c] = "get" ~> pc[c] \in Returned
=============================================================================
