-------------------------- MODULE JwksCacheProofs ---------------------------
(***************************************************************************)
(* Proofs about the key cache for every number of calls and every set of   *)
(* keys the provider may publish.                                          *)
(***************************************************************************)
EXTENDS JwksCache, TLAPS

USE JwksAssumption DEF JwksAssumption

\* A fetch is under way only while nothing is cached, its leader waits for
\* it, and an answer belongs to a fetch.
OneSource == /\ leader # Nobody => ~cache.set
             /\ leader = Nobody => ~response.set

\* The key set has all the keys of the provider since call c began.
Current(c, m) == m.set => steady[c] \subseteq m.keys

\* A call that has seen a set without its kid can only meet sets that were
\* published after it began.
Renewed == \A c \in Calls :
             /\ pc[c] = "idle" => round[c] = 1
             /\ pc[c] = "stale" => Current(c, response)
             /\ pc[c] \in {"get", "wait"} /\ round[c] = 2 =>
                  Current(c, cache) /\ Current(c, response)

\* A call knows of no key the provider does not have.
Steady == \A c \in Calls : steady[c] \subseteq KeyMap(document)

KeyInv == TypeOK /\ OneSource /\ Renewed /\ Steady /\ PublishedKidFound

-----------------------------------------------------------------------------
(* Types                                                                   *)

\* The map built from a document maps kids.
LEMMA KeyMapType == ASSUME NEW d \in SUBSET Entries PROVE KeyMap(d) \subseteq Kids
  BY DEF KeyMap, Jwk

\* The cache starts well typed.
LEMMA InitType == Init => TypeOK
  BY DEF Init, TypeOK, None, Maybe

\* Every step keeps it so.
LEMMA TypeStep == TypeOK /\ [Next]_vars => TypeOK'
  <1> SUFFICES ASSUME TypeOK, [Next]_vars PROVE TypeOK'
    OBVIOUS
  <1> USE DEF TypeOK, Returned
  <1>1. ASSUME NEW j \in Entries, Publish(j) \/ Retire(j) PROVE TypeOK'
    <2>1. document' \subseteq Entries
      BY <1>1 DEF Publish, Retire
    <2> QED BY <1>1, <2>1 DEF Publish, Retire
  <1>2. ASSUME NEW c \in Calls, Begin(c) PROVE TypeOK'
    BY <1>2, KeyMapType DEF Begin
  <1>3. ASSUME NEW c \in Calls, FetchCached(c) PROVE TypeOK'
    BY <1>3 DEF FetchCached, Verdict
  <1>4. ASSUME NEW c \in Calls, Invalidate(c) PROVE TypeOK'
    BY <1>4 DEF Invalidate, None, Maybe
  <1>5. ASSUME NEW c \in Calls, Cancel(c) PROVE TypeOK'
    <2>1. pc' \in [Calls -> {"idle", "get", "wait", "stale"} \cup Returned]
      <3>1. CASE leader = c
        <4>1. pc' = [d \in Calls |-> IF d = c THEN "cancelled"
                                     ELSE IF d \in Waiting THEN "get" ELSE pc[d]]
          BY <1>5, <3>1 DEF Cancel
        <4>2. \A d \in Calls : (IF d = c THEN "cancelled"
                                ELSE IF d \in Waiting THEN "get" ELSE pc[d])
                               \in {"idle", "get", "wait", "stale"} \cup Returned
          BY DEF Waiting
        <4> QED BY <4>1, <4>2
      <3>2. CASE leader # c
        BY <1>5, <3>2 DEF Cancel
      <3> QED BY <3>1, <3>2
    <2>2. leader' \in Calls \cup {Nobody} /\ response' \in Maybe
      <3>1. None \in Maybe
        BY DEF None, Maybe
      <3>2. leader' \in {leader, Nobody} /\ response' \in {response, None}
        BY <1>5 DEF Cancel
      <3> QED BY <3>1, <3>2
    <2> QED BY <1>5, <2>1, <2>2 DEF Cancel
  <1>6. CASE Answer
    <2>1. KeyMap(document) \subseteq Kids
      BY KeyMapType
    <2>2. response' \in Maybe
      BY <1>6, <2>1 DEF Answer, Some, Maybe
    <2> QED BY <1>6, <2>2 DEF Answer
  <1>7. CASE FetchOk
    BY <1>7 DEF FetchOk, None, Maybe, Verdict
  <1>8. CASE FetchFails
    BY <1>8 DEF FetchFails, None, Maybe
  <1>9. CASE Expire
    BY <1>9 DEF Expire, None, Maybe
  <1>10. CASE UNCHANGED vars
    BY <1>10 DEF vars
  <1> QED BY <1>1, <1>2, <1>3, <1>4, <1>5, <1>6, <1>7, <1>8, <1>9, <1>10 DEF Next, Fetch

\* Every reachable state of the key cache is well typed.
THEOREM TypeCorrect == Spec => []TypeOK
  BY InitType, TypeStep, PTL DEF Spec

-----------------------------------------------------------------------------
(* Published keys are found                                                *)

\* Initially nothing is cached and no call has begun.
LEMMA InitKey == Init => KeyInv
  <1> SUFFICES ASSUME Init PROVE KeyInv
    OBVIOUS
  <1>1. TypeOK
    BY InitType
  <1> QED BY <1>1 DEF Init, KeyInv, OneSource, Renewed, Steady, PublishedKidFound, None

\* The provider only ever takes keys away from what a call may count on.
LEMMA ProviderStep ==
  ASSUME KeyInv, TypeOK', NEW j \in Entries, Publish(j) \/ Retire(j)
  PROVE  KeyInv'
  <1>1. /\ UNCHANGED <<cache, leader, response, pc, round>>
        /\ \A c \in Calls : steady'[c] \subseteq steady[c]
        /\ \A c \in Calls : steady'[c] \subseteq KeyMap(document')
    <2>1. CASE Publish(j)
      BY <2>1 DEF Publish, KeyInv, Steady, KeyMap
    <2>2. CASE Retire(j)
      BY <2>2 DEF Retire
    <2> QED BY <2>1, <2>2
  <1>2. OneSource' /\ Steady'
    BY <1>1 DEF KeyInv, OneSource, Steady
  <1>3. Renewed'
    BY <1>1 DEF KeyInv, Renewed, Current
  <1>4. PublishedKidFound'
    BY <1>1 DEF KeyInv, PublishedKidFound
  <1> QED BY <1>2, <1>3, <1>4 DEF KeyInv

\* A step of one call.
LEMMA CallStep ==
  ASSUME KeyInv, TypeOK', NEW c \in Calls,
         Begin(c) \/ FetchCached(c) \/ Invalidate(c) \/ Cancel(c)
  PROVE  KeyInv'
  <1> USE DEF KeyInv
  <1>1. CASE Begin(c)
    <2>1. \A d \in Calls : d # c => pc'[d] = pc[d] /\ steady'[d] = steady[d]
      BY <1>1 DEF Begin, TypeOK
    <2>2. pc'[c] = "get" /\ steady'[c] = KeyMap(document) /\ pc[c] = "idle"
      BY <1>1 DEF Begin, TypeOK
    <2>3. UNCHANGED <<document, cache, leader, response, round>>
      BY <1>1 DEF Begin
    <2>4. OneSource' /\ Steady' /\ PublishedKidFound'
      BY <2>1, <2>2, <2>3 DEF OneSource, Steady, PublishedKidFound
    <2>5. round[c] = 1
      BY <2>2 DEF Renewed
    <2> QED BY <2>1, <2>2, <2>3, <2>4, <2>5 DEF Renewed, Current
  <1>2. CASE FetchCached(c)
    <2> QED BY <1>2 DEF FetchCached, Verdict, OneSource, Renewed, Steady,
                        PublishedKidFound, Current, TypeOK
  <1>3. CASE Invalidate(c)
    <2> QED BY <1>3 DEF Invalidate, OneSource, Renewed, Steady,
                        PublishedKidFound, Current, TypeOK, None
  <1>4. CASE Cancel(c)
    <2> QED BY <1>4 DEF Cancel, OneSource, Renewed, Steady, Waiting,
                        PublishedKidFound, Current, TypeOK, None
  <1> QED BY <1>1, <1>2, <1>3, <1>4

\* A step of the fetch under way, or the end of a cached set.
LEMMA FetchStep == ASSUME KeyInv, TypeOK', Fetch \/ Expire PROVE KeyInv'
  <1> USE DEF KeyInv
  <1>1. CASE Answer
    BY <1>1 DEF Answer, Some, OneSource, Renewed, Steady, PublishedKidFound, Current
  <1>2. CASE FetchOk
    <2>1. /\ UNCHANGED <<document, round, steady>> /\ response.set
          /\ cache' = response /\ leader' = Nobody /\ ~response'.set
      BY <1>2 DEF FetchOk, None
    <2>2. \A c \in Calls :
             pc'[c] = IF pc[c] = "wait" THEN Verdict(c, response.keys) ELSE pc[c]
      BY <1>2 DEF FetchOk, Waiting
    <2>3. OneSource' /\ Steady'
      BY <2>1 DEF OneSource, Steady
    <2>4. Renewed'
      BY <2>1, <2>2 DEF Renewed, Current, Verdict
    <2>5. ASSUME NEW c \in Calls, pc'[c] = "unknown" PROVE Kid[c] \notin steady'[c]
      <3>1. CASE pc[c] = "wait"
        <4>1. round[c] = 2 /\ Kid[c] \notin response.keys
          BY <2>2, <2>5, <3>1 DEF Verdict, TypeOK
        <4>2. steady[c] \subseteq response.keys
          BY <2>1, <3>1, <4>1 DEF Renewed, Current
        <4> QED BY <2>1, <4>1, <4>2
      <3>2. CASE pc[c] # "wait"
        BY <2>1, <2>2, <2>5, <3>2 DEF PublishedKidFound
      <3> QED BY <3>1, <3>2
    <2> QED BY <2>3, <2>4, <2>5 DEF PublishedKidFound
  <1>3. CASE FetchFails
    BY <1>3 DEF FetchFails, None, Waiting, OneSource, Renewed, Steady,
                PublishedKidFound, Current
  <1>4. CASE Expire
    BY <1>4 DEF Expire, None, OneSource, Renewed, Steady, PublishedKidFound, Current
  <1> QED BY <1>1, <1>2, <1>3, <1>4 DEF Fetch

\* A key published throughout a call is never reported unknown to it.
THEOREM KeyFound == Spec => []PublishedKidFound
  <1>1. KeyInv /\ [Next]_vars => KeyInv'
    <2> SUFFICES ASSUME KeyInv, [Next]_vars PROVE KeyInv'
      OBVIOUS
    <2>1. TypeOK'
      BY TypeStep DEF KeyInv
    <2>2. CASE UNCHANGED vars
      BY <2>2, <2>1 DEF vars, KeyInv, OneSource, Renewed, Steady,
                        PublishedKidFound, Current
    <2>3. CASE Next
      BY <2>1, <2>3, ProviderStep, CallStep, FetchStep DEF Next
    <2> QED BY <2>2, <2>3
  <1>2. KeyInv => PublishedKidFound
    BY DEF KeyInv
  <1> QED BY InitKey, <1>1, <1>2, PTL DEF Spec
=============================================================================
