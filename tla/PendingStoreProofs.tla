------------------------ MODULE PendingStoreProofs ------------------------
(***************************************************************************)
(* Proofs about PendingStore, for every set of calls, ids and payloads,    *)
(* every TTL and every bound on the clock.                                 *)
(*                                                                         *)
(* The safety properties follow from the inductive invariant IInv.  Its    *)
(* heart is that an entry is in one place at a time: with the create that  *)
(* owns its id (OwnerInv), then in the map (ItemsInv), then with the one   *)
(* claim that deleted it (ClaimInv, TakenOnce).  MutexInv is what makes    *)
(* the lookup, the delete and the purge of different calls exclude each    *)
(* other.                                                                  *)
(***************************************************************************)
EXTENDS PendingStore, TLAPS

\* The TTL in use is positive whatever the configured value.
LEMMA TTLNat == ttl \in Nat \ {0}
  BY StoreAssumption DEF ttl

\* The initial state satisfies the inductive invariant.
LEMMA InitInv == Init => IInv
  BY StoreAssumption
  DEF Init, IInv, TypeOK, MutexInv, OwnerInv, ItemsInv, ClaimInv, TakenOnce, LiveEntryKept,
      Takers, ExpiryInv, InCreate, InClaim, Returned, Holding

\* Every step of every call, the clock, and stuttering preserve it.
LEMMA StepInv == IInv /\ [Next]_vars => IInv'
  <1> SUFFICES ASSUME IInv, [Next]_vars PROVE IInv'
    OBVIOUS
  <1> USE StoreAssumption DEF Goto, StagedBy, InCreate, InClaim, Returned, Holding
  \* Create: the id is new to every other call and to the map.
  <1>1. ASSUME NEW c \in Calls, NEW i \in ID, NEW p \in Payload, Create(c, i, p) PROVE IInv'
    <2>1. TypeOK' BY <1>1, TTLNat DEF IInv, Create, TypeOK, Entry
    <2>2. MutexInv' BY <1>1 DEF IInv, Create, TypeOK, MutexInv
    <2>3. OwnerInv' BY <1>1, TTLNat DEF IInv, Create, TypeOK, OwnerInv
    <2>4. ItemsInv' BY <1>1 DEF IInv, Create, TypeOK, ItemsInv
    <2>5. ClaimInv' BY <1>1 DEF IInv, Create, TypeOK, ClaimInv
    <2>6. TakenOnce' BY <1>1 DEF IInv, Create, TypeOK, TakenOnce
    <2>7. LiveEntryKept' BY <1>1 DEF IInv, Create, TypeOK, LiveEntryKept, Takers
    <2>8. ExpiryInv' BY <1>1, TTLNat DEF IInv, Create, TypeOK, Entry, ExpiryInv
    <2>9. QED BY <2>1, <2>2, <2>3, <2>4, <2>5, <2>6, <2>7, <2>8 DEF IInv
  <1>2. ASSUME NEW c \in Calls, CreateFail(c) PROVE IInv'
    <2>1. TypeOK' BY <1>2 DEF IInv, CreateFail, TypeOK
    <2>2. MutexInv' BY <1>2 DEF IInv, CreateFail, TypeOK, MutexInv
    <2>3. OwnerInv' BY <1>2 DEF IInv, CreateFail, TypeOK, OwnerInv
    <2>4. ItemsInv' BY <1>2 DEF IInv, CreateFail, TypeOK, ItemsInv
    <2>5. ClaimInv' BY <1>2 DEF IInv, CreateFail, TypeOK, ClaimInv
    <2>6. TakenOnce' BY <1>2 DEF IInv, CreateFail, TypeOK, TakenOnce
    <2>7. LiveEntryKept' BY <1>2 DEF IInv, CreateFail, TypeOK, LiveEntryKept, Takers
    <2>8. ExpiryInv' BY <1>2 DEF IInv, CreateFail, ExpiryInv
    <2>9. QED BY <2>1, <2>2, <2>3, <2>4, <2>5, <2>6, <2>7, <2>8 DEF IInv
  \* CreateLock: the mutex was free, so nobody is between Lock and Unlock.
  <1>3. ASSUME NEW c \in Calls, CreateLock(c) PROVE IInv'
    <2>1. TypeOK' BY <1>3 DEF IInv, CreateLock, Acquire, TypeOK
    <2>2. MutexInv' BY <1>3 DEF IInv, CreateLock, Acquire, TypeOK, MutexInv
    <2>3. OwnerInv' BY <1>3 DEF IInv, CreateLock, Acquire, TypeOK, OwnerInv
    <2>4. ItemsInv' BY <1>3 DEF IInv, CreateLock, Acquire, TypeOK, ItemsInv
    <2>5. ClaimInv' BY <1>3 DEF IInv, CreateLock, Acquire, TypeOK, ClaimInv
    <2>6. TakenOnce' BY <1>3 DEF IInv, CreateLock, Acquire, TypeOK, TakenOnce
    <2>7. LiveEntryKept' BY <1>3 DEF IInv, CreateLock, Acquire, TypeOK, LiveEntryKept, Takers
    <2>8. ExpiryInv' BY <1>3 DEF IInv, CreateLock, ExpiryInv
    <2>9. QED BY <2>1, <2>2, <2>3, <2>4, <2>5, <2>6, <2>7, <2>8 DEF IInv
  \* Purge: only expired entries go, and no claim is between its lookup and its delete.
  <1>4. ASSUME NEW c \in Calls, Purge(c) PROVE IInv'
    <2>1. TypeOK' BY <1>4 DEF IInv, Purge, TypeOK
    <2>2. MutexInv' BY <1>4 DEF IInv, Purge, TypeOK, MutexInv
    <2>3. OwnerInv' BY <1>4 DEF IInv, Purge, TypeOK, OwnerInv
    <2>4. ItemsInv' BY <1>4 DEF IInv, Purge, TypeOK, ItemsInv
    <2>5. ClaimInv' BY <1>4 DEF IInv, Purge, TypeOK, MutexInv, ClaimInv
    <2>6. TakenOnce' BY <1>4 DEF IInv, Purge, TypeOK, TakenOnce
    <2>7. LiveEntryKept' BY <1>4 DEF IInv, Purge, TypeOK, OwnerInv, LiveEntryKept, Takers, Entry, Lapsed
    <2>8. ExpiryInv' BY <1>4 DEF IInv, Purge, ExpiryInv
    <2>9. QED BY <2>1, <2>2, <2>3, <2>4, <2>5, <2>6, <2>7, <2>8 DEF IInv
  \* Insert: the id is this call's own: no claim has taken it yet.
  <1>5. ASSUME NEW c \in Calls, Insert(c) PROVE IInv'
    <2>1. TypeOK' BY <1>5 DEF IInv, Insert, Release, TypeOK
    <2>2. MutexInv' BY <1>5 DEF IInv, Insert, Release, TypeOK, MutexInv
    <2>3. OwnerInv' BY <1>5 DEF IInv, Insert, Release, TypeOK, OwnerInv
    <2>4. ItemsInv' BY <1>5 DEF IInv, Insert, Release, TypeOK, ItemsInv
    <2>5. ClaimInv' BY <1>5 DEF IInv, Insert, Release, TypeOK, OwnerInv, MutexInv, ClaimInv
    <2>6. TakenOnce' BY <1>5 DEF IInv, Insert, Release, TypeOK, TakenOnce
    <2>7. LiveEntryKept' BY <1>5 DEF IInv, Insert, Release, TypeOK, OwnerInv, LiveEntryKept, Takers
    <2>8. ExpiryInv' BY <1>5 DEF IInv, Insert, ExpiryInv
    <2>9. QED BY <2>1, <2>2, <2>3, <2>4, <2>5, <2>6, <2>7, <2>8 DEF IInv
  <1>6. ASSUME NEW c \in Calls, NEW i \in ID, Claim(c, i) PROVE IInv'
    <2>1. TypeOK' BY <1>6 DEF IInv, Claim, TypeOK
    <2>2. MutexInv' BY <1>6 DEF IInv, Claim, TypeOK, MutexInv
    <2>3. OwnerInv' BY <1>6 DEF IInv, Claim, TypeOK, OwnerInv
    <2>4. ItemsInv' BY <1>6 DEF IInv, Claim, TypeOK, ItemsInv
    <2>5. ClaimInv' BY <1>6 DEF IInv, Claim, TypeOK, ClaimInv
    <2>6. TakenOnce' BY <1>6 DEF IInv, Claim, TypeOK, TakenOnce
    <2>7. LiveEntryKept' BY <1>6 DEF IInv, Claim, TypeOK, LiveEntryKept, Takers
    <2>8. ExpiryInv' BY <1>6 DEF IInv, Claim, ExpiryInv
    <2>9. QED BY <2>1, <2>2, <2>3, <2>4, <2>5, <2>6, <2>7, <2>8 DEF IInv
  <1>7. ASSUME NEW c \in Calls, ClaimInvalid(c) PROVE IInv'
    <2>1. TypeOK' BY <1>7 DEF IInv, ClaimInvalid, TypeOK
    <2>2. MutexInv' BY <1>7 DEF IInv, ClaimInvalid, TypeOK, MutexInv
    <2>3. OwnerInv' BY <1>7 DEF IInv, ClaimInvalid, TypeOK, OwnerInv
    <2>4. ItemsInv' BY <1>7 DEF IInv, ClaimInvalid, TypeOK, ItemsInv
    <2>5. ClaimInv' BY <1>7 DEF IInv, ClaimInvalid, TypeOK, ClaimInv
    <2>6. TakenOnce' BY <1>7 DEF IInv, ClaimInvalid, TypeOK, TakenOnce
    <2>7. LiveEntryKept' BY <1>7 DEF IInv, ClaimInvalid, TypeOK, LiveEntryKept, Takers
    <2>8. ExpiryInv' BY <1>7 DEF IInv, ClaimInvalid, ExpiryInv
    <2>9. QED BY <2>1, <2>2, <2>3, <2>4, <2>5, <2>6, <2>7, <2>8 DEF IInv
  <1>8. ASSUME NEW c \in Calls, ClaimLock(c) PROVE IInv'
    <2>1. TypeOK' BY <1>8 DEF IInv, ClaimLock, Acquire, TypeOK
    <2>2. MutexInv' BY <1>8 DEF IInv, ClaimLock, Acquire, TypeOK, MutexInv
    <2>3. OwnerInv' BY <1>8 DEF IInv, ClaimLock, Acquire, TypeOK, OwnerInv
    <2>4. ItemsInv' BY <1>8 DEF IInv, ClaimLock, Acquire, TypeOK, ItemsInv
    <2>5. ClaimInv' BY <1>8 DEF IInv, ClaimLock, Acquire, TypeOK, ClaimInv
    <2>6. TakenOnce' BY <1>8 DEF IInv, ClaimLock, Acquire, TypeOK, TakenOnce
    <2>7. LiveEntryKept' BY <1>8 DEF IInv, ClaimLock, Acquire, TypeOK, LiveEntryKept, Takers
    <2>8. ExpiryInv' BY <1>8 DEF IInv, ClaimLock, ExpiryInv
    <2>9. QED BY <2>1, <2>2, <2>3, <2>4, <2>5, <2>6, <2>7, <2>8 DEF IInv
  <1>9. ASSUME NEW c \in Calls, LookupMiss(c) PROVE IInv'
    <2>1. TypeOK' BY <1>9 DEF IInv, LookupMiss, Release, TypeOK
    <2>2. MutexInv' BY <1>9 DEF IInv, LookupMiss, Release, TypeOK, MutexInv
    <2>3. OwnerInv' BY <1>9 DEF IInv, LookupMiss, Release, TypeOK, OwnerInv
    <2>4. ItemsInv' BY <1>9 DEF IInv, LookupMiss, Release, TypeOK, ItemsInv
    <2>5. ClaimInv' BY <1>9 DEF IInv, LookupMiss, Release, TypeOK, ClaimInv
    <2>6. TakenOnce' BY <1>9 DEF IInv, LookupMiss, Release, TypeOK, TakenOnce
    <2>7. LiveEntryKept' BY <1>9 DEF IInv, LookupMiss, Release, TypeOK, LiveEntryKept, Takers
    <2>8. ExpiryInv' BY <1>9 DEF IInv, LookupMiss, ExpiryInv
    <2>9. QED BY <2>1, <2>2, <2>3, <2>4, <2>5, <2>6, <2>7, <2>8 DEF IInv
  \* LookupHit: the looked-up entry is in the map, hence one that a create returned.
  <1>10. ASSUME NEW c \in Calls, LookupHit(c) PROVE IInv'
    <2>1. TypeOK' BY <1>10 DEF IInv, LookupHit, TypeOK, ClaimInv
    <2>2. MutexInv' BY <1>10 DEF IInv, LookupHit, TypeOK, MutexInv
    <2>3. OwnerInv' BY <1>10 DEF IInv, LookupHit, TypeOK, OwnerInv
    <2>4. ItemsInv' BY <1>10 DEF IInv, LookupHit, TypeOK, ItemsInv
    <2>5. ClaimInv' BY <1>10 DEF IInv, LookupHit, TypeOK, ClaimInv
    <2>6. TakenOnce' BY <1>10 DEF IInv, LookupHit, TypeOK, TakenOnce
    <2>7. LiveEntryKept' BY <1>10 DEF IInv, LookupHit, TypeOK, LiveEntryKept, Takers
    <2>8. ExpiryInv' BY <1>10 DEF IInv, LookupHit, ExpiryInv
    <2>9. QED BY <2>1, <2>2, <2>3, <2>4, <2>5, <2>6, <2>7, <2>8 DEF IInv
  \* Delete: the entry was still there, so no other claim has taken it.
  <1>11. ASSUME NEW c \in Calls, Delete(c) PROVE IInv'
    <2>1. TypeOK' BY <1>11 DEF IInv, Delete, TypeOK
    <2>2. MutexInv' BY <1>11 DEF IInv, Delete, TypeOK, MutexInv
    <2>3. OwnerInv' BY <1>11 DEF IInv, Delete, TypeOK, OwnerInv
    <2>4. ItemsInv' BY <1>11 DEF IInv, Delete, TypeOK, ItemsInv
    <2>5. ClaimInv'
      <3>1. /\ loc[c].id \in ID /\ items[loc[c].id] # NoEntry
            /\ StagedBy(loc[c].id, loc[c].entry) /\ loc[c].entry # NoEntry
        BY <1>11 DEF IInv, Delete, ClaimInv, ItemsInv
      <3>2. \A d \in Calls : pc[d] = "claim.delete" => d = c
        BY <1>11 DEF IInv, Delete, MutexInv
      <3>3. \A d \in Calls : pc'[d] = IF d = c THEN "claim.check" ELSE pc[d]
        BY <1>11 DEF IInv, TypeOK, Delete
      <3>4. \A i \in ID : items'[i] = IF i = loc[c].id THEN NoEntry ELSE items[i]
        BY <1>11 DEF IInv, TypeOK, Delete
      <3>5. QED
        BY <1>11, <3>1, <3>2, <3>3, <3>4 DEF IInv, Delete, ClaimInv
    <2>6. TakenOnce' BY <1>11 DEF IInv, Delete, TypeOK, ClaimInv, TakenOnce
    <2>7. LiveEntryKept' BY <1>11 DEF IInv, Delete, TypeOK, LiveEntryKept, Takers
    <2>8. ExpiryInv' BY <1>11 DEF IInv, Delete, ExpiryInv
    <2>9. QED BY <2>1, <2>2, <2>3, <2>4, <2>5, <2>6, <2>7, <2>8 DEF IInv
  <1>12. ASSUME NEW c \in Calls, Check(c) PROVE IInv'
    <2>1. TypeOK' BY <1>12 DEF IInv, Check, Release, TypeOK
    <2>2. MutexInv' BY <1>12 DEF IInv, Check, Release, TypeOK, MutexInv
    <2>3. OwnerInv' BY <1>12 DEF IInv, Check, Release, TypeOK, OwnerInv
    <2>4. ItemsInv' BY <1>12 DEF IInv, Check, Release, TypeOK, ItemsInv
    <2>5. ClaimInv' BY <1>12 DEF IInv, Check, Release, TypeOK, ClaimInv
    <2>6. TakenOnce' BY <1>12 DEF IInv, Check, Release, TypeOK, TakenOnce
    <2>7. LiveEntryKept' BY <1>12 DEF IInv, Check, Release, TypeOK, LiveEntryKept, Takers, Lapsed
    <2>8. ExpiryInv' BY <1>12 DEF IInv, Check, ExpiryInv
    <2>9. QED BY <2>1, <2>2, <2>3, <2>4, <2>5, <2>6, <2>7, <2>8 DEF IInv
  \* Tick: time only shrinks the set of live entries.
  <1>13. ASSUME Tick PROVE IInv'
    <2>1. TypeOK' BY <1>13 DEF IInv, Tick, TypeOK
    <2>2. MutexInv' BY <1>13 DEF IInv, Tick, TypeOK, MutexInv
    <2>3. OwnerInv' BY <1>13 DEF IInv, Tick, TypeOK, OwnerInv
    <2>4. ItemsInv' BY <1>13 DEF IInv, Tick, TypeOK, ItemsInv
    <2>5. ClaimInv' BY <1>13 DEF IInv, Tick, TypeOK, ClaimInv
    <2>6. TakenOnce' BY <1>13 DEF IInv, Tick, TypeOK, TakenOnce
    <2>7. LiveEntryKept' BY <1>13 DEF IInv, Tick, TypeOK, Entry, OwnerInv, LiveEntryKept, Takers
    <2>8. ExpiryInv' BY <1>13, TTLNat DEF IInv, Tick, TypeOK, Entry, ExpiryInv
    <2>9. QED BY <2>1, <2>2, <2>3, <2>4, <2>5, <2>6, <2>7, <2>8 DEF IInv
  <1>14. CASE UNCHANGED vars
    BY <1>14 DEF vars, IInv, TypeOK, MutexInv, OwnerInv, ItemsInv, ClaimInv, TakenOnce,
                 LiveEntryKept, Takers, ExpiryInv
  <1>15. QED
    BY <1>1, <1>2, <1>3, <1>4, <1>5, <1>6, <1>7, <1>8, <1>9, <1>10, <1>11, <1>12, <1>13, <1>14
    DEF Next, Step, Quiescent

\* The inductive invariant holds throughout.
THEOREM Invariance == Spec => []IInv
  <1>1. Init => IInv
    BY InitInv
  <1>2. IInv /\ [Next]_vars => IInv'
    BY StepInv
  <1>3. QED
    BY <1>1, <1>2, PTL DEF Spec

\* The store's variables keep their types.
THEOREM TypeCorrect == Spec => []TypeOK
  <1>1. IInv => TypeOK
    BY DEF IInv
  <1>2. QED
    BY <1>1, Invariance, PTL

\* A confirmation id is single-use: two claims of one id never both succeed,
\* however the steps of any number of calls interleave.
THEOREM SingleUse == Spec => []GrantOnce
  <1>1. IInv => GrantOnce
    BY DEF IInv, TakenOnce, GrantOnce
  <1>2. QED
    BY <1>1, Invariance, PTL

\* A successful claim hands out exactly the entry that the request which
\* returned the id froze.
THEOREM ExactPayload == Spec => []GrantExact
  <1>1. IInv => GrantExact
    BY DEF IInv, ClaimInv, StagedBy, GrantExact
  <1>2. QED
    BY <1>1, Invariance, PTL

\* A staged write stays confirmable until it expires or is confirmed: neither
\* the purge of later requests nor claims of other ids remove it.
THEOREM StagedUntilExpiry == Spec => []LiveEntryKept
  <1>1. IInv => LiveEntryKept
    BY DEF IInv
  <1>2. QED
    BY <1>1, Invariance, PTL

\* No claim succeeds at or after the expiry the client was told.
THEOREM InTime == Spec => GrantBeforeExpiry
  <1> DEFINE InTimeStep ==
        \A c \in Calls : pc[c] # "granted" /\ pc'[c] = "granted" =>
            now < frozen[loc[c].id].expiresAt
  <1>1. IInv /\ [Next]_vars => [InTimeStep]_vars
    <2> SUFFICES ASSUME IInv, Next, NEW c \in Calls, pc[c] # "granted", pc'[c] = "granted"
                 PROVE  now < frozen[loc[c].id].expiresAt
      OBVIOUS
    <2>1. Check(c)
      BY DEF Next, Step, IInv, TypeOK, Goto, Create, CreateFail, CreateLock, Purge, Insert,
             Claim, ClaimInvalid, ClaimLock, LookupMiss, LookupHit, Delete, Check, Tick,
             Quiescent, vars
    <2>2. now < loc[c].entry.expiresAt
      BY <2>1 DEF Check, Goto, Lapsed, IInv, TypeOK, ClaimInv, Entry
    <2>3. loc[c].entry = frozen[loc[c].id]
      BY <2>1 DEF Check, IInv, ClaimInv, OwnerInv, StagedBy
    <2>4. QED
      BY <2>2, <2>3
  <1>2. QED
    BY <1>1, Invariance, PTL DEF Spec, GrantBeforeExpiry
-----------------------------------------------------------------------------
(***************************************************************************)
(* PendingStore implements TwoPhaseWrites.  Three steps of the code are    *)
(* steps of the abstract specification: Insert stages, Check begins (or    *)
(* lapses), Purge lapses.  Every other step leaves the abstract state as   *)
(* it is.                                                                  *)
(***************************************************************************)

\* A step that neither finishes a create nor decides a claim, and that keeps the
\* entries of the map (up to the hand-over from the map to the deciding claim),
\* is invisible.
LEMMA Invisible ==
  ASSUME IInv, frozen' = frozen \/ \A i \in ID : Made(i) => frozen'[i] = frozen[i],
         \A i \in ID : Made(i)' <=> Made(i),
         \A i \in ID : Won(i)' <=> Won(i),
         \A i \in ID : Open(i)' <=> Open(i)
  PROVE  /\ [i \in ID |-> StageOf(i)]' = [i \in ID |-> StageOf(i)]
         /\ [i \in ID |-> StagedOf(i)]' = [i \in ID |-> StagedOf(i)]
         /\ [i \in ID |-> DeadlineOf(i)]' = [i \in ID |-> DeadlineOf(i)]
  BY DEF StageOf, StagedOf, DeadlineOf

\* The initial state of the store is the initial state of the specification.
LEMMA AbstractInit == Init => Abstract!Init
  BY DEF Init, Abstract!Init, StageOf, StagedOf, DeadlineOf, Made

\* Every step is a step of the specification or invisible.
LEMMA AbstractStep == IInv /\ [Next]_vars => [Abstract!Next]_(Abstract!avars)
  <1> SUFFICES ASSUME IInv, [Next]_vars PROVE [Abstract!Next]_(Abstract!avars)
    OBVIOUS
  <1> USE DEF Goto, InCreate, InClaim, Returned, Holding
  <1>1. ASSUME NEW c \in Calls, NEW i \in ID, NEW p \in Payload, Create(c, i, p)
        PROVE  UNCHANGED Abstract!avars
    <2>1. ~Made(i)
      BY <1>1 DEF IInv, OwnerInv, Create, Made
    <2>2. \A j \in ID : Made(j) => frozen'[j] = frozen[j]
      BY <1>1, <2>1 DEF Create, IInv, TypeOK
    <2>3. \A j \in ID : (Made(j)' <=> Made(j)) /\ (Won(j)' <=> Won(j)) /\ (Open(j)' <=> Open(j))
      BY <1>1 DEF IInv, TypeOK, Create, Made, Won, Open, Deciding
    <2>4. QED
      BY <1>1, <2>2, <2>3, Invisible DEF Abstract!avars, Create
  <1>2. ASSUME NEW c \in Calls,
               \/ CreateFail(c) \/ CreateLock(c) \/ ClaimInvalid(c) \/ ClaimLock(c)
               \/ LookupMiss(c) \/ LookupHit(c) \/ Delete(c) \/ \E i \in ID : Claim(c, i)
        PROVE  UNCHANGED Abstract!avars
    <2>1. now' = now /\ frozen' = frozen
      BY <1>2 DEF CreateFail, CreateLock, ClaimInvalid, ClaimLock, LookupMiss, LookupHit, Delete,
                  Claim
    <2>2. \A j \in ID : (Made(j)' <=> Made(j)) /\ (Won(j)' <=> Won(j))
      BY <1>2 DEF IInv, TypeOK, Made, Won, CreateFail, CreateLock, ClaimInvalid, ClaimLock,
                  LookupMiss, LookupHit, Delete, Claim
    <2>3. \A j \in ID : Open(j)' <=> Open(j)
      BY <1>2 DEF IInv, TypeOK, ClaimInv, Open, Deciding, CreateFail, CreateLock, ClaimInvalid,
                  ClaimLock, LookupMiss, LookupHit, Delete, Claim
    <2>4. QED
      BY <2>1, <2>2, <2>3, Invisible DEF Abstract!avars
  <1>3. ASSUME NEW c \in Calls, Purge(c)
        PROVE  [Abstract!Next]_(Abstract!avars)
    <2> DEFINE S == {i \in ID : items[i] # NoEntry /\ Lapsed(items[i], now)}
    <2>1. \A j \in ID : (Made(j)' <=> Made(j)) /\ (Won(j)' <=> Won(j))
      BY <1>3 DEF IInv, TypeOK, Purge, Made, Won
    <2>2. \A j \in ID : ~Deciding(j) /\ ~Deciding(j)'
      BY <1>3 DEF IInv, TypeOK, MutexInv, Purge, Deciding
    <2>3. \A j \in S : Made(j) /\ ~Won(j) /\ Open(j) /\ ~Open(j)' /\ DeadlineOf(j) <= now
      BY <1>3, <2>2 DEF IInv, ItemsInv, ClaimInv, OwnerInv, StagedBy, Purge, Made, Won, Open,
                        DeadlineOf, Lapsed
    <2>4. \A j \in ID \ S : Open(j)' <=> Open(j)
      BY <1>3, <2>2 DEF Purge, Open
    <2>5. [i \in ID |-> StageOf(i)]' = [i \in ID |-> IF i \in S THEN "void" ELSE StageOf(i)]
      BY <2>1, <2>3, <2>4 DEF StageOf
    <2>6. \A j \in S : StageOf(j) = "staged"
      BY <2>3 DEF StageOf
    <2>7. /\ now' = now
          /\ [i \in ID |-> StagedOf(i)]' = [i \in ID |-> StagedOf(i)]
          /\ [i \in ID |-> DeadlineOf(i)]' = [i \in ID |-> DeadlineOf(i)]
      BY <1>3, <2>1 DEF Purge, StagedOf, DeadlineOf
    <2>8. CASE S = {}
      BY <2>5, <2>7, <2>8 DEF Abstract!avars
    <2>9. CASE S # {}
      BY <2>3, <2>5, <2>6, <2>7, <2>9 DEF Abstract!Next, Abstract!Lapse
    <2>10. QED
      BY <2>8, <2>9
  <1>4. ASSUME NEW c \in Calls, Insert(c)
        PROVE  Abstract!Next
    <2>0. PICK i \in ID : i = loc[c].id
      BY <1>4 DEF IInv, OwnerInv, Insert
    <2>1. /\ frozen[i] \in Entry
          /\ frozen[i].expiresAt <= now + ttl
      BY <1>4, <2>0 DEF IInv, TypeOK, OwnerInv, ExpiryInv, Insert
    <2>2. ~Made(i) /\ ~Won(i) /\ ~Won(i)'
      BY <1>4, <2>0 DEF IInv, TypeOK, OwnerInv, ClaimInv, StagedBy, Insert, Made, Won
    <2>3. Made(i)' /\ Open(i)'
      BY <1>4, <2>0, <2>1 DEF IInv, TypeOK, OwnerInv, Insert, Made, Open
    <2>4. \A j \in ID \ {i} : (Made(j)' <=> Made(j)) /\ (Won(j)' <=> Won(j)) /\ (Open(j)' <=> Open(j))
      BY <1>4, <2>0 DEF IInv, TypeOK, Insert, Made, Won, Open, Deciding
    <2>5. /\ StageOf(i) = "unused"
          /\ [k \in ID |-> StageOf(k)]' = [[k \in ID |-> StageOf(k)] EXCEPT ![i] = "staged"]
      BY <2>1, <2>2, <2>3, <2>4 DEF StageOf
    <2>6. /\ now' = now
          /\ [k \in ID |-> StagedOf(k)]' = [[k \in ID |-> StagedOf(k)] EXCEPT ![i] = frozen[i].payload]
          /\ [k \in ID |-> DeadlineOf(k)]' =
               [[k \in ID |-> DeadlineOf(k)] EXCEPT ![i] = frozen[i].expiresAt]
      BY <1>4, <2>0, <2>1, <2>3, <2>4 DEF StagedOf, DeadlineOf, Insert
    <2>7. frozen[i].payload \in Payload /\ frozen[i].expiresAt \in 0 .. now + ttl
      BY <2>1, TTLNat DEF Entry, IInv, TypeOK
    <2>8. QED
      BY <2>1, <2>5, <2>6, <2>7 DEF Abstract!Next, Abstract!Stage
  <1>5. ASSUME NEW c \in Calls, Check(c)
        PROVE  Abstract!Next
    <2>0. PICK i \in ID : i = loc[c].id
      BY <1>5 DEF IInv, ClaimInv, Check
    <2>1. /\ items[i] = NoEntry /\ loc[c].entry \in Entry
          /\ loc[c].entry = frozen[i] /\ Made(i) /\ Deciding(i)
      BY <1>5, <2>0 DEF IInv, TypeOK, ClaimInv, OwnerInv, StagedBy, Check, Made, Deciding
    <2>2. ~Won(i) /\ ~Deciding(i)'
      BY <1>5, <2>0 DEF IInv, TypeOK, TakenOnce, Check, Won, Deciding
    <2>3. \A j \in ID : Made(j)' <=> Made(j)
      BY <1>5, <2>0 DEF IInv, TypeOK, Check, Made
    <2>4. \A j \in ID \ {i} : (Won(j)' <=> Won(j)) /\ (Open(j)' <=> Open(j))
      BY <1>5, <2>0 DEF IInv, TypeOK, Check, Won, Open, Deciding
    <2>5. StageOf(i) = "staged" /\ DeadlineOf(i) = frozen[i].expiresAt /\ ~Open(i)'
      BY <1>5, <2>0, <2>1, <2>2 DEF StageOf, DeadlineOf, Open, Check
    <2>6. /\ now' = now
          /\ [k \in ID |-> StagedOf(k)]' = [k \in ID |-> StagedOf(k)]
          /\ [k \in ID |-> DeadlineOf(k)]' = [k \in ID |-> DeadlineOf(k)]
      BY <1>5, <2>3 DEF StagedOf, DeadlineOf, Check
    <2>7. CASE Lapsed(loc[c].entry, now)
      <3>1. ~Won(i)'
        BY <1>5, <2>0, <2>2, <2>7 DEF IInv, TypeOK, Check, Won
      <3>2. [k \in ID |-> StageOf(k)]' = [k \in ID |-> IF k \in {i} THEN "void" ELSE StageOf(k)]
        BY <2>1, <2>3, <2>4, <2>5, <3>1 DEF StageOf
      <3>3. {i} \in SUBSET {k \in ID : StageOf(k) = "staged" /\ DeadlineOf(k) <= now}
        BY <2>1, <2>5, <2>7 DEF Lapsed
      <3>4. QED
        BY <2>6, <3>2, <3>3 DEF Abstract!Next, Abstract!Lapse
    <2>8. CASE ~Lapsed(loc[c].entry, now)
      <3>1. Won(i)'
        BY <1>5, <2>0, <2>8 DEF IInv, TypeOK, Check, Won
      <3>2. [k \in ID |-> StageOf(k)]' = [[k \in ID |-> StageOf(k)] EXCEPT ![i] = "running"]
        BY <2>1, <2>3, <2>4, <3>1 DEF StageOf
      <3>3. now < DeadlineOf(i)
        BY <2>1, <2>5, <2>8 DEF Lapsed, Entry, IInv, TypeOK
      <3>4. QED
        BY <2>1, <2>5, <2>6, <3>2, <3>3 DEF Abstract!Next, Abstract!Begin
    <2>9. QED
      BY <2>7, <2>8
  <1>6. CASE Tick
    <2>1. \A j \in ID : (Made(j)' <=> Made(j)) /\ (Won(j)' <=> Won(j)) /\ (Open(j)' <=> Open(j))
      BY <1>6 DEF Tick, Made, Won, Open, Deciding
    <2>2. QED
      BY <1>6, <2>1, Invisible DEF Tick, Abstract!Next, Abstract!Tick
  <1>7. CASE UNCHANGED vars
    <2>1. \A j \in ID : (Made(j)' <=> Made(j)) /\ (Won(j)' <=> Won(j)) /\ (Open(j)' <=> Open(j))
      BY <1>7 DEF vars, Made, Won, Open, Deciding
    <2>2. QED
      BY <1>7, <2>1, Invisible DEF vars, Abstract!avars
  <1>8. QED
    BY <1>1, <1>2, <1>3, <1>4, <1>5, <1>6, <1>7 DEF Next, Step, Quiescent

\* The store implements the two-phase promise: nothing begins unstaged, twice or
\* late, and nothing staged disappears before its deadline.
THEOREM ImplementsTwoPhaseWrites == Spec => ImplementsTwoPhase
  <1>1. Init => Abstract!Init
    BY AbstractInit
  <1>2. IInv /\ [Next]_vars => [Abstract!Next]_(Abstract!avars)
    BY AbstractStep
  <1>3. QED
    BY <1>1, <1>2, Invariance, PTL DEF Spec, ImplementsTwoPhase, Abstract!Spec
=============================================================================
