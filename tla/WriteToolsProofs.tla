--------------------------- MODULE WriteToolsProofs ---------------------------
(***************************************************************************)
(* Proofs about WriteTools: for any number of calls, ids, payloads and     *)
(* restarts, a confirmation executes a write at most once, and the one     *)
(* that was asked for.                                                     *)
(*                                                                         *)
(* The invariant of the store alone (PendingStore!IInv) does not survive   *)
(* a restart, which frees the mutex and empties the map while the places   *)
(* of the dead calls stay where they were.  What survives it is ToolsInv:  *)
(* only a live call can hold the mutex (LockInv) or act on what it looked  *)
(* up (ClaimInv), and an entry that was taken is never in the map again,   *)
(* in this process or a later one, because its id has an owner that has    *)
(* already inserted it (OwnerInv).                                         *)
(***************************************************************************)
EXTENDS WriteTools, TLAPS

InStore(c) == tool[c] \in {"request", "confirm"}

Taken == {"claim.check", "expired", "granted"}

\* The mutex is held by the live call that is between Lock and Unlock, if any.
LockInv == \A c \in Calls : InStore(c) /\ pc[c] \in Store!Holding <=> mu = c

\* A create owns its id, dead or alive, and stages what its tool was asked for.
OwnerInv ==
    /\ \A c \in Calls : pc[c] \in Store!InCreate \cup {"staged"} =>
          /\ loc[c].id \in ID
          /\ loc[c].entry # NoEntry
          /\ loc[c].entry = frozen[loc[c].id]
          /\ loc[c].entry.payload = asked[c]
    /\ \A c, d \in Calls :
          /\ pc[c] \in Store!InCreate \cup {"staged"}
          /\ pc[d] \in Store!InCreate \cup {"staged"}
          /\ loc[c].id = loc[d].id
          => c = d

ItemsInv == \A i \in ID : items[i] # NoEntry => Store!StagedBy(i, items[i])

\* A live claim holds the entry of its id; what was taken stays out of the map.
ClaimInv ==
    \A c \in Calls :
        /\ pc[c] \in Store!InClaim => loc[c].id \in ID
        /\ InStore(c) /\ pc[c] = "claim.delete" =>
              items[loc[c].id] # NoEntry /\ items[loc[c].id] = loc[c].entry
        /\ pc[c] \in Taken =>
              /\ loc[c].id \in ID
              /\ loc[c].entry # NoEntry
              /\ items[loc[c].id] = NoEntry
              /\ Store!StagedBy(loc[c].id, loc[c].entry)

\* No two claims, of any processes, take one entry.
TakenOnce ==
    \A c, d \in Calls :
        pc[c] \in Taken /\ pc[d] \in Taken /\ loc[c].id = loc[d].id => c = d

\* What this process has staged is in its map until it lapses or is taken.
LiveInv ==
    /\ \A i \in ID : epoch.born[i] <= epoch.now
    /\ \A c \in Calls :
          /\ pc[c] = "staged"
          /\ now < loc[c].entry.expiresAt
          /\ epoch.born[loc[c].id] = epoch.now
          /\ Store!Takers(loc[c].id) = {}
          => items[loc[c].id] = loc[c].entry

\* Where the tool is and where its call of the store is.
PlaceInv ==
    \A c \in Calls :
        /\ tool[c] = "idle" => pc[c] = "idle"
        /\ tool[c] = "request" => pc[c] \in Store!InCreate \cup {"staged"}
        /\ tool[c] = "confirm" => pc[c] \in Store!InClaim \cup {"unknown", "expired", "granted"}
        /\ tool[c] = "executing" => pc[c] = "granted"
        /\ reply[c] = "pending" => pc[c] = "staged"

\* An execution is that of a call that was granted the id, and has gone on since.
RanInv ==
    \A x \in ran :
        /\ pc[x.call] = "granted" /\ tool[x.call] # "confirm"
        /\ x.id = loc[x.call].id
        /\ x.payload = loc[x.call].entry.payload
        /\ x.method = MethodOf(x.payload.kind)

ToolsInv ==
    /\ TypeOK /\ LockInv /\ OwnerInv /\ ItemsInv /\ ClaimInv
    /\ TakenOnce /\ LiveInv /\ PlaceInv /\ RanInv
-----------------------------------------------------------------------------
\* The TTL in force is positive, whatever was configured.
LEMMA TTLNat == Store!ttl \in Nat \ {0}
BY ToolAssumption DEF Store!ttl

\* The initial states satisfy the invariant.
LEMMA ToolsInit == Init => ToolsInv
BY ToolAssumption
DEF Init, Store!Init, ToolsInv, TypeOK, Store!TypeOK, LockInv, OwnerInv, ItemsInv, ClaimInv,
    TakenOnce, LiveInv, PlaceInv, RanInv, InStore, Taken, Store!Holding, Store!InCreate,
    Store!InClaim, Store!Takers

\* The steps of a tool outside the store: the mutex is another call's, if anyone's.
LEMMA OutsideKeeps ==
    ASSUME ToolsInv, NEW c \in Calls, UNCHANGED <<storeVars, writer, asked, epoch>>,
           NEW t \in {"executing", "returned"}, tool' = [tool EXCEPT ![c] = t],
           pc[c] \notin Store!Holding
    PROVE  /\ LockInv' /\ OwnerInv' /\ ItemsInv' /\ ClaimInv' /\ TakenOnce' /\ LiveInv'
           /\ Store!TypeOK' /\ writer' \in BOOLEAN
           /\ tool' \in [Calls -> {"idle", "request", "confirm", "executing", "returned", "dead"}]
           /\ asked' \in [Calls -> Payload \cup {NotAsked}]
           /\ epoch' \in [now : Nat, born : [ID -> Nat]]
<1> USE DEF ToolsInv, TypeOK, storeVars
<1>1. LockInv' BY DEF LockInv, InStore
<1>2. OwnerInv' BY DEF OwnerInv
<1>3. ItemsInv' BY DEF ItemsInv, Store!StagedBy
<1>4. ClaimInv' BY DEF ClaimInv, InStore, Store!StagedBy
<1>5. TakenOnce' BY DEF TakenOnce
<1>6. LiveInv' BY DEF LiveInv, Store!Takers
<1>. QED BY <1>1, <1>2, <1>3, <1>4, <1>5, <1>6 DEF Store!TypeOK

\* The steps of a call inside the store.
LEMMA StoreStepKeeps ==
    ASSUME ToolsInv, NEW c \in Calls, StoreStep(c)
    PROVE  ToolsInv'
<1> USE ToolAssumption DEF ToolsInv, TypeOK, Store!TypeOK, Store!Goto, Store!InCreate, Store!InClaim,
                           Store!Returned, Store!Holding
<1>0. /\ tool[c] \in {"request", "confirm"} /\ Store!Step(c)
      /\ UNCHANGED <<writer, tool, reply, asked, ran, epoch>>
      BY DEF StoreStep
\* The mutex was free, so no live call is between Lock and Unlock.
<1>1. ASSUME Store!CreateLock(c) PROVE ToolsInv'
  <2>1. TypeOK' BY <1>0, <1>1 DEF Store!CreateLock, Store!Acquire
  <2>2. LockInv' BY <1>0, <1>1 DEF Store!CreateLock, Store!Acquire, LockInv, InStore
  <2>3. OwnerInv' BY <1>0, <1>1 DEF Store!CreateLock, Store!Acquire, OwnerInv
  <2>4. ItemsInv' BY <1>0, <1>1 DEF Store!CreateLock, Store!Acquire, ItemsInv, Store!StagedBy
  <2>5. ClaimInv' BY <1>0, <1>1 DEF Store!CreateLock, Store!Acquire, ClaimInv, InStore, Taken, Store!StagedBy
  <2>6. TakenOnce' BY <1>0, <1>1 DEF Store!CreateLock, Store!Acquire, TakenOnce, Taken
  <2>7. LiveInv' BY <1>0, <1>1 DEF Store!CreateLock, Store!Acquire, LiveInv, Store!Takers
  <2>8. PlaceInv' BY <1>0, <1>1 DEF Store!CreateLock, Store!Acquire, PlaceInv
  <2>9. RanInv' BY <1>0, <1>1 DEF Store!CreateLock, Store!Acquire, RanInv
  <2>. QED BY <2>1, <2>2, <2>3, <2>4, <2>5, <2>6, <2>7, <2>8, <2>9
\* Only entries that have lapsed go, and no live claim is between its lookup and its delete.
<1>2. ASSUME Store!Purge(c) PROVE ToolsInv'
  <2>1. TypeOK' BY <1>0, <1>2 DEF Store!Purge, Store!Entry
  <2>2. LockInv' BY <1>0, <1>2 DEF Store!Purge, LockInv, InStore
  <2>3. OwnerInv' BY <1>0, <1>2 DEF Store!Purge, OwnerInv
  <2>4. ItemsInv' BY <1>0, <1>2 DEF Store!Purge, ItemsInv, Store!StagedBy
  <2>5. ClaimInv' BY <1>0, <1>2 DEF Store!Purge, ClaimInv, InStore, Taken, Store!StagedBy, LockInv
  <2>6. TakenOnce' BY <1>0, <1>2 DEF Store!Purge, TakenOnce, Taken
  <2>7. LiveInv'
    <3>1. \A i : Store!Takers(i)' = Store!Takers(i) BY <1>2 DEF Store!Purge, Store!Takers
    <3>2. \A d \in Calls : pc'[d] = "staged" => pc[d] = "staged" /\ loc[d].id \in ID
          BY <1>2 DEF Store!Purge, OwnerInv
    <3>3. \A i \in ID : items[i] # NoEntry /\ now < items[i].expiresAt => items'[i] = items[i]
          BY <1>2 DEF Store!Purge, Store!Lapsed, Store!Entry
    <3>4. \A d \in Calls : pc[d] = "staged" => loc[d].entry # NoEntry BY DEF OwnerInv
    <3>. QED BY <1>0, <1>2, <3>1, <3>2, <3>3, <3>4 DEF LiveInv, Store!Purge
  <2>8. PlaceInv' BY <1>0, <1>2 DEF Store!Purge, PlaceInv
  <2>9. RanInv' BY <1>0, <1>2 DEF Store!Purge, RanInv
  <2>. QED BY <2>1, <2>2, <2>3, <2>4, <2>5, <2>6, <2>7, <2>8, <2>9
\* The id is this call's own: no claim has taken it yet.
<1>3. ASSUME Store!Insert(c) PROVE ToolsInv'
  <2>1. TypeOK' BY <1>0, <1>3 DEF Store!Insert, Store!Release, OwnerInv
  <2>2. LockInv' BY <1>0, <1>3 DEF Store!Insert, Store!Release, LockInv, InStore
  <2>3. OwnerInv' BY <1>0, <1>3 DEF Store!Insert, Store!Release, OwnerInv
  <2>4. ItemsInv' BY <1>0, <1>3 DEF Store!Insert, Store!Release, ItemsInv, Store!StagedBy, OwnerInv
  <2>5. ClaimInv' BY <1>0, <1>3 DEF Store!Insert, Store!Release, ClaimInv, InStore, Taken, Store!StagedBy, OwnerInv, LockInv
  <2>6. TakenOnce' BY <1>0, <1>3 DEF Store!Insert, Store!Release, TakenOnce, Taken
  <2>7. LiveInv'
    <3>1. \A i : Store!Takers(i)' = Store!Takers(i) BY <1>3 DEF Store!Insert, Store!Takers
    <3>2. \A d \in Calls : pc'[d] = "staged" =>
              /\ loc[d].id \in ID
              /\ \/ d = c
                 \/ pc[d] = "staged" /\ loc[d].id # loc[c].id
          BY <1>3 DEF Store!Insert, OwnerInv
    <3>3. loc[c].id \in ID BY <1>3 DEF Store!Insert, OwnerInv
    <3>4. items' = [items EXCEPT ![loc[c].id] = loc[c].entry] /\ UNCHANGED <<now, loc>>
          BY <1>3 DEF Store!Insert
    <3>. QED BY <1>0, <3>1, <3>2, <3>3, <3>4 DEF LiveInv
  <2>8. PlaceInv' BY <1>0, <1>3 DEF Store!Insert, Store!Release, PlaceInv
  <2>9. RanInv' BY <1>0, <1>3 DEF Store!Insert, Store!Release, RanInv
  <2>. QED BY <2>1, <2>2, <2>3, <2>4, <2>5, <2>6, <2>7, <2>8, <2>9
<1>4. ASSUME Store!ClaimLock(c) PROVE ToolsInv'
  <2>1. TypeOK' BY <1>0, <1>4 DEF Store!ClaimLock, Store!Acquire
  <2>2. LockInv' BY <1>0, <1>4 DEF Store!ClaimLock, Store!Acquire, LockInv, InStore
  <2>3. OwnerInv' BY <1>0, <1>4 DEF Store!ClaimLock, Store!Acquire, OwnerInv
  <2>4. ItemsInv' BY <1>0, <1>4 DEF Store!ClaimLock, Store!Acquire, ItemsInv, Store!StagedBy
  <2>5. ClaimInv' BY <1>0, <1>4 DEF Store!ClaimLock, Store!Acquire, ClaimInv, InStore, Taken, Store!StagedBy
  <2>6. TakenOnce' BY <1>0, <1>4 DEF Store!ClaimLock, Store!Acquire, TakenOnce, Taken
  <2>7. LiveInv' BY <1>0, <1>4 DEF Store!ClaimLock, Store!Acquire, LiveInv, Store!Takers
  <2>8. PlaceInv' BY <1>0, <1>4 DEF Store!ClaimLock, Store!Acquire, PlaceInv
  <2>9. RanInv' BY <1>0, <1>4 DEF Store!ClaimLock, Store!Acquire, RanInv
  <2>. QED BY <2>1, <2>2, <2>3, <2>4, <2>5, <2>6, <2>7, <2>8, <2>9
<1>5. ASSUME Store!LookupMiss(c) PROVE ToolsInv'
  <2>1. TypeOK' BY <1>0, <1>5 DEF Store!LookupMiss, Store!Release
  <2>2. LockInv' BY <1>0, <1>5 DEF Store!LookupMiss, Store!Release, LockInv, InStore
  <2>3. OwnerInv' BY <1>0, <1>5 DEF Store!LookupMiss, Store!Release, OwnerInv
  <2>4. ItemsInv' BY <1>0, <1>5 DEF Store!LookupMiss, Store!Release, ItemsInv, Store!StagedBy
  <2>5. ClaimInv' BY <1>0, <1>5 DEF Store!LookupMiss, Store!Release, ClaimInv, InStore, Taken, Store!StagedBy
  <2>6. TakenOnce' BY <1>0, <1>5 DEF Store!LookupMiss, Store!Release, TakenOnce, Taken
  <2>7. LiveInv' BY <1>0, <1>5 DEF Store!LookupMiss, Store!Release, LiveInv, Store!Takers
  <2>8. PlaceInv' BY <1>0, <1>5 DEF Store!LookupMiss, Store!Release, PlaceInv
  <2>9. RanInv' BY <1>0, <1>5 DEF Store!LookupMiss, Store!Release, RanInv
  <2>. QED BY <2>1, <2>2, <2>3, <2>4, <2>5, <2>6, <2>7, <2>8, <2>9
\* What is looked up was in the map, hence staged by a create that has returned.
<1>6. ASSUME Store!LookupHit(c) PROVE ToolsInv'
  <2>1. TypeOK' BY <1>0, <1>6 DEF Store!LookupHit, ClaimInv
  <2>2. LockInv' BY <1>0, <1>6 DEF Store!LookupHit, LockInv, InStore
  <2>3. OwnerInv' BY <1>0, <1>6 DEF Store!LookupHit, OwnerInv
  <2>4. ItemsInv' BY <1>0, <1>6 DEF Store!LookupHit, ItemsInv, Store!StagedBy
  <2>5. ClaimInv' BY <1>0, <1>6 DEF Store!LookupHit, ClaimInv, InStore, Taken, Store!StagedBy
  <2>6. TakenOnce' BY <1>0, <1>6 DEF Store!LookupHit, TakenOnce, Taken
  <2>7. LiveInv' BY <1>0, <1>6 DEF Store!LookupHit, LiveInv, Store!Takers
  <2>8. PlaceInv' BY <1>0, <1>6 DEF Store!LookupHit, PlaceInv
  <2>9. RanInv' BY <1>0, <1>6 DEF Store!LookupHit, RanInv
  <2>. QED BY <2>1, <2>2, <2>3, <2>4, <2>5, <2>6, <2>7, <2>8, <2>9
\* The entry was still in the map, so no other claim has taken it.
<1>7. ASSUME Store!Delete(c) PROVE ToolsInv'
  <2>1. TypeOK' BY <1>0, <1>7 DEF Store!Delete, ClaimInv
  <2>2. LockInv' BY <1>0, <1>7 DEF Store!Delete, LockInv, InStore
  <2>3. OwnerInv' BY <1>0, <1>7 DEF Store!Delete, OwnerInv
  <2>4. ItemsInv' BY <1>0, <1>7 DEF Store!Delete, ItemsInv, Store!StagedBy
  <2>5. ClaimInv'
    <3>1. /\ loc[c].id \in ID /\ loc[c].entry # NoEntry
          /\ Store!StagedBy(loc[c].id, loc[c].entry)
          BY <1>0, <1>7 DEF Store!Delete, ClaimInv, InStore, ItemsInv
    <3>2. \A d \in Calls : InStore(d) /\ pc[d] = "claim.delete" => d = c
          BY <1>0, <1>7 DEF Store!Delete, LockInv, InStore
    <3>3. \A d \in Calls : pc'[d] = IF d = c THEN "claim.check" ELSE pc[d]
          BY <1>7 DEF Store!Delete
    <3>4. \A i \in ID : items'[i] = IF i = loc[c].id THEN NoEntry ELSE items[i]
          BY <1>7 DEF Store!Delete
    <3>5. \A i, e : Store!StagedBy(i, e) => Store!StagedBy(i, e)'
          BY <1>7 DEF Store!Delete, Store!StagedBy
    <3>. QED BY <1>0, <1>7, <3>1, <3>2, <3>3, <3>4, <3>5 DEF Store!Delete, ClaimInv, InStore, Taken
  <2>6. TakenOnce' BY <1>0, <1>7 DEF Store!Delete, ClaimInv, InStore, TakenOnce, Taken
  <2>7. LiveInv' BY <1>0, <1>7 DEF Store!Delete, LiveInv, Store!Takers
  <2>8. PlaceInv' BY <1>0, <1>7 DEF Store!Delete, PlaceInv
  <2>9. RanInv' BY <1>0, <1>7 DEF Store!Delete, RanInv
  <2>. QED BY <2>1, <2>2, <2>3, <2>4, <2>5, <2>6, <2>7, <2>8, <2>9
<1>8. ASSUME Store!Check(c) PROVE ToolsInv'
  <2>1. TypeOK' BY <1>0, <1>8 DEF Store!Check, Store!Release
  <2>2. LockInv' BY <1>0, <1>8 DEF Store!Check, Store!Release, LockInv, InStore
  <2>3. OwnerInv' BY <1>0, <1>8 DEF Store!Check, Store!Release, OwnerInv
  <2>4. ItemsInv' BY <1>0, <1>8 DEF Store!Check, Store!Release, ItemsInv, Store!StagedBy
  <2>5. ClaimInv' BY <1>0, <1>8 DEF Store!Check, Store!Release, ClaimInv, InStore, Taken, Store!StagedBy
  <2>6. TakenOnce' BY <1>0, <1>8 DEF Store!Check, Store!Release, TakenOnce, Taken
  <2>7. LiveInv' BY <1>0, <1>8 DEF Store!Check, Store!Release, LiveInv, Store!Takers
  <2>8. PlaceInv' BY <1>0, <1>8 DEF Store!Check, Store!Release, PlaceInv
  <2>9. RanInv' BY <1>0, <1>8 DEF Store!Check, Store!Release, RanInv
  <2>. QED BY <2>1, <2>2, <2>3, <2>4, <2>5, <2>6, <2>7, <2>8, <2>9
<1>. QED BY <1>0, <1>1, <1>2, <1>3, <1>4, <1>5, <1>6, <1>7, <1>8 DEF Store!Step

\* Every step keeps the invariant.
LEMMA ToolsStep ==
    ASSUME ToolsInv, [Next]_vars
    PROVE  ToolsInv'
<1> DEFINE Requests == \E c \in RequestCalls, i \in ID, p \in Payload : RequestTool(c, i, p)
           Confirms == \E c \in ConfirmCalls, i \in ID : ConfirmTool(c, i)
           Fails(c) == \/ RequestFailed(c) /\ Store!CreateFail(c)
                       \/ ConfirmInvalid(c) /\ Store!ClaimInvalid(c)
           Failures == \E c \in Calls : Fails(c)
           Answers == \E c \in Calls : \/ RequestRejected(c) \/ RequestReturn(c)
                                       \/ ConfirmNoWriter(c) \/ ConfirmRefused(c)
                                       \/ ConfirmReturn(c)
           Inside == \E c \in Calls : ConfirmExecute(c) \/ StoreStep(c)
<1>0. \/ Requests \/ Confirms \/ Failures \/ Answers \/ Inside
      \/ Tick \/ Restart \/ UNCHANGED vars
      BY Zenon DEF Next, Handler, Quiescent, RequestFailed, ConfirmInvalid, Calls
<1> HIDE DEF Requests, Confirms, Fails, Failures, Answers, Inside
<1> USE ToolAssumption DEF ToolsInv, TypeOK, Store!TypeOK, Store!Goto, Store!InCreate, Store!InClaim,
                           Store!Returned, Store!Holding, storeVars
\* The id that is drawn is new to every call of every process.
<1>1. ASSUME NEW c \in RequestCalls, NEW i \in ID, NEW p \in Payload, RequestTool(c, i, p)
      PROVE  ToolsInv'
  <2> USE DEF Calls
  <2>1. TypeOK' BY <1>1, TTLNat DEF RequestTool, Store!Create, Store!Entry
  <2>2. LockInv' BY <1>1 DEF RequestTool, Store!Create, LockInv, InStore
  <2>3. OwnerInv' BY <1>1, TTLNat DEF RequestTool, Store!Create, OwnerInv, Store!Entry
  <2>4. ItemsInv' BY <1>1 DEF RequestTool, Store!Create, ItemsInv, Store!StagedBy
  <2>5. ClaimInv' BY <1>1 DEF RequestTool, Store!Create, ClaimInv, InStore, Taken, Store!StagedBy
  <2>6. TakenOnce' BY <1>1 DEF RequestTool, Store!Create, TakenOnce, Taken
  <2>7. LiveInv'
    <3>1. \A j : Store!Takers(j)' = Store!Takers(j)
          BY <1>1 DEF RequestTool, Store!Create, Store!Takers
    <3>2. \A d \in Calls : pc'[d] = "staged" =>
              /\ pc[d] = "staged" /\ loc'[d] = loc[d]
              /\ loc[d].id \in ID /\ loc[d].id # i
          BY <1>1 DEF RequestTool, Store!Create, OwnerInv
    <3>3. epoch' = [epoch EXCEPT !.born[i] = epoch.now] /\ UNCHANGED <<now, items>>
          BY <1>1 DEF RequestTool, Store!Create
    <3>. QED BY <3>1, <3>2, <3>3 DEF LiveInv
  <2>8. PlaceInv' BY <1>1 DEF RequestTool, Store!Create, PlaceInv
  <2>9. RanInv' BY <1>1 DEF RequestTool, Store!Create, RanInv, PlaceInv
  <2>. QED BY <2>1, <2>2, <2>3, <2>4, <2>5, <2>6, <2>7, <2>8, <2>9
<1>2. ASSUME NEW c \in ConfirmCalls, NEW i \in ID, ConfirmTool(c, i)
      PROVE  ToolsInv'
  <2> USE DEF Calls
  <2>1. TypeOK' BY <1>2 DEF ConfirmTool, Store!Claim
  <2>2. LockInv' BY <1>2 DEF ConfirmTool, Store!Claim, LockInv, InStore
  <2>3. OwnerInv' BY <1>2 DEF ConfirmTool, Store!Claim, OwnerInv
  <2>4. ItemsInv' BY <1>2 DEF ConfirmTool, Store!Claim, ItemsInv, Store!StagedBy
  <2>5. ClaimInv' BY <1>2 DEF ConfirmTool, Store!Claim, ClaimInv, InStore, Taken, Store!StagedBy
  <2>6. TakenOnce' BY <1>2 DEF ConfirmTool, Store!Claim, TakenOnce, Taken
  <2>7. LiveInv' BY <1>2 DEF ConfirmTool, Store!Claim, LiveInv, Store!Takers
  <2>8. PlaceInv' BY <1>2 DEF ConfirmTool, Store!Claim, PlaceInv
  <2>9. RanInv' BY <1>2 DEF ConfirmTool, Store!Claim, RanInv, PlaceInv
  <2>. QED BY <2>1, <2>2, <2>3, <2>4, <2>5, <2>6, <2>7, <2>8, <2>9
\* The store has nothing to give, or nothing is asked of it that it could look up.
<1>3. ASSUME NEW c \in Calls, Fails(c)
      PROVE  ToolsInv'
  <2>0. /\ pc[c] = "idle" /\ \E l \in {"failed", "invalid"} : pc' = [pc EXCEPT ![c] = l]
        /\ tool[c] = "idle" /\ tool' = [tool EXCEPT ![c] = "returned"]
        /\ reply' = [reply EXCEPT ![c] = "error"]
        /\ UNCHANGED <<now, mu, items, loc, frozen, writer, asked, ran, epoch>>
        BY <1>3 DEF Fails, RequestFailed, ConfirmInvalid, Answer, Store!CreateFail, Store!ClaimInvalid
  <2>1. TypeOK' BY <2>0
  <2>2. LockInv' BY <2>0 DEF LockInv, InStore
  <2>3. OwnerInv' BY <2>0 DEF OwnerInv
  <2>4. ItemsInv' BY <2>0 DEF ItemsInv, Store!StagedBy
  <2>5. ClaimInv' BY <2>0 DEF ClaimInv, InStore, Taken, Store!StagedBy
  <2>6. TakenOnce' BY <2>0 DEF TakenOnce, Taken
  <2>7. LiveInv' BY <2>0 DEF LiveInv, Store!Takers
  <2>8. PlaceInv' BY <2>0 DEF PlaceInv
  <2>9. RanInv' BY <2>0 DEF RanInv, Executions
  <2>. QED BY <2>1, <2>2, <2>3, <2>4, <2>5, <2>6, <2>7, <2>8, <2>9
\* The call answers without the store.
<1>4. ASSUME NEW c \in Calls,
             \/ RequestRejected(c) \/ RequestReturn(c) \/ ConfirmNoWriter(c)
             \/ ConfirmRefused(c) \/ ConfirmReturn(c)
      PROVE  ToolsInv'
  <2> USE DEF RequestRejected, RequestReturn, ConfirmNoWriter, ConfirmRefused, ConfirmReturn, Answer
  <2>1. /\ pc[c] \notin Store!Holding
        /\ tool' = [tool EXCEPT ![c] = "returned"]
        /\ UNCHANGED <<storeVars, writer, asked, epoch, ran>>
        BY <1>4 DEF PlaceInv
  <2>2. PlaceInv' BY <1>4, <2>1 DEF PlaceInv
  <2>3. RanInv' BY <1>4, <2>1 DEF RanInv
  <2>4. reply' \in [Calls -> {"none", "pending", "ok", "error"}] BY <1>4
  <2>. QED BY <2>1, <2>2, <2>3, <2>4, OutsideKeeps
<1>5. ASSUME NEW c \in Calls, ConfirmExecute(c)
      PROVE  ToolsInv'
  <2> DEFINE p == loc[c].entry.payload
             x == [call |-> c, id |-> loc[c].id, method |-> MethodOf(p.kind), payload |-> p]
  <2>1. /\ pc[c] = "granted" /\ tool[c] = "confirm"
        /\ tool' = [tool EXCEPT ![c] = "executing"] /\ ran' = ran \cup {x}
        /\ UNCHANGED <<storeVars, writer, asked, epoch, reply>>
        BY <1>5 DEF ConfirmExecute
  <2>2. PlaceInv' BY <2>1 DEF PlaceInv
  <2>3. x \in Executions
    <3>1. loc[c].id \in ID /\ loc[c].entry \in Store!Entry
          BY <2>1 DEF ClaimInv, Taken
    <3>2. p \in Payload BY <3>1 DEF Store!Entry
    <3>3. MethodOf(p.kind) \in Methods BY <3>2 DEF Payload, MethodOf, Methods
    <3>. QED BY <3>1, <3>2, <3>3 DEF Executions
  <2>4. RanInv' BY <2>1 DEF RanInv
  <2>. QED BY <2>1, <2>2, <2>3, <2>4, OutsideKeeps
<1>6. ASSUME NEW c \in Calls, StoreStep(c) PROVE ToolsInv'
      BY <1>6, StoreStepKeeps
<1>7. CASE Tick
  <2>1. TypeOK' BY <1>7 DEF Tick, Store!Tick
  <2>2. LockInv' BY <1>7 DEF Tick, Store!Tick, LockInv, InStore
  <2>3. OwnerInv' BY <1>7 DEF Tick, Store!Tick, OwnerInv
  <2>4. ItemsInv' BY <1>7 DEF Tick, Store!Tick, ItemsInv, Store!StagedBy
  <2>5. ClaimInv' BY <1>7 DEF Tick, Store!Tick, ClaimInv, InStore, Taken, Store!StagedBy
  <2>6. TakenOnce' BY <1>7 DEF Tick, Store!Tick, TakenOnce, Taken
  <2>7. LiveInv' BY <1>7 DEF Tick, Store!Tick, LiveInv, Store!Takers, OwnerInv, Store!Entry
  <2>8. PlaceInv' BY <1>7 DEF Tick, Store!Tick, PlaceInv
  <2>9. RanInv' BY <1>7 DEF Tick, Store!Tick, RanInv
  <2>. QED BY <2>1, <2>2, <2>3, <2>4, <2>5, <2>6, <2>7, <2>8, <2>9
\* Nothing is live: the mutex is free, the map is empty, and what was staged is of an
\* earlier process.
<1>8. CASE Restart
  <2>1. TypeOK' BY <1>8 DEF Restart, Active
  <2>2. LockInv' BY <1>8 DEF Restart, LockInv, InStore, Active
  <2>3. OwnerInv' BY <1>8 DEF Restart, OwnerInv
  <2>4. ItemsInv' BY <1>8 DEF Restart, ItemsInv, Store!StagedBy
  <2>5. ClaimInv' BY <1>8 DEF Restart, ClaimInv, InStore, Taken, Store!StagedBy, Active
  <2>6. TakenOnce' BY <1>8 DEF Restart, TakenOnce, Taken
  <2>7. LiveInv' BY <1>8 DEF Restart, LiveInv, Store!Takers, OwnerInv
  <2>8. PlaceInv' BY <1>8 DEF Restart, PlaceInv, Active
  <2>9. RanInv' BY <1>8 DEF Restart, RanInv, Active, Executions
  <2>. QED BY <2>1, <2>2, <2>3, <2>4, <2>5, <2>6, <2>7, <2>8, <2>9
<1>9. CASE UNCHANGED vars
  <2>1. TypeOK' BY <1>9 DEF vars
  <2>2. LockInv' BY <1>9 DEF vars, LockInv, InStore
  <2>3. OwnerInv' BY <1>9 DEF vars, OwnerInv
  <2>4. ItemsInv' BY <1>9 DEF vars, ItemsInv, Store!StagedBy
  <2>5. ClaimInv' BY <1>9 DEF vars, ClaimInv, InStore, Taken, Store!StagedBy
  <2>6. TakenOnce' BY <1>9 DEF vars, TakenOnce, Taken
  <2>7. LiveInv' BY <1>9 DEF vars, LiveInv, Store!Takers
  <2>8. PlaceInv' BY <1>9 DEF vars, PlaceInv
  <2>9. RanInv' BY <1>9 DEF vars, RanInv
  <2>. QED BY <2>1, <2>2, <2>3, <2>4, <2>5, <2>6, <2>7, <2>8, <2>9
<1> HIDE DEF ToolsInv
<1>10. Requests => ToolsInv' BY <1>1 DEF Requests
<1>11. Confirms => ToolsInv' BY <1>2 DEF Confirms
<1>12. Failures => ToolsInv' BY <1>3 DEF Failures
<1>13. Answers => ToolsInv' BY <1>4 DEF Answers
<1>14. Inside => ToolsInv' BY <1>5, <1>6 DEF Inside
<1>. QED BY <1>0, <1>7, <1>8, <1>9, <1>10, <1>11, <1>12, <1>13, <1>14
-----------------------------------------------------------------------------
\* The inductive invariant holds in every process.
THEOREM ToolsInvariance == Spec => []ToolsInv
<1>1. Init => ToolsInv BY ToolsInit
<1>2. ToolsInv /\ [Next]_vars => ToolsInv' BY ToolsStep
<1>. QED BY <1>1, <1>2, PTL DEF Spec

\* For any number of calls, ids, payloads and restarts: the tools and the store keep
\* their types.
THEOREM ToolsTypes == Spec => []TypeOK
<1>1. ToolsInv => TypeOK BY DEF ToolsInv
<1>. QED BY <1>1, ToolsInvariance, PTL

\* No confirmation executes twice, however it is repeated, in whatever process.
THEOREM NeverTwice == Spec => []ExecutedOnce
<1>1. ToolsInv => ExecutedOnce
  <2> SUFFICES ASSUME ToolsInv, NEW x \in ran, NEW y \in ran, x.id = y.id PROVE x = y
    BY DEF ExecutedOnce
  <2>1. x \in Executions /\ y \in Executions BY DEF ToolsInv, TypeOK
  <2>2. x.call = y.call
        BY <2>1 DEF ToolsInv, RanInv, TakenOnce, Taken, Executions
  <2>3. x.method = y.method /\ x.payload = y.payload BY <2>2 DEF ToolsInv, RanInv
  <2>. QED BY <2>1, <2>2, <2>3 DEF Executions
<1>. QED BY <1>1, ToolsInvariance, PTL

\* What is executed is what the tool that returned the id was asked for, by its method.
THEOREM AsAsked == Spec => []ExecutedAsAsked
<1>1. ToolsInv => ExecutedAsAsked
  <2> SUFFICES ASSUME ToolsInv, NEW x \in ran
               PROVE  /\ x.method = MethodOf(x.payload.kind)
                      /\ \E d \in Calls : pc[d] = "staged" /\ loc[d].id = x.id /\ asked[d] = x.payload
    BY DEF ExecutedAsAsked
  <2>1. x.call \in Calls BY DEF ToolsInv, TypeOK, Executions
  <2>2. Store!StagedBy(loc[x.call].id, loc[x.call].entry)
        BY <2>1 DEF ToolsInv, RanInv, ClaimInv, Taken
  <2>. QED BY <2>1, <2>2 DEF ToolsInv, RanInv, Store!StagedBy, OwnerInv
<1>. QED BY <1>1, ToolsInvariance, PTL

\* An id that a client holds can be confirmed until it lapses, is confirmed or the process
\* restarts.
THEOREM HeldIsLive == Spec => []HeldIdIsLive
<1>1. ToolsInv => HeldIdIsLive BY DEF ToolsInv, PlaceInv, LiveInv, HeldIdIsLive
<1>. QED BY <1>1, ToolsInvariance, PTL

\* A write that was refused as expired never runs.
THEOREM ExpiredIsFinal == Spec => []ExpiredNeverRuns
<1>1. ToolsInv => ExpiredNeverRuns
  <2> SUFFICES ASSUME ToolsInv, NEW x \in ran, NEW c \in Calls, pc[c] = "expired", loc[c].id = x.id
               PROVE  FALSE
    BY DEF ExpiredNeverRuns
  <2>1. x.call \in Calls BY DEF ToolsInv, TypeOK, Executions
  <2>2. pc[x.call] = "granted" /\ loc[x.call].id = x.id BY DEF ToolsInv, RanInv
  <2>. QED BY <2>1, <2>2 DEF ToolsInv, TakenOnce, Taken
<1>. QED BY <1>1, ToolsInvariance, PTL
-----------------------------------------------------------------------------
(***************************************************************************)
(* The tools implement TwoPhaseWrites.  Insert stages, Check begins or     *)
(* lapses, Purge lapses, the return of an execution finishes, a restart is *)
(* a restart.  Every other step leaves the abstract state as it is.        *)
(***************************************************************************)

\* The entry is in the map, or with a live claim that has not looked at the clock yet.
Open(i) == items[i] # NoEntry \/ Deciding(i)

StagedOf(i) == IF Store!Made(i) THEN frozen[i].payload ELSE NotAsked

\* An entry expires at most one TTL from now.
LEMMA ExpiryKept ==
    ASSUME ToolsInv, Store!ExpiryInv, [Next]_vars
    PROVE  Store!ExpiryInv'
<1> USE DEF Store!ExpiryInv, ToolsInv, TypeOK, Store!TypeOK, Store!Entry
<1>1. CASE UNCHANGED <<now, frozen>>
      BY <1>1
<1>2. CASE Tick
      BY <1>2, TTLNat DEF Tick, Store!Tick
<1>3. CASE \E c \in RequestCalls, i \in ID, p \in Payload : RequestTool(c, i, p)
      BY <1>3, TTLNat DEF RequestTool, Store!Create
<1>4. UNCHANGED <<now, frozen>> \/ Tick \/ \E c \in RequestCalls, i \in ID, p \in Payload : RequestTool(c, i, p)
      BY DEF Next, vars, storeVars, Handler, Quiescent, RequestRejected, RequestFailed, Store!CreateFail,
             ConfirmTool, Store!Claim, ConfirmNoWriter, ConfirmInvalid, Store!ClaimInvalid, RequestReturn,
             ConfirmRefused, ConfirmExecute, ConfirmReturn, StoreStep, Store!Step, Store!CreateLock,
             Store!Purge, Store!Insert, Store!ClaimLock, Store!LookupMiss, Store!LookupHit, Store!Delete,
             Store!Check, Restart
<1>. QED BY <1>1, <1>2, <1>3, <1>4

\* A step that neither finishes a create, decides a claim nor ends an execution.
LEMMA Unseen ==
    ASSUME now' = now,
           \A i \in ID : Store!Made(i) => frozen'[i] = frozen[i],
           \A i \in ID : Store!Made(i)' <=> Store!Made(i),
           \A i \in ID : Store!Won(i)' <=> Store!Won(i),
           \A i \in ID : Running(i)' <=> Running(i),
           \A i \in ID : Open(i)' <=> Open(i)
    PROVE  UNCHANGED Promise!avars
<1>1. [i \in ID |-> StageOf(i)]' = [i \in ID |-> StageOf(i)]
      BY DEF StageOf, Open
<1>2. [i \in ID |-> StagedOf(i)]' = [i \in ID |-> StagedOf(i)]
      BY DEF StagedOf
<1>3. [i \in ID |-> Store!DeadlineOf(i)]' = [i \in ID |-> Store!DeadlineOf(i)]
      BY DEF Store!DeadlineOf
<1>. QED BY <1>1, <1>2, <1>3 DEF Promise!avars, StagedOf

\* The initial states map to initial states of the promise.
LEMMA PromiseInit == Init => Promise!Init
BY DEF Init, Store!Init, Promise!Init, StageOf, Store!Made, Store!DeadlineOf

\* What the invariant says of an id that was taken, is in the map or is being decided.
LEMMA PlacesOfId ==
    ASSUME ToolsInv, NEW i \in ID
    PROVE  /\ Running(i) => Store!Won(i)
           /\ Store!Won(i) => Store!Made(i) /\ items[i] = NoEntry /\ ~Deciding(i)
           /\ Deciding(i) => Store!Made(i) /\ items[i] = NoEntry
           /\ items[i] # NoEntry => Store!Made(i) /\ items[i] = frozen[i]
           /\ Store!Made(i) => frozen[i] \in Store!Entry
<1> USE DEF ToolsInv
<1>1. Running(i) => Store!Won(i) BY DEF Running, Store!Won
<1>2. ASSUME Store!Won(i) PROVE Store!Made(i) /\ items[i] = NoEntry /\ ~Deciding(i)
  <2>1. PICK c \in Calls : pc[c] = "granted" /\ loc[c].id = i BY <1>2 DEF Store!Won
  <2>. QED BY <2>1 DEF ClaimInv, Taken, TakenOnce, Store!StagedBy, Store!Made, Deciding
<1>3. ASSUME Deciding(i) PROVE Store!Made(i) /\ items[i] = NoEntry
      BY <1>3 DEF ClaimInv, Taken, Store!StagedBy, Store!Made, Deciding
<1>4. ASSUME items[i] # NoEntry PROVE Store!Made(i) /\ items[i] = frozen[i]
      BY <1>4 DEF ItemsInv, OwnerInv, Store!StagedBy, Store!Made
<1>5. ASSUME Store!Made(i) PROVE frozen[i] \in Store!Entry
      BY <1>5 DEF OwnerInv, Store!Made, TypeOK, Store!TypeOK
<1>. QED BY <1>1, <1>2, <1>3, <1>4, <1>5

\* The steps that only move a call, or the mutex, are not seen.
LEMMA HiddenSteps ==
    ASSUME ToolsInv, NEW c \in Calls,
           \/ UNCHANGED storeVars /\ tool' = [tool EXCEPT ![c] = "returned"] /\ pc[c] # "granted"
              /\ ~(pc[c] = "claim.check" /\ tool[c] = "confirm")
           \/ ConfirmExecute(c)
           \/ tool[c] = "idle" /\ Store!CreateFail(c) /\ tool' = [tool EXCEPT ![c] = "returned"]
           \/ tool[c] = "idle" /\ Store!ClaimInvalid(c) /\ tool' = [tool EXCEPT ![c] = "returned"]
           \/ \E i \in ID : ConfirmTool(c, i)
           \/ /\ StoreStep(c)
              /\ \/ Store!CreateLock(c) \/ Store!ClaimLock(c) \/ Store!LookupMiss(c)
                 \/ Store!LookupHit(c) \/ Store!Delete(c)
    PROVE  UNCHANGED Promise!avars
<1> USE DEF ToolsInv, TypeOK, Store!TypeOK, Store!Goto, ConfirmExecute, storeVars, Store!CreateFail,
            Store!ClaimInvalid, ConfirmTool, Store!Claim, StoreStep, Store!CreateLock, Store!ClaimLock,
            Store!LookupMiss, Store!LookupHit, Store!Delete
<1>1. now' = now /\ frozen' = frozen OBVIOUS
<1>2. \A i \in ID : Store!Made(i)' <=> Store!Made(i) BY DEF Store!Made, PlaceInv
<1>3. \A i \in ID : Store!Won(i)' <=> Store!Won(i) BY DEF Store!Won, PlaceInv
<1> DEFINE Outside == /\ UNCHANGED storeVars /\ tool' = [tool EXCEPT ![c] = "returned"]
                      /\ pc[c] # "granted" /\ ~(pc[c] = "claim.check" /\ tool[c] = "confirm")
           Inside == /\ StoreStep(c)
                     /\ \/ Store!CreateLock(c) \/ Store!ClaimLock(c) \/ Store!LookupMiss(c)
                        \/ Store!LookupHit(c) \/ Store!Delete(c)
           Refused == /\ tool[c] = "idle" /\ tool' = [tool EXCEPT ![c] = "returned"]
                      /\ Store!CreateFail(c) \/ Store!ClaimInvalid(c)
<1>0. Outside \/ Inside \/ Refused \/ ConfirmExecute(c) \/ \E i \in ID : ConfirmTool(c, i)
      OBVIOUS
<1>4. \A i \in ID : Running(i)' <=> Running(i)
  <2>1. CASE Outside BY <2>1 DEF Running, Active
  <2>2. CASE Inside BY <2>2 DEF Running, Active
  <2>3. CASE Refused BY <2>3 DEF Running, Active, PlaceInv
  <2>4. CASE ConfirmExecute(c) BY <2>4 DEF Running, Active
  <2>5. CASE \E i \in ID : ConfirmTool(c, i) BY <2>5 DEF Running, Active, PlaceInv
  <2>. QED BY <1>0, <2>1, <2>2, <2>3, <2>4, <2>5
<1>5. \A i \in ID : Open(i)' <=> Open(i)
  <2>1. CASE Outside BY <2>1 DEF Open, Deciding
  <2>2. CASE Inside
    <3>1. CASE Store!Delete(c)
      <4>1. tool[c] = "confirm" /\ loc[c].id \in ID /\ items[loc[c].id] # NoEntry
            BY <2>2, <3>1 DEF PlaceInv, ClaimInv, InStore, Store!InClaim, Store!InCreate
      <4>2. pc' = [pc EXCEPT ![c] = "claim.check"] /\ items' = [items EXCEPT ![loc[c].id] = NoEntry]
            /\ UNCHANGED <<loc, tool>>
            BY <2>2, <3>1
      <4>3. \A i \in ID : Deciding(i)' <=> Deciding(i) \/ i = loc[c].id
            BY <3>1, <4>1, <4>2 DEF Deciding
      <4>. QED BY <4>1, <4>2, <4>3 DEF Open
    <3>2. CASE Store!CreateLock(c) \/ Store!ClaimLock(c) \/ Store!LookupMiss(c) \/ Store!LookupHit(c)
      <4>1. UNCHANGED <<items, tool>> BY <2>2, <3>2
      <4>2. \A d \in Calls : pc[d]' = "claim.check" <=> pc[d] = "claim.check" BY <3>2
      <4>3. \A d \in Calls : loc[d].id' = loc[d].id
        <5>1. CASE Store!LookupHit(c) BY <5>1
        <5>2. CASE loc' = loc BY <5>2
        <5>. QED BY <3>2, <5>1, <5>2
      <4>4. \A i \in ID : Deciding(i)' <=> Deciding(i)
        <5> HIDE DEF ToolsInv, TypeOK, Store!TypeOK, Store!CreateLock, Store!ClaimLock,
                     Store!LookupMiss, Store!LookupHit, Store!Delete, StoreStep
        <5>. QED BY <4>1, <4>2, <4>3 DEF Deciding
      <4>. QED BY <4>1, <4>4 DEF Open
    <3>. QED BY <2>2, <3>1, <3>2
  <2>3. CASE Refused BY <2>3 DEF Open, Deciding, PlaceInv
  <2>4. CASE ConfirmExecute(c) BY <2>4 DEF Open, Deciding
  <2>5. CASE \E i \in ID : ConfirmTool(c, i) BY <2>5 DEF Open, Deciding, PlaceInv
  <2>. QED BY <1>0, <2>1, <2>2, <2>3, <2>4, <2>5
<1>. QED BY <1>1, <1>2, <1>3, <1>4, <1>5, Unseen

\* Insert stages the write, until the expiry that was stamped before.
LEMMA InsertStages ==
    ASSUME ToolsInv, Store!ExpiryInv, NEW c \in Calls, StoreStep(c), Store!Insert(c)
    PROVE  Promise!Next
<1> USE DEF ToolsInv, TypeOK, Store!TypeOK, Store!Goto
<1>0. PICK i \in ID : i = loc[c].id
      BY DEF OwnerInv, Store!Insert, Store!InCreate
<1>1. /\ frozen[i] \in Store!Entry /\ frozen[i].expiresAt <= now + Store!ttl
      /\ items' = [items EXCEPT ![i] = frozen[i]] /\ frozen[i] # NoEntry
      /\ pc' = [pc EXCEPT ![c] = "staged"] /\ UNCHANGED <<now, loc, tool, frozen>>
  <2>1. /\ pc[c] = "create.insert" /\ items' = [items EXCEPT ![i] = loc[c].entry]
        /\ pc' = [pc EXCEPT ![c] = "staged"] /\ UNCHANGED <<now, loc, tool, frozen>>
        BY <1>0 DEF Store!Insert, StoreStep
  <2>2. loc[c].entry = frozen[i] /\ loc[c].entry # NoEntry
        BY <1>0, <2>1 DEF OwnerInv, Store!InCreate
  <2>3. frozen[i] \in Store!Entry /\ frozen[i].expiresAt <= now + Store!ttl
        BY <2>2 DEF Store!ExpiryInv
  <2>. QED BY <2>1, <2>2, <2>3
<1>2. ~Store!Made(i)
      BY <1>0 DEF OwnerInv, Store!Insert, Store!InCreate, Store!Made
<1>3. ~Store!Won(i) /\ ~Store!Won(i)'
  <2>1. ~Store!Won(i) BY <1>2, PlacesOfId
  <2>. QED BY <1>1, <2>1 DEF Store!Won
<1>4. Store!Made(i)' /\ Open(i)'
      BY <1>0, <1>1 DEF Store!Made, Open
<1>5. \A j \in ID \ {i} :
          /\ Store!Made(j)' <=> Store!Made(j)
          /\ Store!Won(j)' <=> Store!Won(j)
          /\ Running(j)' <=> Running(j)
          /\ Open(j)' <=> Open(j)
  <2>1. pc[c] = "create.insert" BY DEF Store!Insert
  <2>2. \A j \in ID \ {i} : Store!Made(j)' <=> Store!Made(j) BY <1>0, <1>1, <2>1 DEF Store!Made
  <2>3. \A j \in ID \ {i} : Store!Won(j)' <=> Store!Won(j) BY <1>0, <1>1, <2>1 DEF Store!Won
  <2>4. \A j \in ID \ {i} : Running(j)' <=> Running(j) BY <1>0, <1>1, <2>1 DEF Running, Active
  <2>5. \A j \in ID \ {i} : Open(j)' <=> Open(j) BY <1>0, <1>1, <2>1 DEF Open, Deciding
  <2>. QED BY <2>2, <2>3, <2>4, <2>5
<1>6. /\ StageOf(i) = "unused"
      /\ [k \in ID |-> StageOf(k)]' = [[k \in ID |-> StageOf(k)] EXCEPT ![i] = "staged"]
  <2>1. StageOf(i) = "unused" BY <1>2 DEF StageOf
  <2>2. ~Running(i)' BY <1>3 DEF Running, Store!Won
  <2>3. StageOf(i)' = "staged" BY <1>3, <1>4, <2>2 DEF StageOf, Open
  <2>4. \A j \in ID \ {i} : StageOf(j)' = StageOf(j) BY <1>5 DEF StageOf, Open
  <2>. QED BY <2>1, <2>3, <2>4
<1>7. /\ now' = now
      /\ [k \in ID |-> StagedOf(k)]' = [[k \in ID |-> StagedOf(k)] EXCEPT ![i] = frozen[i].payload]
      /\ [k \in ID |-> Store!DeadlineOf(k)]' =
             [[k \in ID |-> Store!DeadlineOf(k)] EXCEPT ![i] = frozen[i].expiresAt]
      BY <1>1, <1>4, <1>5 DEF StagedOf, Store!DeadlineOf
<1>8. frozen[i].payload \in Payload /\ frozen[i].expiresAt \in 0 .. now + Store!ttl
      BY <1>1, TTLNat DEF Store!Entry
<1>. QED BY <1>1, <1>6, <1>7, <1>8 DEF Promise!Next, Promise!Stage, StagedOf

\* Some staged writes lapse: what is open no longer is.
LEMMA Lapses ==
    ASSUME ToolsInv, NEW S \in SUBSET ID, UNCHANGED <<now, frozen>>,
           \A i \in S : /\ Store!Made(i) /\ ~Store!Won(i) /\ ~Store!Won(i)'
                        /\ Open(i) /\ ~Open(i)' /\ Store!DeadlineOf(i) <= now,
           \A i \in ID : Store!Made(i)' <=> Store!Made(i),
           \A i \in ID \ S : /\ Store!Won(i)' <=> Store!Won(i)
                             /\ Running(i)' <=> Running(i)
                             /\ Open(i)' <=> Open(i)
    PROVE  [Promise!Next]_(Promise!avars)
<1>1. \A i \in S : StageOf(i) = "staged" /\ StageOf(i)' = "void"
  <2> SUFFICES ASSUME NEW i \in S PROVE StageOf(i) = "staged" /\ StageOf(i)' = "void"
    OBVIOUS
  <2>1. ~Running(i) /\ ~Running(i)' BY DEF Running, Store!Won
  <2>. QED BY <2>1 DEF StageOf, Open
<1>2. \A i \in ID \ S : StageOf(i)' = StageOf(i)
      BY DEF StageOf, Open
<1>3. [i \in ID |-> StageOf(i)]' = [i \in ID |-> IF i \in S THEN "void" ELSE StageOf(i)]
      BY <1>1, <1>2
<1>4. /\ [i \in ID |-> StagedOf(i)]' = [i \in ID |-> StagedOf(i)]
      /\ [i \in ID |-> Store!DeadlineOf(i)]' = [i \in ID |-> Store!DeadlineOf(i)]
      BY DEF StagedOf, Store!DeadlineOf
<1>5. CASE S = {}
      BY <1>3, <1>4, <1>5 DEF Promise!avars, StagedOf
<1>6. CASE S # {}
      BY <1>1, <1>3, <1>4, <1>6 DEF Promise!Next, Promise!Lapse, StagedOf
<1>. QED BY <1>5, <1>6

\* Purge forgets what has lapsed.
LEMMA PurgeLapses ==
    ASSUME ToolsInv, NEW c \in Calls, StoreStep(c), Store!Purge(c)
    PROVE  [Promise!Next]_(Promise!avars)
<1> DEFINE S == {i \in ID : items[i] # NoEntry /\ Store!Lapsed(items[i], now)}
<1> USE DEF ToolsInv, TypeOK, Store!TypeOK, Store!Goto
<1>1. /\ pc[c] = "create.purge" /\ pc' = [pc EXCEPT ![c] = "create.insert"]
      /\ items' = [i \in ID |-> IF i \in S THEN NoEntry ELSE items[i]]
      /\ UNCHANGED <<now, loc, tool, frozen>>
      BY DEF Store!Purge, StoreStep
<1>2. \A i \in ID : Store!Made(i)' <=> Store!Made(i) BY <1>1 DEF Store!Made
<1>3. \A i \in ID : Store!Won(i)' <=> Store!Won(i) BY <1>1 DEF Store!Won
<1>4. \A i \in ID : Running(i)' <=> Running(i) BY <1>1 DEF Running, Active
<1>5. \A i \in ID : Deciding(i)' <=> Deciding(i) BY <1>1 DEF Deciding
<1>6. \A i \in S : /\ Store!Made(i) /\ ~Store!Won(i) /\ Open(i) /\ ~Open(i)'
                   /\ Store!DeadlineOf(i) <= now
  <2> SUFFICES ASSUME NEW i \in S
               PROVE  /\ Store!Made(i) /\ ~Store!Won(i) /\ Open(i) /\ ~Open(i)'
                      /\ Store!DeadlineOf(i) <= now
    OBVIOUS
  <2>1. Store!Made(i) /\ ~Store!Won(i) /\ ~Deciding(i) /\ items[i] = frozen[i]
        BY PlacesOfId
  <2>. QED BY <1>1, <1>5, <2>1 DEF Open, Store!DeadlineOf, Store!Lapsed
<1>7. \A i \in ID \ S : Open(i)' <=> Open(i) BY <1>1, <1>5 DEF Open
<1>8. S \in SUBSET ID OBVIOUS
<1> HIDE DEF S
<1>. QED BY <1>1, <1>2, <1>3, <1>4, <1>6, <1>7, <1>8, Lapses

\* Check begins the write, or lets it lapse when it looked at the clock too late.
LEMMA CheckDecides ==
    ASSUME ToolsInv, NEW c \in Calls, StoreStep(c), Store!Check(c)
    PROVE  [Promise!Next]_(Promise!avars)
<1> USE DEF ToolsInv, TypeOK, Store!TypeOK, Store!Goto
<1>0. PICK i \in ID : i = loc[c].id
      BY DEF ClaimInv, Taken, Store!Check
<1>1. /\ pc[c] = "claim.check" /\ tool[c] = "confirm" /\ UNCHANGED <<now, items, loc, tool, frozen>>
      /\ pc' = [pc EXCEPT ![c] = IF Store!Lapsed(loc[c].entry, now) THEN "expired" ELSE "granted"]
      BY DEF Store!Check, StoreStep, PlaceInv, Store!InCreate
<1>2. Store!Made(i) /\ items[i] = NoEntry /\ Deciding(i) /\ ~Store!Won(i)
  <2>1. Deciding(i) BY <1>0, <1>1 DEF Deciding
  <2>. QED BY <2>1, PlacesOfId
<1>3. loc[c].entry = frozen[i] /\ frozen[i] \in Store!Entry
  <2>1. Store!StagedBy(i, loc[c].entry) BY <1>0, <1>1 DEF ClaimInv, Taken
  <2>. QED BY <1>2, <2>1, PlacesOfId DEF Store!StagedBy, OwnerInv
<1>4. \A d \in Calls : pc[d] \in Taken /\ loc[d].id = i => d = c
      BY <1>0, <1>1 DEF TakenOnce, Taken
<1>5. ~Deciding(i)' /\ ~Open(i)'
      BY <1>1, <1>2, <1>4 DEF Deciding, Open, Taken
<1>6. \A j \in ID : Store!Made(j)' <=> Store!Made(j) BY <1>1 DEF Store!Made
<1>7. \A j \in ID \ {i} : /\ Store!Won(j)' <=> Store!Won(j)
                          /\ Running(j)' <=> Running(j)
                          /\ Open(j)' <=> Open(j)
  <2>1. \A j \in ID \ {i} : Store!Won(j)' <=> Store!Won(j) BY <1>0, <1>1 DEF Store!Won
  <2>2. \A j \in ID \ {i} : Running(j)' <=> Running(j) BY <1>0, <1>1 DEF Running, Active
  <2>3. \A j \in ID \ {i} : Open(j)' <=> Open(j) BY <1>0, <1>1 DEF Open, Deciding
  <2>. QED BY <2>1, <2>2, <2>3
<1>8. Store!DeadlineOf(i) = frozen[i].expiresAt /\ Open(i)
      BY <1>2 DEF Store!DeadlineOf, Open
<1>9. CASE Store!Lapsed(loc[c].entry, now)
  <2>1. ~Store!Won(i)' BY <1>1, <1>2, <1>9 DEF Store!Won
  <2>2. Store!DeadlineOf(i) <= now BY <1>3, <1>8, <1>9 DEF Store!Lapsed
  <2>3. {i} \in SUBSET ID OBVIOUS
  <2> HIDE DEF ToolsInv
  <2>. QED BY <1>1, <1>2, <1>5, <1>6, <1>7, <1>8, <2>1, <2>2, <2>3, Lapses
<1>10. CASE ~Store!Lapsed(loc[c].entry, now)
  <2>1. Running(i)' BY <1>0, <1>1, <1>10 DEF Running, Active
  <2>2. now < Store!DeadlineOf(i) BY <1>3, <1>8, <1>10 DEF Store!Lapsed, Store!Entry
  <2>3. ~Running(i) BY <1>2 DEF Running, Store!Won
  <2>4. StageOf(i) = "staged" BY <1>2, <1>8, <2>3 DEF StageOf, Open
  <2>5. StageOf(i)' = "running"
    <3>1. Store!Made(i)' BY <1>2, <1>6
    <3>2. Store!Won(i)' BY <2>1 DEF Running, Store!Won
    <3>. QED BY <2>1, <3>1, <3>2 DEF StageOf
  <2>6. \A j \in ID \ {i} : StageOf(j)' = StageOf(j) BY <1>6, <1>7 DEF StageOf, Open
  <2>7. [k \in ID |-> StageOf(k)]' = [[k \in ID |-> StageOf(k)] EXCEPT ![i] = "running"]
        BY <2>5, <2>6
  <2>8. /\ [k \in ID |-> StagedOf(k)]' = [k \in ID |-> StagedOf(k)]
        /\ [k \in ID |-> Store!DeadlineOf(k)]' = [k \in ID |-> Store!DeadlineOf(k)]
        BY <1>1, <1>6 DEF StagedOf, Store!DeadlineOf
  <2>. QED BY <1>1, <2>2, <2>4, <2>7, <2>8 DEF Promise!Next, Promise!Begin, StagedOf
<1>. QED BY <1>9, <1>10

\* The return of an execution finishes the write.
LEMMA ReturnFinishes ==
    ASSUME ToolsInv, NEW c \in Calls, ConfirmReturn(c)
    PROVE  Promise!Next
<1> USE DEF ToolsInv, TypeOK, Store!TypeOK
<1>1. /\ pc[c] = "granted" /\ tool[c] = "executing" /\ tool' = [tool EXCEPT ![c] = "returned"]
      /\ UNCHANGED storeVars
      BY DEF ConfirmReturn, Answer, PlaceInv
<1>2. PICK i \in ID : i = loc[c].id
      BY <1>1 DEF ClaimInv, Taken
<1>3. Running(i) /\ Store!Won(i) BY <1>1, <1>2 DEF Running, Active, Store!Won
<1>4. Store!Made(i) BY <1>3, PlacesOfId
<1>5. ~Running(i)' BY <1>1, <1>2 DEF Running, Active, TakenOnce, Taken, storeVars
<1>6. \A j \in ID \ {i} : Running(j)' <=> Running(j)
      BY <1>1, <1>2 DEF Running, Active, storeVars
<1>7. \A j \in ID : /\ Store!Made(j)' <=> Store!Made(j)
                    /\ Store!Won(j)' <=> Store!Won(j)
      BY <1>1 DEF Store!Made, Store!Won, storeVars
<1>8. \A j \in ID : Open(j)' <=> Open(j)
      BY <1>1 DEF Open, Deciding, storeVars
<1>9. StageOf(i) = "running" /\ StageOf(i)' = "done"
      BY <1>3, <1>4, <1>5, <1>7 DEF StageOf
<1>10. \A j \in ID \ {i} : StageOf(j)' = StageOf(j)
      BY <1>6, <1>7, <1>8 DEF StageOf, Open
<1>11. /\ [k \in ID |-> StageOf(k)]' = [[k \in ID |-> StageOf(k)] EXCEPT ![i] = "done"]
       /\ [k \in ID |-> StagedOf(k)]' = [k \in ID |-> StagedOf(k)]
       /\ [k \in ID |-> Store!DeadlineOf(k)]' = [k \in ID |-> Store!DeadlineOf(k)]
      BY <1>1, <1>7, <1>9, <1>10 DEF StagedOf, Store!DeadlineOf, storeVars
<1>12. now' = now BY <1>1 DEF storeVars
<1>. QED BY <1>9, <1>11, <1>12 DEF Promise!Next, Promise!Finish, StagedOf

\* A restart forgets what is staged and ends what runs.
LEMMA RestartRestarts ==
    ASSUME ToolsInv, Restart
    PROVE  Promise!Next
<1> USE DEF ToolsInv, TypeOK, Store!TypeOK
<1>1. /\ items' = [i \in ID |-> NoEntry] /\ UNCHANGED <<now, pc, loc, frozen>>
      /\ tool' = [c \in Calls |-> IF Active(c) THEN "dead" ELSE tool[c]]
      BY DEF Restart
<1>2. \A i \in ID : /\ Store!Made(i)' <=> Store!Made(i)
                    /\ Store!Won(i)' <=> Store!Won(i)
      BY <1>1 DEF Store!Made, Store!Won
<1>3. \A i \in ID : ~Running(i)' /\ ~Open(i)'
      BY <1>1 DEF Running, Active, Open, Deciding
<1>4. \A i \in ID : StageOf(i)' = CASE StageOf(i) = "staged"  -> "void"
                                    [] StageOf(i) = "running" -> "done"
                                    [] OTHER                  -> StageOf(i)
  <2> SUFFICES ASSUME NEW i \in ID
               PROVE  StageOf(i)' = CASE StageOf(i) = "staged"  -> "void"
                                      [] StageOf(i) = "running" -> "done"
                                      [] OTHER                  -> StageOf(i)
    OBVIOUS
  <2>1. /\ Running(i) => Store!Won(i)
        /\ Store!Won(i) => Store!Made(i)
        BY PlacesOfId
  <2>. QED BY <1>2, <1>3, <2>1 DEF StageOf, Open
<1>5. /\ [k \in ID |-> StagedOf(k)]' = [k \in ID |-> StagedOf(k)]
      /\ [k \in ID |-> Store!DeadlineOf(k)]' = [k \in ID |-> Store!DeadlineOf(k)]
      BY <1>1, <1>2 DEF StagedOf, Store!DeadlineOf
<1>6. Promise!Restart
      BY <1>1, <1>4, <1>5 DEF Promise!Restart, StagedOf
<1>. QED BY <1>6 DEF Promise!Next

\* Every step of the tools is a step of the promise, or not seen.
LEMMA PromiseStep ==
    ASSUME ToolsInv, Store!ExpiryInv, [Next]_vars
    PROVE  [Promise!Next]_(Promise!avars)
<1>1. ASSUME NEW c \in Calls, StoreStep(c) PROVE [Promise!Next]_(Promise!avars)
      BY <1>1, HiddenSteps, InsertStages, PurgeLapses, CheckDecides DEF StoreStep, Store!Step
<1>2. ASSUME NEW c \in RequestCalls, NEW i \in ID, NEW p \in Payload, RequestTool(c, i, p)
      PROVE  UNCHANGED Promise!avars
  <2> USE DEF ToolsInv, TypeOK, Store!TypeOK, Store!Goto, Calls
  <2>1. /\ pc[c] = "idle" /\ pc' = [pc EXCEPT ![c] = "create.lock"]
        /\ \A d \in Calls \ {c} : loc'[d] = loc[d] /\ tool'[d] = tool[d]
        /\ frozen[i] = NoEntry /\ \A j \in ID \ {i} : frozen'[j] = frozen[j]
        /\ UNCHANGED <<now, items>>
        BY <1>2 DEF RequestTool, Store!Create
  <2>2. ~Store!Made(i) BY <2>1, PlacesOfId, ToolAssumption DEF Store!Entry
  <2>3. \A j \in ID : Store!Made(j)' <=> Store!Made(j) BY <2>1 DEF Store!Made
  <2>4. \A j \in ID : Store!Won(j)' <=> Store!Won(j) BY <2>1 DEF Store!Won
  <2>5. \A j \in ID : Running(j)' <=> Running(j) BY <2>1 DEF Running, Active
  <2>6. \A j \in ID : Open(j)' <=> Open(j) BY <2>1 DEF Open, Deciding
  <2>. QED BY <2>1, <2>2, <2>3, <2>4, <2>5, <2>6, Unseen
<1>3. ASSUME NEW c \in ConfirmCalls, NEW i \in ID, ConfirmTool(c, i)
      PROVE  UNCHANGED Promise!avars
      BY <1>3, HiddenSteps DEF Calls
<1>4. ASSUME NEW c \in Calls, RequestFailed(c) \/ ConfirmInvalid(c)
      PROVE  UNCHANGED Promise!avars
      BY <1>4, HiddenSteps DEF RequestFailed, ConfirmInvalid, Answer
<1>5. ASSUME NEW c \in Calls,
             RequestRejected(c) \/ RequestReturn(c) \/ ConfirmNoWriter(c) \/ ConfirmRefused(c)
      PROVE  UNCHANGED Promise!avars
  <2>1. /\ UNCHANGED storeVars /\ tool' = [tool EXCEPT ![c] = "returned"] /\ pc[c] # "granted"
        /\ ~(pc[c] = "claim.check" /\ tool[c] = "confirm")
        BY <1>5 DEF RequestRejected, RequestReturn, ConfirmNoWriter, ConfirmRefused, Answer, ToolsInv, PlaceInv
  <2>. QED BY <2>1, HiddenSteps
<1>6. ASSUME NEW c \in Calls, ConfirmExecute(c) PROVE UNCHANGED Promise!avars
      BY <1>6, HiddenSteps
<1>7. ASSUME NEW c \in Calls, ConfirmReturn(c) PROVE Promise!Next
      BY <1>7, ReturnFinishes
<1>8. CASE Tick
  <2>1. now' = now + 1 /\ UNCHANGED <<pc, loc, items, tool, frozen>> BY <1>8 DEF Tick, Store!Tick
  <2>2. /\ [i \in ID |-> StageOf(i)]' = [i \in ID |-> StageOf(i)]
        /\ [i \in ID |-> StagedOf(i)]' = [i \in ID |-> StagedOf(i)]
        /\ [i \in ID |-> Store!DeadlineOf(i)]' = [i \in ID |-> Store!DeadlineOf(i)]
        BY <2>1 DEF StageOf, StagedOf, Store!DeadlineOf, Store!Made, Store!Won, Running, Active, Deciding
  <2>. QED BY <2>1, <2>2 DEF Promise!Next, Promise!Tick, StagedOf
<1>9. CASE Restart
      BY <1>9, RestartRestarts
<1>10. CASE UNCHANGED vars
  <2>1. UNCHANGED <<now, pc, loc, items, tool, frozen>> BY <1>10 DEF vars
  <2>2. \A i \in ID : Store!Made(i)' <=> Store!Made(i) BY <2>1 DEF Store!Made
  <2>3. \A i \in ID : Store!Won(i)' <=> Store!Won(i) BY <2>1 DEF Store!Won
  <2>4. \A i \in ID : Running(i)' <=> Running(i) BY <2>1 DEF Running, Active
  <2>5. \A i \in ID : Open(i)' <=> Open(i) BY <2>1 DEF Open, Deciding
  <2>. QED BY <2>1, <2>2, <2>3, <2>4, <2>5, Unseen
<1>11. ASSUME Next PROVE [Promise!Next]_(Promise!avars)
  <2>1. CASE \E c \in RequestCalls, i \in ID, p \in Payload : RequestTool(c, i, p)
        BY <1>2, <2>1
  <2>2. CASE \E c \in RequestCalls : RequestRejected(c) \/ RequestFailed(c)
        BY <1>4, <1>5, <2>2 DEF Calls
  <2>3. CASE \E c \in ConfirmCalls, i \in ID : ConfirmTool(c, i)
        BY <1>3, <2>3
  <2>4. CASE \E c \in ConfirmCalls : ConfirmNoWriter(c) \/ ConfirmInvalid(c)
        BY <1>4, <1>5, <2>4 DEF Calls
  <2>5. CASE \E c \in Calls : Handler(c)
        BY <1>1, <1>5, <1>6, <1>7, <2>5 DEF Handler
  <2>6. CASE Quiescent
        BY <1>10, <2>6 DEF Quiescent
  <2>. QED BY <1>8, <1>9, <1>11, <2>1, <2>2, <2>3, <2>4, <2>5, <2>6, Zenon DEF Next
<1>. QED BY <1>10, <1>11

\* The tools keep the two-phase promise through errors, repeated confirmations and
\* restarts: a write begins at most once, from the id it was staged under, in time.
THEOREM ToolsKeepPromise == Spec => KeepsPromise
<1>1. Init => Promise!Init BY PromiseInit
<1>2. Init => Store!ExpiryInv BY DEF Init, Store!Init, Store!ExpiryInv
<1>3. ToolsInv /\ Store!ExpiryInv /\ [Next]_vars => Store!ExpiryInv' BY ExpiryKept
<1>4. ToolsInv /\ Store!ExpiryInv /\ [Next]_vars => [Promise!Next]_(Promise!avars) BY PromiseStep
<1>. QED BY <1>1, <1>2, <1>3, <1>4, ToolsInvariance, PTL DEF Spec, KeepsPromise, Promise!Spec
=============================================================================
