---------------------------- MODULE PendingStore ----------------------------
(***************************************************************************)
(* internal/mcp/confirm.go: the store of staged writes.  Tool calls run in *)
(* goroutines of their own and share one pendingStore: a mutex mu, a map   *)
(* items from confirmation id to the frozen entry, and a TTL.  Each call   *)
(* is one create or one claim, taken step by step: the clock and the map   *)
(* are read and written at different moments, and only the mutex keeps the *)
(* steps of two calls apart.                                               *)
(*                                                                         *)
(* A confirmation id is a member of ID; 128 random bits never repeat, so a *)
(* create draws an id never drawn before.  The id a client passes to claim *)
(* is any member of ID (an id somebody staged, used up, or only guessed),  *)
(* already trimmed, or one that the syntax check rejects.                  *)
(***************************************************************************)
EXTENDS Integers

CONSTANTS
    Calls,          \* tool calls, one goroutine each
    ID,             \* confirmation ids
    Payload,        \* the writes that can be frozen
    NoEntry,        \* "the key is not in the map"
    NoId,           \* a call that has no id yet
    Free,           \* the mutex is not held
    ConfiguredTTL,  \* the ttl newPendingStore is given
    DefaultTTL,     \* "5 * time.Minute"
    MaxTime         \* bound on the clock

ASSUME StoreAssumption ==
    /\ ConfiguredTTL \in Int
    /\ DefaultTTL \in Nat \ {0}
    /\ MaxTime \in Nat
    /\ Free \notin Calls
    /\ NoId \notin ID
    /\ NoEntry \notin Payload
    /\ NoEntry \notin [payload : Payload, expiresAt : Nat]

VARIABLES
    now,     \* time.Now()
    mu,      \* the call that holds s.mu, or Free
    items,   \* s.items, a total function: NoEntry where the map has no key
    pc,      \* where each call is
    loc,     \* each call's locals: its id, and the entry it inserts or looked up
    frozen   \* history: the entry an id was drawn for, NoEntry if never drawn

vars == <<now, mu, items, pc, loc, frozen>>

Entry == [payload : Payload, expiresAt : Nat]

\* The ttl the store uses (5 minutes when not positive).
ttl == IF ConfiguredTTL <= 0 THEN DefaultTTL ELSE ConfiguredTTL

InCreate == {"create.lock", "create.purge", "create.insert"}
InClaim == {"claim.lock", "claim.lookup", "claim.delete", "claim.check"}
Returned == {"failed", "staged", "invalid", "unknown", "expired", "granted"}

\* Places of the code between s.mu.Lock() and the deferred Unlock.
Holding == {"create.purge", "create.insert", "claim.lookup", "claim.delete", "claim.check"}

\* !e.expiresAt.After(t)
Lapsed(e, t) == e.expiresAt <= t

TypeOK ==
    /\ now \in Nat
    /\ mu \in Calls \cup {Free}
    /\ items \in [ID -> Entry \cup {NoEntry}]
    /\ pc \in [Calls -> {"idle"} \cup InCreate \cup InClaim \cup Returned]
    /\ loc \in [Calls -> [id : ID \cup {NoId}, entry : Entry \cup {NoEntry}]]
    /\ frozen \in [ID -> Entry \cup {NoEntry}]

Init ==
    /\ now = 0
    /\ mu = Free
    /\ items = [i \in ID |-> NoEntry]
    /\ pc = [c \in Calls |-> "idle"]
    /\ loc = [c \in Calls |-> [id |-> NoId, entry |-> NoEntry]]
    /\ frozen = [i \in ID |-> NoEntry]
-----------------------------------------------------------------------------
Goto(c, label) == pc' = [pc EXCEPT ![c] = label]

\* Mutant: a Lock that does not wait.
AcquireAlways(c) == mu' = c

\* s.mu.Lock(): blocks while another call holds the mutex.
Acquire(c) == mu = Free /\ mu' = c

\* The deferred s.mu.Unlock().
Release(c) == mu' = Free

\* Mutants of the operations below: a create that stores its entry before it asks
\* for the mutex; a purge with its test the wrong way round; a miss that forgets
\* the Unlock; a claim that leaves the entry in the map; one that leaves an empty
\* value in it; and a claim that never looks at the clock.
CreateInsertsEarly(c, i, p) ==
    /\ pc[c] = "idle"
    /\ frozen[i] = NoEntry
    /\ LET e == [payload |-> p, expiresAt |-> now + ttl]
       IN  /\ loc' = [loc EXCEPT ![c] = [id |-> i, entry |-> e]]
           /\ frozen' = [frozen EXCEPT ![i] = e]
           /\ items' = [items EXCEPT ![i] = e]
    /\ Goto(c, "create.lock")
    /\ UNCHANGED <<now, mu>>

PurgeInverted(c) ==
    /\ pc[c] = "create.purge"
    /\ items' = [i \in ID |->
                   IF items[i] # NoEntry /\ ~Lapsed(items[i], now) THEN NoEntry ELSE items[i]]
    /\ Goto(c, "create.insert")
    /\ UNCHANGED <<now, mu, loc, frozen>>

LookupMissKeepsLock(c) ==
    /\ pc[c] = "claim.lookup"
    /\ items[loc[c].id] = NoEntry
    /\ Goto(c, "unknown")
    /\ UNCHANGED <<now, mu, items, loc, frozen>>

DeleteSkipped(c) ==
    /\ pc[c] = "claim.delete"
    /\ Goto(c, "claim.check")
    /\ UNCHANGED <<now, mu, items, loc, frozen>>

DeleteLeavesBlank(c) ==
    /\ pc[c] = "claim.delete"
    /\ items' = [items EXCEPT ![loc[c].id] = NoId]
    /\ Goto(c, "claim.check")
    /\ UNCHANGED <<now, mu, loc, frozen>>

CheckSkipped(c) ==
    /\ pc[c] = "claim.check"
    /\ Release(c)
    /\ Goto(c, "granted")
    /\ UNCHANGED <<now, items, loc, frozen>>

\* create: draws the id and stamps the expiry before asking for the mutex.
Create(c, i, p) ==
    /\ pc[c] = "idle"
    /\ frozen[i] = NoEntry
    /\ LET e == [payload |-> p, expiresAt |-> now + ttl]
       IN  /\ loc' = [loc EXCEPT ![c] = [id |-> i, entry |-> e]]
           /\ frozen' = [frozen EXCEPT ![i] = e]
    /\ Goto(c, "create.lock")
    /\ UNCHANGED <<now, mu, items>>

\* create: the random source fails, nothing is stored.
CreateFail(c) ==
    /\ pc[c] = "idle"
    /\ Goto(c, "failed")
    /\ UNCHANGED <<now, mu, items, loc, frozen>>

CreateLock(c) ==
    /\ pc[c] = "create.lock"
    /\ Acquire(c)
    /\ Goto(c, "create.purge")
    /\ UNCHANGED <<now, items, loc, frozen>>

\* create: reads the clock and drops every entry that has expired.
Purge(c) ==
    /\ pc[c] = "create.purge"
    /\ items' = [i \in ID |->
                   IF items[i] # NoEntry /\ Lapsed(items[i], now) THEN NoEntry ELSE items[i]]
    /\ Goto(c, "create.insert")
    /\ UNCHANGED <<now, mu, loc, frozen>>

\* create: stores the entry and returns the id.
Insert(c) ==
    /\ pc[c] = "create.insert"
    /\ items' = [items EXCEPT ![loc[c].id] = loc[c].entry]
    /\ Release(c)
    /\ Goto(c, "staged")
    /\ UNCHANGED <<now, loc, frozen>>

\* claim: the id passes the syntax check.
Claim(c, i) ==
    /\ pc[c] = "idle"
    /\ loc' = [loc EXCEPT ![c].id = i]
    /\ Goto(c, "claim.lock")
    /\ UNCHANGED <<now, mu, items, frozen>>

\* claim: an empty, overlong or malformed id is refused before the mutex.
ClaimInvalid(c) ==
    /\ pc[c] = "idle"
    /\ Goto(c, "invalid")
    /\ UNCHANGED <<now, mu, items, loc, frozen>>

ClaimLock(c) ==
    /\ pc[c] = "claim.lock"
    /\ Acquire(c)
    /\ Goto(c, "claim.lookup")
    /\ UNCHANGED <<now, items, loc, frozen>>

\* claim: the id is not in the map: unknown or already used.
LookupMiss(c) ==
    /\ pc[c] = "claim.lookup"
    /\ items[loc[c].id] = NoEntry
    /\ Release(c)
    /\ Goto(c, "unknown")
    /\ UNCHANGED <<now, items, loc, frozen>>

LookupHit(c) ==
    /\ pc[c] = "claim.lookup"
    /\ items[loc[c].id] # NoEntry
    /\ loc' = [loc EXCEPT ![c].entry = items[loc[c].id]]
    /\ Goto(c, "claim.delete")
    /\ UNCHANGED <<now, mu, items, frozen>>

\* claim: the entry is used up, whether or not it turns out to have expired.
Delete(c) ==
    /\ pc[c] = "claim.delete"
    /\ items' = [items EXCEPT ![loc[c].id] = NoEntry]
    /\ Goto(c, "claim.check")
    /\ UNCHANGED <<now, mu, loc, frozen>>

\* claim: reads the clock; the payload is handed out only before its expiry.
Check(c) ==
    /\ pc[c] = "claim.check"
    /\ Release(c)
    /\ Goto(c, IF Lapsed(loc[c].entry, now) THEN "expired" ELSE "granted")
    /\ UNCHANGED <<now, items, loc, frozen>>

Tick ==
    /\ now < MaxTime
    /\ now' = now + 1
    /\ UNCHANGED <<mu, items, pc, loc, frozen>>

\* Every call has returned: the store waits for the next one.
Quiescent ==
    /\ \A c \in Calls : pc[c] \in Returned
    /\ UNCHANGED vars

\* The steps a call that was made takes by itself.
Step(c) ==
    \/ CreateLock(c) \/ Purge(c) \/ Insert(c)
    \/ ClaimLock(c) \/ LookupMiss(c) \/ LookupHit(c) \/ Delete(c) \/ Check(c)

Next ==
    \/ \E c \in Calls, i \in ID, p \in Payload : Create(c, i, p)
    \/ \E c \in Calls, i \in ID : Claim(c, i)
    \/ \E c \in Calls : CreateFail(c) \/ ClaimInvalid(c) \/ Step(c)
    \/ Tick
    \/ Quiescent

Spec == Init /\ [][Next]_vars

\* A goroutine that can run does run, and sync.Mutex does not starve a waiter.
Fairness == \A c \in Calls : WF_vars(Step(c))

FairSpec == Spec /\ Fairness
-----------------------------------------------------------------------------
\* The id is single-use: of all the calls that claim it, at any pace and in any
\* order, at most one is handed the payload (docs/WRITE.md: "single-use").
GrantOnce ==
    \A c, d \in Calls :
        pc[c] = "granted" /\ pc[d] = "granted" /\ loc[c].id = loc[d].id => c = d

\* What a claim hands out is what the request with that id froze, and that
\* request has returned the id: no half-made or foreign entry is ever executed
\* (docs/WRITE.md: "exactly the frozen payload").
GrantExact ==
    \A c \in Calls : pc[c] = "granted" =>
        \E d \in Calls : /\ pc[d] = "staged"
                         /\ loc[d].id = loc[c].id
                         /\ loc[d].entry = loc[c].entry

\* The claims that took the entry of id i out of the map.
Takers(i) == {c \in Calls : pc[c] \in {"claim.check", "expired", "granted"} /\ loc[c].id = i}

\* Nobody loses a staged write: from the moment a request returned its id until
\* it expires or a claim takes it, the entry is in the map.  The purge that every
\* create runs, and claims of other ids, never remove it.
LiveEntryKept ==
    \A c \in Calls :
        pc[c] = "staged" /\ now < loc[c].entry.expiresAt /\ Takers(loc[c].id) = {}
            => items[loc[c].id] = loc[c].entry

\* No call is handed a payload at or after the expiry the client was told,
\* however long it waited for the mutex.
GrantBeforeExpiry ==
    [][\A c \in Calls : pc[c] # "granted" /\ pc'[c] = "granted" =>
          now < frozen[loc[c].id].expiresAt]_vars

\* Every create and every claim returns: no path leaves the mutex locked.
CallsReturn ==
    \A c \in Calls : pc[c] \in InCreate \cup InClaim ~> pc[c] \in Returned
-----------------------------------------------------------------------------
\* The strengthening of the safety properties that every step preserves.

\* The mutex is held by exactly the call that is between Lock and Unlock.
MutexInv == \A c \in Calls : pc[c] \in Holding <=> mu = c

\* A create owns its id, and carries the entry the id was drawn for.
OwnerInv ==
    /\ \A c \in Calls : pc[c] \in InCreate \cup {"staged"} =>
          /\ loc[c].id \in ID
          /\ loc[c].entry # NoEntry
          /\ loc[c].entry = frozen[loc[c].id]
    /\ \A c, d \in Calls :
          /\ pc[c] \in InCreate \cup {"staged"}
          /\ pc[d] \in InCreate \cup {"staged"}
          /\ loc[c].id = loc[d].id
          => c = d

StagedBy(i, e) == \E d \in Calls : pc[d] = "staged" /\ loc[d].id = i /\ loc[d].entry = e

\* The map holds only entries whose create has returned.
ItemsInv == \A i \in ID : items[i] # NoEntry => StagedBy(i, items[i])

\* A claim in progress holds the entry of its id; once deleted it stays deleted.
ClaimInv ==
    \A c \in Calls :
        /\ pc[c] \in InClaim => loc[c].id \in ID
        /\ pc[c] = "claim.delete" =>
              items[loc[c].id] # NoEntry /\ items[loc[c].id] = loc[c].entry
        /\ pc[c] \in {"claim.check", "granted"} =>
              /\ loc[c].id \in ID
              /\ loc[c].entry # NoEntry
              /\ items[loc[c].id] = NoEntry
              /\ StagedBy(loc[c].id, loc[c].entry)

\* No two claims are past the deletion of one entry.
TakenOnce ==
    \A c, d \in Calls :
        /\ pc[c] \in {"claim.check", "granted"}
        /\ pc[d] \in {"claim.check", "granted"}
        /\ loc[c].id = loc[d].id
        => c = d

\* An entry expires at most one TTL from now.
ExpiryInv == \A i \in ID : frozen[i] # NoEntry => frozen[i].expiresAt <= now + ttl

IInv ==
    /\ TypeOK /\ MutexInv /\ OwnerInv /\ ItemsInv
    /\ ClaimInv /\ TakenOnce /\ LiveEntryKept /\ ExpiryInv
-----------------------------------------------------------------------------
\* The store as an implementation of TwoPhaseWrites.  An id is in use once its
\* create has returned; a claim that deleted the entry has not yet decided, so
\* the write is still staged until Check.
Made(i) == \E c \in Calls : pc[c] = "staged" /\ loc[c].id = i
Deciding(i) == \E c \in Calls : pc[c] = "claim.check" /\ loc[c].id = i
Won(i) == \E c \in Calls : pc[c] = "granted" /\ loc[c].id = i
Open(i) == items[i] # NoEntry \/ Deciding(i)

StageOf(i) ==
    CASE ~Made(i)                          -> "unused"
      [] Made(i) /\ Won(i)                 -> "running"
      [] Made(i) /\ ~Won(i) /\ Open(i)     -> "staged"
      [] Made(i) /\ ~Won(i) /\ ~Open(i)    -> "void"

StagedOf(i) == IF Made(i) THEN frozen[i].payload ELSE NoEntry
DeadlineOf(i) == IF Made(i) THEN frozen[i].expiresAt ELSE 0

Abstract == INSTANCE TwoPhaseWrites WITH
    NoPayload <- NoEntry,
    TTL       <- ttl,
    clock     <- now,
    stage     <- [i \in ID |-> StageOf(i)],
    staged    <- [i \in ID |-> StagedOf(i)],
    deadline  <- [i \in ID |-> DeadlineOf(i)]

\* The lock, the map and the two clock readings implement the two-phase promise.
ImplementsTwoPhase == Abstract!Spec
=============================================================================
