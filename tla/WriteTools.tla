----------------------------- MODULE WriteTools -----------------------------
(***************************************************************************)
(* internal/mcp/write.go over internal/mcp/confirm.go: the four request    *)
(* tools that stage a write and mail_confirm that executes it, called by   *)
(* clients in any order and at the same time, with confirmations that are  *)
(* sent again (as after a lost reply) and a process that restarts.  The    *)
(* pending store takes its own steps (module PendingStore) inside the tool *)
(* calls; the write service is a call that ends well or with an error.     *)
(*                                                                         *)
(* What the checks of a request tool accept is the subject of module       *)
(* WriteRequests: here a request is accepted with the payload it freezes,  *)
(* or rejected.                                                            *)
(***************************************************************************)
EXTENDS Integers

CONSTANTS
    RequestCalls, \* calls of the *_request tools, one goroutine each
    ConfirmCalls, \* calls of mail_confirm
    ID, NoEntry, NoId, Free, ConfiguredTTL, DefaultTTL, MaxTime,
    StagedKinds,  \* the kinds of write that are asked for
    Request,      \* normalised arguments of a write
    MaxRestarts   \* bound on the restarts of the process

VARIABLES
    now, mu, items, pc, loc, frozen,   \* the pending store
    writer,   \* t.writer # nil, fixed when the server is made
    tool,     \* where each tool call is
    reply,    \* what each call was answered
    asked,    \* history: the payload each request tool was called for
    ran,      \* history: the executions the write service was asked for
    epoch     \* history: restarts so far, and how many there were when an id was drawn

storeVars == <<now, mu, items, pc, loc, frozen>>
vars == <<now, mu, items, pc, loc, frozen, writer, tool, reply, asked, ran, epoch>>

Calls == RequestCalls \cup ConfirmCalls

\* maildomain.PendingKind*, and the WriteService method that executes each.
Payload == [kind : StagedKinds, request : Request]

Methods == {"SendMessage", "MoveMessage", "DeleteMessage", "SetFlags"}

\* Mutant: the switch has no case for flag updates.
MethodOfNoFlags(kind) ==
    CASE kind = "send" -> "SendMessage"
      [] kind = "move" -> "MoveMessage"
      [] kind = "delete" -> "DeleteMessage"
      [] kind = "set_flags" -> "none"

MethodOf(kind) ==
    CASE kind = "send" -> "SendMessage"
      [] kind = "move" -> "MoveMessage"
      [] kind = "delete" -> "DeleteMessage"
      [] kind = "set_flags" -> "SetFlags"

Store == INSTANCE PendingStore

ASSUME ToolAssumption ==
    /\ MaxRestarts \in Nat
    /\ RequestCalls \cap ConfirmCalls = {}
    /\ StagedKinds \subseteq {"send", "move", "delete", "set_flags"}
    /\ ConfiguredTTL \in Int /\ DefaultTTL \in Nat \ {0}
    /\ Free \notin Calls /\ NoId \notin ID
    /\ NoEntry \notin [payload : Payload, expiresAt : Nat]

NotAsked == [kind |-> "none"]

Executions == [call : Calls, id : ID, method : Methods, payload : Payload]

TypeOK ==
    /\ Store!TypeOK
    /\ writer \in BOOLEAN
    /\ tool \in [Calls -> {"idle", "request", "confirm", "executing", "returned", "dead"}]
    /\ reply \in [Calls -> {"none", "pending", "ok", "error"}]
    /\ asked \in [Calls -> Payload \cup {NotAsked}]
    /\ ran \subseteq Executions
    /\ epoch \in [now : Nat, born : [ID -> Nat]]

Init ==
    /\ Store!Init
    /\ writer \in BOOLEAN
    /\ tool = [c \in Calls |-> "idle"]
    /\ reply = [c \in Calls |-> "none"]
    /\ asked = [c \in Calls |-> NotAsked]
    /\ ran = {}
    /\ epoch = [now |-> 0, born |-> [i \in ID |-> 0]]
-----------------------------------------------------------------------------
\* The handler of call c ends with answer r.  Whether it reaches the client makes
\* no difference to the server: a client that missed it calls again.
Answer(c, r) ==
    /\ tool' = [tool EXCEPT ![c] = "returned"]
    /\ reply' = [reply EXCEPT ![c] = r]

\* A *_request tool whose arguments pass the checks freezes the payload p.
RequestTool(c, i, p) ==
    /\ tool[c] = "idle"
    /\ Store!Create(c, i, p)
    /\ tool' = [tool EXCEPT ![c] = "request"]
    /\ asked' = [asked EXCEPT ![c] = p]
    /\ epoch' = [epoch EXCEPT !.born[i] = epoch.now]
    /\ UNCHANGED <<writer, reply, ran>>

\* Its arguments fail a check, before the store is touched.
RequestRejected(c) ==
    /\ tool[c] = "idle"
    /\ Answer(c, "error")
    /\ UNCHANGED <<storeVars, writer, asked, ran, epoch>>

\* The store has no id to give.
RequestFailed(c) ==
    /\ tool[c] = "idle"
    /\ Store!CreateFail(c)
    /\ Answer(c, "error")
    /\ UNCHANGED <<writer, asked, ran, epoch>>

\* The client gets the id, its expiry and a summary.
RequestReturn(c) ==
    /\ tool[c] = "request"
    /\ pc[c] = "staged"
    /\ Answer(c, "pending")
    /\ UNCHANGED <<storeVars, writer, asked, ran, epoch>>
-----------------------------------------------------------------------------
\* mail_confirm without a write service does not touch the store.
ConfirmNoWriter(c) ==
    /\ tool[c] = "idle"
    /\ ~writer
    /\ Answer(c, "error")
    /\ UNCHANGED <<storeVars, writer, asked, ran, epoch>>

\* mail_confirm claims the id first, whatever it stands for.
ConfirmTool(c, i) ==
    /\ tool[c] = "idle"
    /\ writer
    /\ Store!Claim(c, i)
    /\ tool' = [tool EXCEPT ![c] = "confirm"]
    /\ UNCHANGED <<writer, reply, asked, ran, epoch>>

ConfirmInvalid(c) ==
    /\ tool[c] = "idle"
    /\ writer
    /\ Store!ClaimInvalid(c)
    /\ Answer(c, "error")
    /\ UNCHANGED <<writer, asked, ran, epoch>>

ConfirmRefused(c) ==
    /\ tool[c] = "confirm"
    /\ pc[c] \in {"unknown", "expired"}
    /\ Answer(c, "error")
    /\ UNCHANGED <<storeVars, writer, asked, ran, epoch>>

\* Mutant: a set-flags payload falls through to the delete case.
ConfirmExecuteFallsThrough(c) ==
    /\ tool[c] = "confirm"
    /\ pc[c] = "granted"
    /\ LET p == loc[c].entry.payload
           m == IF p.kind = "set_flags" THEN "DeleteMessage" ELSE MethodOf(p.kind)
       IN  ran' = ran \cup {[call |-> c, id |-> loc[c].id, method |-> m, payload |-> p]}
    /\ tool' = [tool EXCEPT ![c] = "executing"]
    /\ UNCHANGED <<storeVars, writer, reply, asked, epoch>>

\* mail_confirm hands the claimed payload to the method of its kind.
ConfirmExecute(c) ==
    /\ tool[c] = "confirm"
    /\ pc[c] = "granted"
    /\ LET p == loc[c].entry.payload
       IN  ran' = ran \cup {[call |-> c, id |-> loc[c].id,
                             method |-> MethodOf(p.kind), payload |-> p]}
    /\ tool' = [tool EXCEPT ![c] = "executing"]
    /\ UNCHANGED <<storeVars, writer, reply, asked, epoch>>

\* Mutant: an execution that failed puts its entry back for another try.
ConfirmReturnRestores(c) ==
    /\ tool[c] = "executing"
    /\ \/ Answer(c, "ok") /\ UNCHANGED items
       \/ Answer(c, "error") /\ items' = [items EXCEPT ![loc[c].id] = loc[c].entry]
    /\ UNCHANGED <<now, mu, pc, loc, frozen, writer, asked, ran, epoch>>

\* The method returns, with or without an error; the id stays used.
ConfirmReturn(c) ==
    /\ tool[c] = "executing"
    /\ Answer(c, "ok") \/ Answer(c, "error")
    /\ UNCHANGED <<storeVars, writer, asked, ran, epoch>>
-----------------------------------------------------------------------------
\* A step of the store inside a tool call.
StoreStep(c) ==
    /\ tool[c] \in {"request", "confirm"}
    /\ Store!Step(c)
    /\ UNCHANGED <<writer, tool, reply, asked, ran, epoch>>

Tick == Store!Tick /\ UNCHANGED <<writer, tool, reply, asked, ran, epoch>>

Active(c) == tool[c] \in {"request", "confirm", "executing"}

\* The process dies with its store and its calls, and a new one starts.  A call
\* stops where it is; the writes it asked for may or may not have happened.
Restart ==
    /\ epoch.now < MaxRestarts
    /\ epoch' = [epoch EXCEPT !.now = @ + 1]
    /\ items' = [i \in ID |-> NoEntry]
    /\ mu' = Free
    /\ tool' = [c \in Calls |-> IF Active(c) THEN "dead" ELSE tool[c]]
    /\ UNCHANGED <<now, pc, loc, frozen, writer, reply, asked, ran>>

Quiescent ==
    /\ \A c \in Calls : tool[c] \in {"returned", "dead"}
    /\ UNCHANGED vars

\* The steps a handler takes by itself.
Handler(c) ==
    \/ RequestReturn(c) \/ ConfirmRefused(c) \/ ConfirmExecute(c)
    \/ ConfirmReturn(c) \/ StoreStep(c)

Next ==
    \/ \E c \in RequestCalls, i \in ID, p \in Payload : RequestTool(c, i, p)
    \/ \E c \in RequestCalls : RequestRejected(c) \/ RequestFailed(c)
    \/ \E c \in ConfirmCalls, i \in ID : ConfirmTool(c, i)
    \/ \E c \in ConfirmCalls : ConfirmNoWriter(c) \/ ConfirmInvalid(c)
    \/ \E c \in Calls : Handler(c)
    \/ Tick
    \/ Restart
    \/ Quiescent

Spec == Init /\ [][Next]_vars

-----------------------------------------------------------------------------
\* No write happens twice under one confirmation, however often it is confirmed:
\* at the same time, after a lost reply, after an error, or in a new process.
ExecutedOnce == \A x, y \in ran : x.id = y.id => x = y

\* What is executed is what some request tool was called for and answered with
\* that id, by the method that goes with the tool.
ExecutedAsAsked ==
    \A x \in ran :
        /\ x.method = MethodOf(x.payload.kind)
        /\ \E d \in Calls : pc[d] = "staged" /\ loc[d].id = x.id /\ asked[d] = x.payload

\* A client that holds an id can use it: until it expires, is confirmed or the
\* process restarts, the entry is there to be claimed.
HeldIdIsLive ==
    \A c \in Calls :
        /\ reply[c] = "pending"
        /\ now < loc[c].entry.expiresAt
        /\ epoch.born[loc[c].id] = epoch.now
        /\ Store!Takers(loc[c].id) = {}
        => items[loc[c].id] = loc[c].entry

\* "confirmation expired; re-request the operation" is safe advice: the write of an
\* id that was refused as expired has not been executed and never will be, so the
\* new request cannot repeat it.
ExpiredNeverRuns ==
    \A x \in ran, c \in Calls : pc[c] = "expired" => loc[c].id # x.id
-----------------------------------------------------------------------------
\* The tools as an implementation of TwoPhaseWrites: a write runs from the claim
\* that won it to the end of its handler.  A dead call decides nothing.
Deciding(i) == \E c \in Calls : pc[c] = "claim.check" /\ loc[c].id = i /\ tool[c] = "confirm"
Running(i) == \E c \in Calls : pc[c] = "granted" /\ loc[c].id = i /\ Active(c)

StageOf(i) ==
    CASE ~Store!Made(i)                                        -> "unused"
      [] Store!Made(i) /\ Running(i)                           -> "running"
      [] Store!Made(i) /\ Store!Won(i) /\ ~Running(i)          -> "done"
      [] Store!Made(i) /\ ~Store!Won(i) /\ (items[i] # NoEntry \/ Deciding(i)) -> "staged"
      [] OTHER                                                 -> "void"

Promise == INSTANCE TwoPhaseWrites WITH
    NoPayload <- NotAsked,
    TTL       <- Store!ttl,
    clock     <- now,
    stage     <- [i \in ID |-> StageOf(i)],
    staged    <- [i \in ID |-> IF Store!Made(i) THEN frozen[i].payload ELSE NotAsked],
    deadline  <- [i \in ID |-> Store!DeadlineOf(i)]

\* The tools keep the two-phase promise.
KeepsPromise == Promise!Spec
=============================================================================
