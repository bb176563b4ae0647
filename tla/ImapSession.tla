------------------------------ MODULE ImapSession ------------------------------
(***************************************************************************)
(* internal/imap/backend.go, connect and connectSelected: the life of the  *)
(* connection of one operation.  Two goroutines share it: the handler of   *)
(* the call, which waits for the answer to one IMAP command at a time, and *)
(* a watcher that closes the connection when the context of the operation  *)
(* ends.  Both close it through cleanup, whose body a sync.Once runs once  *)
(* while whoever comes second waits for it.                                *)
(*                                                                         *)
(* Only the closing makes a command fail that the server never answers.    *)
(* What the commands are for is left to the module that composes this one. *)
(***************************************************************************)
EXTENDS Naturals

CONSTANTS
    Commands,   \* the IMAP commands an operation may wait for
    Connect     \* the command that follows the dial (LOGIN)

ASSUME CommandAssumption ==
    /\ Connect \in Commands
    /\ Commands \cap {"idle", "returned", "dial", "cleanup"} = {}

VARIABLES
    pc,         \* the handler: the command it waits for, or where it is otherwise
    ctx,        \* ctx.Done() is closed: the deadline, the caller, or the deferred cancel
    done,       \* the channel done is closed
    once,       \* sync.Once: not used, run by one of the two, or over
    conn,       \* the connection
    watcher     \* the watcher goroutine

sessionVars == <<pc, ctx, done, once, conn, watcher>>

Idle == {"idle", "returned"}

SessionTypeOK ==
    /\ pc \in Idle \cup {"dial", "cleanup"} \cup Commands
    /\ ctx \in BOOLEAN /\ done \in BOOLEAN
    /\ once \in {"free", "handler", "watcher", "over"}
    /\ conn \in {"none", "open", "closed"}
    /\ watcher \in {"none", "waiting", "cleanup"}

SessionInit ==
    /\ pc = "idle"
    /\ ctx = TRUE
    /\ done = FALSE
    /\ once = "free"
    /\ conn = "none"
    /\ watcher = "none"
-----------------------------------------------------------------------------
\* An operation starts, with a context and a connection of its own.  (Operations share
\* nothing; the watcher of the one before is let go first to keep one set of variables.)
Begin ==
    /\ pc \in Idle
    /\ watcher = "none"
    /\ pc' = "dial"
    /\ ctx' = FALSE
    /\ done' = FALSE
    /\ once' = "free"
    /\ conn' = "none"
    /\ UNCHANGED watcher

\* DialTLS: the dialer has a timeout of its own and does not look at ctx.
Dialled ==
    /\ pc = "dial"
    /\ pc' = Connect
    /\ conn' = "open"
    /\ watcher' = "waiting"
    /\ UNCHANGED <<ctx, done, once>>

DialFails ==
    /\ pc = "dial"
    /\ pc' = "returned"
    /\ ctx' = TRUE
    /\ UNCHANGED <<done, once, conn, watcher>>

\* The server answers the command; the handler goes on to the next one, or has
\* what it wants and runs the deferred calls.
Reply(next) ==
    /\ pc \in Commands
    /\ conn = "open"
    /\ pc' = next
    /\ UNCHANGED <<ctx, done, once, conn, watcher>>

\* The command fails: refused, or the connection broke or was closed.
CommandFails ==
    /\ pc \in Commands
    /\ pc' = "cleanup"
    /\ UNCHANGED <<ctx, done, once, conn, watcher>>

\* The client library fails what is pending on a connection that was closed.
FailsClosed == conn = "closed" /\ CommandFails

\* The deadline passes, or the caller of the operation goes away.
CtxEnds ==
    /\ pc \notin Idle
    /\ ~ctx
    /\ ctx' = TRUE
    /\ UNCHANGED <<pc, done, once, conn, watcher>>
-----------------------------------------------------------------------------
\* Mutant: the watcher looks at its own channel only.
WatcherWakesNever ==
    /\ watcher = "waiting"
    /\ ctx /\ done
    /\ watcher' = "cleanup"
    /\ UNCHANGED <<pc, ctx, done, once, conn>>

\* The select of the watcher; with both channels closed, either case.
WatcherWakes ==
    /\ watcher = "waiting"
    /\ ctx
    /\ watcher' = "cleanup"
    /\ UNCHANGED <<pc, ctx, done, once, conn>>

WatcherDone ==
    /\ watcher = "waiting"
    /\ done
    /\ watcher' = "none"
    /\ UNCHANGED <<pc, ctx, done, once, conn>>

InCleanup(who) == IF who = "handler" THEN pc = "cleanup" ELSE watcher = "cleanup"

\* once.Do: the first one in runs the body, which closes done and then the connection.
EnterOnce(who) ==
    /\ InCleanup(who)
    /\ once = "free"
    /\ once' = who
    /\ done' = TRUE
    /\ UNCHANGED <<pc, ctx, conn, watcher>>

CloseConn(who) ==
    /\ once = who
    /\ conn' = "closed"
    /\ once' = "over"
    /\ UNCHANGED <<pc, ctx, done, watcher>>

\* Mutant: a flag in place of the sync.Once: who comes second does not wait.
OncePassedFlag == once # "free"

\* once.Do returns when its body has run, to the second caller too.
OncePassed == once = "over"

\* The call returns: cleanup has run, the deferred cancel ends ctx.
HandlerReturns ==
    /\ pc = "cleanup"
    /\ OncePassed
    /\ pc' = "returned"
    /\ ctx' = TRUE
    /\ UNCHANGED <<done, once, conn, watcher>>

WatcherEnds ==
    /\ watcher = "cleanup"
    /\ OncePassed
    /\ watcher' = "none"
    /\ UNCHANGED <<pc, ctx, done, once, conn>>

\* The end of the process takes the connection and the goroutines with it.
EndSession ==
    /\ pc' = "idle"
    /\ ctx' = TRUE
    /\ done' = FALSE
    /\ once' = "free"
    /\ conn' = "none"
    /\ watcher' = "none"

Closing ==
    \/ \E who \in {"handler", "watcher"} : EnterOnce(who) \/ CloseConn(who)
    \/ HandlerReturns

Watching == WatcherWakes \/ WatcherDone \/ WatcherEnds

SessionNext ==
    \/ EndSession \/ Begin \/ Dialled \/ DialFails \/ CommandFails \/ CtxEnds \/ Closing \/ Watching
    \/ \E next \in Commands \cup {"cleanup"} : Reply(next)

SessionSpec == SessionInit /\ [][SessionNext]_sessionVars
-----------------------------------------------------------------------------
\* A call that has returned leaves no connection open behind it, whichever of the two
\* goroutines closes it and however the call ended.
NoConnectionLeft == pc \in Idle => conn # "open"

\* The state of the once, the channel and the connection go together, and whoever is in
\* the body of the once is in cleanup; with SessionTypeOK it is inductive.
SessionInv ==
    /\ SessionTypeOK
    /\ done <=> once # "free"
    /\ conn = "closed" <=> once = "over"
    /\ once \in {"handler", "watcher"} => InCleanup(once)
    /\ pc = "dial" => conn = "none"
    /\ pc \in Commands \cup {"cleanup"} => conn # "none"
    /\ conn = "none" => watcher = "none" /\ once = "free"
    /\ NoConnectionLeft
=============================================================================
