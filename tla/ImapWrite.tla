------------------------------ MODULE ImapWrite ------------------------------
(***************************************************************************)
(* internal/imap/write.go, the mailbox operations: MoveMessage,            *)
(* DeleteMessage and SetFlags, each on an IMAP connection of its own, a    *)
(* sequence of commands that other operations and other mail clients come  *)
(* between, that the server may refuse, and that a lost connection, the    *)
(* operation's timeout or a crash of the process cuts short at any command, *)
(* with the command done or not.                                           *)
(*                                                                         *)
(* The IMAP server is not part of the repository: its commands are modelled *)
(* from how the code uses them (RFC 3501, 4315, 6851).  A UID is never used *)
(* twice and grows; one counter serves all folders.  A UID command on a    *)
(* message that is not there succeeds and does nothing.  Nothing checks    *)
(* that a request names a UID that the server has given out.  New messages *)
(* that arrive meanwhile are left out.                                     *)
(***************************************************************************)
EXTENDS Naturals, FiniteSets

CONSTANTS
    Ops,        \* confirmed operations, one connection each
    Folders,    \* the folders the server has
    Msgs,       \* messages, whatever copy of them
    NumUIDs,    \* bound on the UIDs the server gives out
    Unborn,     \* a UID not given out yet
    Gone        \* a UID whose copy was expunged or moved

ASSUME MailboxAssumption ==
    /\ NumUIDs \in Nat
    /\ Unborn # Gone

Deleted == "\\Deleted"
Seen == "\\Seen"
Flagged == "\\Flagged"

\* Mutant: the allowlist has \Deleted.
AllowedWithDeleted == {Seen, Flagged, Deleted}

\* AllowedFlags, the flags a flag update may name (two of the four).
Allowed == {Seen, Flagged}
Flags == Allowed \cup {Deleted}

UIDs == 1 .. NumUIDs
Copies == [folder : Folders, msg : Msgs, flags : SUBSET Flags]

ASSUME MarkerAssumption == {Unborn, Gone} \cap Copies = {}

Moves == {r \in [kind : {"move"}, folder : Folders, uid : UIDs, dest : Folders] :
             r.folder # r.dest}
Deletes == [kind : {"delete"}, folder : Folders, uid : UIDs]
FlagUpdates == {r \in [kind : {"set_flags"}, folder : Folders, uid : UIDs,
                         add : SUBSET Allowed, remove : SUBSET Allowed] :
                   r.add \cap r.remove = {} /\ r.add \cup r.remove # {}}
Requests == Moves \cup Deletes \cup FlagUpdates
NoRequest == [kind |-> "none"]

VARIABLES
    mail,    \* [UIDs -> Copies \cup {Unborn, Gone}] the mailbox
    caps,    \* the capabilities the server offers
    pc,      \* where each operation is
    req,     \* the frozen request each operation executes
    worked,      \* history: the operations that copied, moved or removed something
    collateral,  \* history: the UIDs that an operation on another UID removed
    touched,     \* history: the messages marked for deletion by another client or by a
                 \*   delete, or by a move of a UID that was confirmed before it was given out
    excused,     \* history: the operations on a UID that had not been given out when they
                 \*   began, or whose mark another client took off before they expunged
    clean        \* history: the UIDs whose copy was made without \Deleted

history == <<worked, collateral, touched, excused, clean>>
vars == <<mail, caps, pc, req, worked, collateral, touched, excused, clean>>
-----------------------------------------------------------------------------
(* The server.                                                             *)

Exists(m, u) == m[u] \notin {Unborn, Gone}
Here(m, f, u) == Exists(m, u) /\ m[u].folder = f

\* UIDs are given out in ascending order.
Ascending(m) == \A u, v \in UIDs : u < v /\ m[u] = Unborn => m[v] = Unborn

\* The next UID to be given out.
NextUID(m) == CHOOSE u \in UIDs : m[u] = Unborn /\ \A v \in UIDs : m[v] = Unborn => u <= v

Copied(m, f, u, d) ==
    IF Here(m, f, u) THEN [m EXCEPT ![NextUID(m)] = [m[u] EXCEPT !.folder = d]] ELSE m

Moved(m, f, u, d) ==
    IF Here(m, f, u) THEN [Copied(m, f, u, d) EXCEPT ![u] = Gone] ELSE m

FlagsAdded(m, f, u, F) ==
    IF Here(m, f, u) THEN [m EXCEPT ![u].flags = @ \cup F] ELSE m

FlagsRemoved(m, f, u, F) ==
    IF Here(m, f, u) THEN [m EXCEPT ![u].flags = @ \ F] ELSE m

\* The copies of folder f that an expunge of the UIDs U removes.
Expungeable(m, f, U) == {u \in U : Here(m, f, u) /\ Deleted \in m[u].flags}
Expunged(m, f, U) == [u \in UIDs |-> IF u \in Expungeable(m, f, U) THEN Gone ELSE m[u]]
-----------------------------------------------------------------------------
TypeOK ==
    /\ mail \in [UIDs -> Copies \cup {Unborn, Gone}]
    /\ caps \subseteq {"MOVE", "UIDPLUS"}
    /\ pc \in [Ops -> {"idle", "select", "move", "store", "expunge", "expunge.all",
                       "flags.add", "flags.remove", "ok", "error"}]
    /\ req \in [Ops -> {NoRequest} \cup Requests]
    /\ worked \subseteq Ops
    /\ collateral \subseteq UIDs
    /\ touched \subseteq Msgs
    /\ excused \subseteq Ops
    /\ clean \subseteq UIDs

\* Every message is in some folder, once, flagged and not seen.
Init ==
    /\ mail \in {m \in [UIDs -> [folder : Folders, msg : Msgs, flags : {{Flagged}}] \cup {Unborn}] :
                    /\ \A x \in Msgs : Cardinality({u \in UIDs : Exists(m, u) /\ m[u].msg = x}) = 1
                    /\ Ascending(m)}
    /\ caps \in SUBSET {"MOVE", "UIDPLUS"}
    /\ pc = [o \in Ops |-> "idle"]
    /\ req = [o \in Ops |-> NoRequest]
    /\ worked = {}
    /\ collateral = {}
    /\ touched = {}
    /\ excused = {}
    /\ clean = {u \in UIDs : Exists(mail, u)}

\* The copy an operation is about, if it is still where the request says.
Target(o) == mail[req[o].uid]
Pending(o) == Here(mail, req[o].folder, req[o].uid)

Goto(o, label) == pc' = [pc EXCEPT ![o] = label]

\* Command of operation o with effect m on the mailbox: it succeeds and o goes on
\* at label; or it is refused and o returns the error; or the connection is lost
\* (by itself, by the timeout's cleanup or by a crash) after the effect or before it.
Command(o, m, label) ==
    \/ mail' = m /\ Goto(o, label)
    \/ mail' \in {mail, m} /\ Goto(o, "error")

\* History: the operation has had an effect, on its own copy and maybe on others, and
\* may have made a copy.
Record(o) ==
    /\ worked' = IF mail' # mail THEN worked \cup {o} ELSE worked
    /\ collateral' = collateral \cup
                       {u \in UIDs : Exists(mail, u) /\ mail'[u] = Gone /\ u # req[o].uid}
    /\ clean' = clean \cup {u \in UIDs : /\ mail[u] = Unborn /\ Exists(mail', u)
                                         /\ Deleted \notin mail'[u].flags}
    /\ UNCHANGED <<touched, excused>>
-----------------------------------------------------------------------------
(* The operations.                                                         *)

\* A confirmed request passes the checks and the operation dials the server.
Begin(o, r) ==
    /\ pc[o] = "idle"
    /\ req' = [req EXCEPT ![o] = r]
    /\ excused' = IF mail[r.uid] = Unborn THEN excused \cup {o} ELSE excused
    /\ Goto(o, "select")
    /\ UNCHANGED <<mail, caps, worked, collateral, touched, clean>>

\* The first command on the selected folder.
FirstStep(r) ==
    CASE r.kind = "move" -> "move"
      [] r.kind = "delete" -> "store"
      [] r.kind = "set_flags" /\ r.add # {} -> "flags.add"
      [] OTHER -> "flags.remove"

\* connectSelectedWrite: dial, log in, select the folder read-write.
Select(o) ==
    /\ pc[o] = "select"
    /\ Goto(o, FirstStep(req[o])) \/ Goto(o, "error")
    /\ UNCHANGED <<mail, caps, req, history>>

\* A copy needs a UID within the bound.
RoomFor(o) == Here(mail, req[o].folder, req[o].uid) => \E u \in UIDs : mail[u] = Unborn

\* MOVE, if the server says that it has it.
MoveCommand(o) ==
    /\ pc[o] = "move"
    /\ "MOVE" \in caps
    /\ RoomFor(o)
    /\ Command(o, Moved(mail, req[o].folder, req[o].uid, req[o].dest), "ok")
    /\ Record(o)
    /\ UNCHANGED <<caps, req>>

\* Mutant: the fallback marks the source before it has copied it.
CopyCommandSkipped(o) ==
    /\ pc[o] = "move"
    /\ Goto(o, "store")
    /\ UNCHANGED <<mail, caps, req, history>>

\* COPY, if it does not, or if the CAPABILITY command failed.
CopyCommand(o) ==
    /\ pc[o] = "move"
    /\ RoomFor(o)
    /\ Command(o, Copied(mail, req[o].folder, req[o].uid, req[o].dest), "store")
    /\ Record(o)
    /\ UNCHANGED <<caps, req>>

\* storeAdd: STORE +FLAGS.SILENT (\Deleted)
StoreDeleted(o) ==
    /\ pc[o] = "store"
    /\ Command(o, FlagsAdded(mail, req[o].folder, req[o].uid, {Deleted}), "expunge")
    /\ touched' = IF mail' # mail /\ (req[o].kind = "delete" \/ o \in excused)
                  THEN touched \cup {Target(o).msg} ELSE touched
    /\ UNCHANGED <<caps, req, worked, collateral, excused, clean>>

\* expungeUID: UID EXPUNGE, if the server says that it has it ...
ExpungeUID(o) ==
    /\ pc[o] = "expunge"
    /\ "UIDPLUS" \in caps
    /\ Command(o, Expunged(mail, req[o].folder, {req[o].uid}), "ok")
    /\ Record(o)
    /\ UNCHANGED <<caps, req>>

\* Mutant: a UID EXPUNGE that was refused is taken for done.
ExpungeFallbackSkipped(o) ==
    /\ pc[o] = "expunge"
    /\ Goto(o, "ok")
    /\ UNCHANGED <<mail, caps, req, history>>

\* ... and EXPUNGE if it does not, or refused either command.
ExpungeFallback(o) ==
    /\ pc[o] = "expunge"
    /\ Goto(o, "expunge.all")
    /\ UNCHANGED <<mail, caps, req, history>>

ExpungeAll(o) ==
    /\ pc[o] = "expunge.all"
    /\ Command(o, Expunged(mail, req[o].folder, UIDs), "ok")
    /\ Record(o)
    /\ UNCHANGED <<caps, req>>

\* Mutant: flags are removed only if none were added.
AddFlagsOnly(o) ==
    /\ pc[o] = "flags.add"
    /\ Command(o, FlagsAdded(mail, req[o].folder, req[o].uid, req[o].add), "ok")
    /\ UNCHANGED <<caps, req, history>>

AddFlags(o) ==
    /\ pc[o] = "flags.add"
    /\ Command(o, FlagsAdded(mail, req[o].folder, req[o].uid, req[o].add),
               IF req[o].remove # {} THEN "flags.remove" ELSE "ok")
    /\ UNCHANGED <<caps, req, history>>

RemoveFlags(o) ==
    /\ pc[o] = "flags.remove"
    /\ Command(o, FlagsRemoved(mail, req[o].folder, req[o].uid, req[o].remove), "ok")
    /\ UNCHANGED <<caps, req, history>>
-----------------------------------------------------------------------------
(* Other mail clients of the same account.                                 *)

OtherMarks(u) ==
    /\ Exists(mail, u)
    /\ Deleted \notin mail[u].flags
    /\ mail' = [mail EXCEPT ![u].flags = @ \cup {Deleted}]
    /\ touched' = touched \cup {mail[u].msg}
    /\ UNCHANGED <<caps, pc, req, worked, collateral, excused, clean>>

\* Somebody wants to keep the message after all.
OtherUnmarks(u) ==
    /\ Exists(mail, u)
    /\ Deleted \in mail[u].flags
    /\ mail' = [mail EXCEPT ![u].flags = @ \ {Deleted}]
    /\ excused' = excused \cup {o \in Ops : pc[o] \in {"expunge", "expunge.all"} /\ req[o].uid = u}
    /\ UNCHANGED <<caps, pc, req, worked, collateral, touched, clean>>

OtherExpunges(f) ==
    /\ Expungeable(mail, f, UIDs) # {}
    /\ mail' = Expunged(mail, f, UIDs)
    /\ UNCHANGED <<caps, pc, req, history>>

Quiescent ==
    /\ \A o \in Ops : pc[o] \in {"ok", "error"}
    /\ UNCHANGED vars

Step(o) ==
    \/ Select(o)
    \/ MoveCommand(o) \/ CopyCommand(o)
    \/ StoreDeleted(o)
    \/ ExpungeUID(o) \/ ExpungeFallback(o) \/ ExpungeAll(o)
    \/ AddFlags(o) \/ RemoveFlags(o)

Next ==
    \/ \E o \in Ops, r \in Requests : Begin(o, r)
    \/ \E o \in Ops : Step(o)
    \/ \E u \in UIDs : OtherMarks(u) \/ OtherUnmarks(u)
    \/ \E f \in Folders : OtherExpunges(f)
    \/ Quiescent

Spec == Init /\ [][Next]_vars
-----------------------------------------------------------------------------
\* The copies of message x that no expunge can take.
Safe(x) == {u \in UIDs : Exists(mail, u) /\ mail[u].msg = x /\ Deleted \notin mail[u].flags}

\* No message is lost: a message that nobody marked for deletion but moves of copies
\* that were there when they were confirmed keeps a copy that is not marked, whatever
\* moves and flag updates run at the same time, wherever they are cut off, and whoever
\* takes marks off or expunges the folder.
NoLoss == \A x \in Msgs \ touched : Safe(x) # {}

\* "moved": true and "deleted": true mean that the copy is no longer there, unless another
\* client took the mark off between STORE and EXPUNGE, or nobody had such a UID when the
\* operation began.  The operations themselves never take each other's marks off.
OkMeansGone ==
    \A o \in Ops \ excused :
        pc[o] = "ok" /\ req[o].kind \in {"move", "delete"} => ~Pending(o)

\* No other flag update is about the same message.
Alone(o) ==
    \A p \in Ops \ {o} : req[p].kind = "set_flags" => req[p].uid # req[o].uid

\* A flag update that reports success left the message, if it is there, with every
\* flag it was to add and none it was to remove, unless another update came between.
FlagsApplied ==
    \A o \in Ops \ excused :
        pc[o] = "ok" /\ req[o].kind = "set_flags" /\ Pending(o) /\ Alone(o)
        => req[o].add \subseteq Target(o).flags /\ req[o].remove \cap Target(o).flags = {}

\* A move or a delete removes the one UID that was confirmed: docs/WRITE.md, "Stage
\* permanent delete of one UID"; internal/imap/write.go, "DeleteMessage permanently
\* deletes one message".  Whatever an operation removed was confirmed for removal.
OnlyConfirmedRemoved ==
    \A u \in collateral : \E o \in Ops : req[o].kind \in {"move", "delete"} /\ req[o].uid = u

\* A move that reports "moved": true moved something: internal/imap/write.go,
\* "MoveMessage moves one message to another existing folder".
OkMeansMoved ==
    \A o \in Ops : pc[o] = "ok" /\ req[o].kind = "move" => o \in worked
-----------------------------------------------------------------------------
\* The copies of message x that were made without a mark.
Originals(x) == {u \in clean : Exists(mail, u) /\ mail[u].msg = x}

\* The strengthening of NoLoss: the latest of them has no mark.
LatestSafe ==
    \A x \in Msgs \ touched :
        \E v \in Originals(x) \cap Safe(x) : \A u \in Originals(x) : u <= v

\* What keeps it so: a move is about to mark a copy that is not the latest, since it has
\* made a later one, or that had a mark when it was made.
CopiedFirst ==
    \A o \in Ops \ excused :
        /\ pc[o] = "store" /\ req[o].kind = "move" /\ Pending(o)
        /\ Target(o).msg \notin touched
        /\ req[o].uid \in clean
        => \E v \in Originals(Target(o).msg) : req[o].uid < v

\* An operation is at a command of its own kind, about a UID that was given out, or else
\* it is excused; what is about to be expunged is marked, or else it is excused; and flags
\* that are to be removed are so after those to be added were.
OperationInv(o) ==
    /\ IF pc[o] = "idle" THEN req[o] = NoRequest /\ o \notin excused ELSE req[o] \in Requests
    /\ pc[o] = "move" => req[o].kind = "move"
    /\ pc[o] \in {"store", "expunge", "expunge.all"} => req[o].kind \in {"move", "delete"}
    /\ pc[o] \in {"flags.add", "flags.remove"} => req[o].kind = "set_flags"
    /\ o \notin excused =>
        /\ pc[o] # "idle" => Target(o) # Unborn
        /\ pc[o] \in {"expunge", "expunge.all"} /\ Pending(o) => Deleted \in Target(o).flags
        /\ pc[o] = "flags.remove" /\ Pending(o) /\ Alone(o) => req[o].add \subseteq Target(o).flags

\* The inductive invariant: what the promises above rest on, for any number of
\* operations, folders, messages and UIDs.
IInv ==
    /\ TypeOK
    /\ Ascending(mail)
    /\ \A u \in clean : mail[u] # Unborn
    /\ \A o \in Ops : OperationInv(o)
    /\ LatestSafe
    /\ CopiedFirst
    /\ OkMeansGone
    /\ FlagsApplied
=============================================================================
