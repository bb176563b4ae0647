# A TLA+ model of workmail-mcp

workmail-mcp is an MCP server that gives a language-model client access to one
mailbox: reads over IMAPS, and writes (send, move, delete, flags) that are staged
first and executed only when the client confirms them. This directory holds TLA+
modules for the parts where the order of steps matters, TLC configurations that
check them on small instances, and TLAPS proofs for every instance where they can
be had. All paths below are relative to the repository (`src/`).

## 1. The system

| Component | State it keeps | Operations | Talks to |
| --- | --- | --- | --- |
| pending store (`internal/mcp/confirm.go`) | a map from confirmation id to frozen payload and expiry, a mutex | `create` (purges lapsed entries), `claim` | called by the write tools |
| MCP write tools (`internal/mcp/write.go`, `server.go`) | none beyond the store; one goroutine per call | `mail_send_request`, `mail_move_request`, `mail_delete_request`, `mail_set_flags_request`, `mail_confirm` | the store, the write backend |
| write request checks (`internal/mail/write.go`) | none (pure) | `NormalizeFolder`, `ValidateUID`, `ParseAddresses`, `ValidateSend`, `NormalizeFlags` | called by the tools and again by the backend |
| IMAP write backend (`internal/imap/write.go`) | one connection per operation | `MoveMessage`, `DeleteMessage`, `SetFlags` | the IMAP server, shared with other mail clients |
| SMTP send (`internal/imap/write.go`) | one connection per send | `SendMessage`, `sendSMTP` | the SMTP server |
| thread reconstruction (`internal/imap/backend.go`) | queue and seen sets of one call | `GetThread` | the IMAP server |
| IMAP connection (`internal/imap/backend.go`) | connection, watcher goroutine, `sync.Once` cleanup | `connect`, `connectSelected` | the IMAP server |
| IMAP reads (`internal/imap/backend.go`) | none between calls | `ListFolders`, `Stats`, `Search`, `GetMessage`, `GetAttachment`, `Doctor` | the IMAP server, the MIME parser |
| MIME parser (`internal/mail/parser.go`) | none (pure) | `ParseRaw` | |
| MCP read tools (`internal/mcp/server.go`) | none | the seven read tools | the read backend |
| configuration (`internal/config`) | immutable after `Load` | `Load`, `Validate*` | all |
| transport (`internal/mcp/http.go`, `internal/auth`) | HTTP server | `RunHTTP`, `RunStdio`, bearer check | MCP clients |
| command line (`cmd/workmail`) | none | `stdio`, `serve`, `doctor`, `token` | all |

A write travels like this: arguments → request tool (checks, normalises) → pending
store → *the user looks at the summary* → `mail_confirm` → `claim` → backend
(checks and normalises again) → IMAP or SMTP commands → reply.

What is hard here:

* **Concurrency.** Tool calls are goroutines that share the store; two confirmations
  of the same id may be in flight. IMAP operations share the mailbox with each
  other and with every other mail client of the user.
* **Time.** `create` stamps the expiry before it waits for the mutex; `claim` judges
  it after it has waited and looked up.
* **Partial failure.** A move without the MOVE extension is COPY, STORE, EXPUNGE; a
  flag update is up to two STOREs; an SMTP send is a dialogue. Refusals, timeouts,
  lost connections and crashes fall between any two commands.
* **Retries.** A client that lost a reply confirms again, or requests again.
* **Stale references.** The UID that was confirmed may be gone; a message found by a
  search may be gone when it is fetched; the index of an attachment is used in a later
  call than the one that gave it.
* **Standstill.** A server may stop answering at any command. Reads have a watcher that
  closes the connection at the deadline, sends have nothing.
* **Limits.** A body is clipped, an attachment refused, a search cut to the newest, each
  at a limit from the environment.

`PROJECT.json` lists each hazard at its line, with the properties that cover it or
the reason why none does.

## 2. The modules

| Module | Models | State ↔ code |
| --- | --- | --- |
| `TwoPhaseWrites` | nothing by itself: the promise of the two-phase protocol. A write is staged with a deadline, begun once before it, finished; or it lapses, or is forgotten by a restart | |
| `PendingStore` | `confirm.go`, one action per step between two accesses to shared state | `mu`, `items` are the fields of `pendingStore`; `loc[c]` the locals of a call; `now` the clock; `frozen` is a history variable |
| `WriteTools` | the tools of `mcp/write.go` over `INSTANCE PendingStore`, restarts | `tool[c]`, `reply[c]` where a handler is and what it answered; `ran`, `asked`, `epoch` are history |
| `WriteRequests` | the path of one write's *arguments*: tool checks, frozen payload, backend checks, wire | `asked`, `frozen`, `wire` |
| `ImapWrite` | `MoveMessage`, `DeleteMessage`, `SetFlags` as sequences of commands on a mailbox | `mail` is the server's mailbox, `pc`/`req` the operations; `worked`, `collateral`, `touched` are history |
| `SmtpSend` | `SendMessage`/`sendSMTP` against a server that accepts, refuses, breaks off or stalls | `pc` is the reply waited for; `accepted`, `delivered` the server's transaction |
| `ThreadWalk` | `GetThread` | `queue`, `seenID`, `seenUID`, `fetching`, `result` are its locals; `headers`, `present` the folder |
| `ImapSession` | `connect`, `connectSelected`: the connection of one read between its handler and its watcher | `pc` the command the handler waits for, `watcher` the goroutine; `ctx`, `done` the channels, `once` the `sync.Once`, `conn` the connection |
| `MimeParser` | `ParseRaw`, as operators on a message's parts | no state |
| `ReadTools` | the read tools of `mcp/server.go` and the operations of `imap/backend.go` behind them (but `GetThread`), over `ImapSession` and `MimeParser` | `request`, `found`, `answer` are a call's arguments, locals and result; `messages`, `present` the folder; `cfg` the configuration |
| `Settings` | `config.Load`, its defaults and secrets, `Validate*`, as operators on an environment | no state |
| `Workmail` | `cmd/workmail/main.go`, `mcp/http.go` over `ReadTools` and `Settings`: the process from its start to its end | `phase` is the command that runs; `signal` an interrupt; `sending` a confirmed send in flight; `world` what the process finds |
| `PendingStoreProofs`, `WriteToolsProofs`, `WriteRequestsProofs`, `ImapWriteProofs`, `SmtpSendProofs`, `ThreadWalkProofs`, `WorkmailProofs` | the theorems about the modules they are named after; `WorkmailProofs` has those of `ImapSession`, `MimeParser` and `ReadTools` too | |
| `ListFacts` | lemmas about folds and lists that the proofs share | |
| `MC*` | instances for TLC | |

`WriteTools` composes the tools with the store: every step of a call is either a
step of its handler or a step of `PendingStore` inside it, so all interleavings of
the store are interleavings of the tools. Both `PendingStore` and `WriteTools` are
shown to implement `TwoPhaseWrites`: the store under the reading that a granted
claim is the begin of a write, the tools with the executing handler as the running
write, with writes that fail and processes that restart.

`Workmail` composes the rest: `Load` gives the configuration that the tools compare
with, every command of a read is a step of its `ImapSession`, what a fetched message
becomes is `ParseRaw`'s, and the process may end under all of them. Of the calls that
are in flight at once it follows one read, since reads share nothing but the
configuration, which does not change, and says of a send only that it may never end
(the dialogue is `SmtpSend`).

The refinement of `TwoPhaseWrites` says little of purges: its `Restart`, which may always
happen, forgets everything staged, so a purge of too much would pass for one.
`LiveEntryKept` and `HeldIdIsLive` say that a purge drops nothing that can still be
confirmed.

Abstractions: a confirmation id is drawn fresh (128 random bits do not repeat); a
client may pass any id to a claim, also one it only guessed. Strings are records of
what the checks distinguish (blank, padded, upper case, malformed, parses as an
address). The audit log, the wording of summaries and errors, and message bodies are
left out. Servers are external: their commands are modelled from how the code uses
them, and UIDs are never reused, as IMAP has it while UIDVALIDITY stays the same.
`smtp.PlainAuth`'s exception for localhost is left out. Times count half days, so that a
bound within a day differs from one between days. A part of a message is what its
headers make of it, the length of its decoded content and whether go-message can decode
it. A setting is unset, malformed or a value; a token or an address passes the check of
its form or does not.

## 3. The runs

| Run | Instance | Checks |
| --- | --- | --- |
| `store` | 3 calls, 2 ids, 2 payloads, TTL 2, clock to 3 | `GrantOnce`, `GrantExact`, `LiveEntryKept`, the inductive invariant `IInv`, `GrantBeforeExpiry`, every call returns, `ImplementsTwoPhase` |
| `tools` | 2 request and 2 confirm calls, 2 ids, moves and flag updates, TTL 1, 1 restart | `ExecutedOnce`, `ExecutedAsAsked`, `HeldIdIsLive`, `ExpiredNeverRuns`, `KeepsPromise` (refinement) |
| `requests` | all arguments over 2 folder words, 3 flag words, 2 addresses, lists up to 2 | `FrozenIsExecuted`, `MoveChangesFolder`, `FlagsAsAsked`, `BccOnlyInEnvelope` |
| `imap` | 2 operations, 2 folders, 1 message, 4 UIDs, other clients mark, unmark and expunge | `NoLoss`, `OkMeansGone`, `FlagsApplied`, the inductive invariant `IInv` (types included) |
| `smtp` | 1 to 3 recipients, one possibly blank, all server behaviours | `AllRecipientsOrNone`, `ReceiptMeansDelivered`, `AnnouncedInv` |
| `thread` | 324 folders of 3 messages, limits 2, 4 and one out of range, one message expunged meanwhile | `ThreadBounded`, `ThreadConnected`, `ThreadComplete`, `WalkReturns` |
| `workmail` | 184 worlds (below); every world a command, an environment, a folder and the calls its client makes | `NoConnectionLeft`, `CallEnds`, `BodiesAsSent`, `IndexNamesAttachment`, `SearchNewest`, `SendSettingsSuffice`, `ShutdownEnds` |
| `requests_blank`, `imap_expunge`, `imap_stale`, `smtp_stall`, `thread_start` | as above | one statement of a doc or comment each, which the code does not keep (section 5) |

Why the bounds are enough. Calls of the store are one-shot, and its hazards need two
racing claims and the create that made their id, or a purge meeting a claim: three
calls. The clock passes an expiry while a call waits for the mutex. In `tools` two
ids and two confirmations give the double confirmation, the confirmation after an
expiry, and one that arrives in a new process; a third confirmation of an id finds
what the second found. In `imap` two operations give every pair of kinds on one message,
on the same copy of it or on the copy that the other makes, or on a UID that is not given
out yet; each property of the run speaks of one message at a time, and four UIDs are one
more than one message and two copies need (`RoomFor`, the named bound, is never short).
`imap_expunge` and `imap_stale` have two messages, since there one operation removes what
another is about. In `thread` three messages are the least for a chain with its middle
missing, for a fork and for a cycle longer than two steps back; one identifier is a
substring of another, so a search finds more than it is meant to.

The worlds of `workmail` are of three sorts. *Bodies*: a folder of one message, with every
sequence of up to two parts out of nine (empty, short and long texts, HTML, attachments
at and above the attachment limit, a named text, an odd text, an undecodable part) and
some of three, under limits of 4 for a body, 2 for an attachment and 6 for a message,
with sizes that the server reports rightly or wrongly. Two parts are the least for a
body to be continued and for an index to be shifted, three for a body that is full,
separator included, before its last part; the limits are small, so that lengths fall
below, at and above each of them. *Searches*: three messages on three days, bounds
between days and within one, limits below and above what is found, and a message
removed between search and fetch. *Starts*: each command with each setting missing,
malformed, out of range or at odds with another. In all of them the server may stop at
any command, the dial may fail, the deadline may pass at any time and an interrupt come.

Symmetry is used where the sets are only compared for equality (`MCWriteTools`,
`MCImapWrite`) and never in a run with a liveness property. `requests` may stop (one
write is followed from start to end) and says `CHECK_DEADLOCK FALSE`; the other
modules end in an explicit stutter (`Quiescent`, `Returned`), so that TLC reports
every other standstill.

### Fairness

* `PendingStore!FairSpec`: every call that can take a step does so eventually: weak
  fairness of all its steps, the lock steps too. That is enough because calls are
  one-shot: the mutex is taken by each call at most once, and is free for good in the
  end. Goroutines are scheduled, and Go's `sync.Mutex` hands the lock to a waiter that
  has starved for 1 ms. No call is obliged to be made.
* `SmtpSend!TimedSpec`, in `smtp_stall` only: the dial ends (its timeout sees to it) and
  time passes. Nothing is assumed of the server, since the code has nothing that would
  make it answer or close the connection; that a send ends is claimed by no passing run.
* `ThreadWalk!FairSpec`: a command is answered or fails; the watcher in `connect`
  closes the connection at the deadline, which fails it. `CallEnds` is that argument for
  the other reads, made in full.
* `Workmail!Fairness`: the dialer gives up (its timeout), the deadline of an operation
  passes, goroutines run (the watcher, whoever is in the cleanup, the doctor), a pending
  command of a closed connection fails (go-imap's reader does that), and `RunHTTP` leaves
  `Shutdown` after 5 s at the latest. *Nothing* is assumed of the server, which need not
  answer, nor of a send, which need not end. `ShutdownEnds` leaves out `stdio`: how
  `server.Run` ends on an interrupt is the library's.

## 4. The proofs

`PendingStoreProofs` proves for any sets of calls, ids and payloads, any configured
TTL and any bound on the clock, from `StoreAssumption` alone (which says that the
markers for "no entry", "no id" and "free" are none of the values they stand beside):

* `TypeCorrect`, `SingleUse`, `ExactPayload`, `StagedUntilExpiry`: the invariants
  `TypeOK`, `GrantOnce`, `GrantExact`, `LiveEntryKept`;
* `InTime`: the action property `GrantBeforeExpiry`;
* `ImplementsTwoPhaseWrites`: every behaviour of the store is, under the refinement
  mapping, a behaviour of `TwoPhaseWrites`.

`GrantOnce` is not inductive: that two claims never both pass the lookup follows from
where an entry *is*. The strengthening `IInv` says that an entry is in one place at a
time: with the create that drew its id (`OwnerInv`), then in the map (`ItemsInv`),
then with the single claim that deleted it (`ClaimInv`, `TakenOnce`), and that
nobody but the holder of the mutex is between Lock and Unlock (`MutexInv`), which is
what keeps a lookup and its delete together. `LiveEntryKept` and `ExpiryInv` tie the
map to the clock. `InitInv`, `StepInv` (one step per action, one sub-step per
conjunct) and `Invariance` make it an invariant; the theorems are corollaries.
For the refinement, `Invisible` shows that steps which only move a call or the mutex
leave the abstract state alone, `AbstractInit` and `AbstractStep` map the rest.

`ImapWriteProofs` proves for any number of operations, folders, messages and UIDs,
from `MailboxAssumption` and `MarkerAssumption` (the marks for "not given out" and
"gone" are none of the copies): `NothingLost` (`NoLoss`), `SuccessMeansGone`
(`OkMeansGone`) and `UpdatesApplied` (`FlagsApplied`). Other clients mark, unmark and
expunge at any time, and an operation may name a UID that is not given out yet, so the
promises are about operations that are not `excused`, and about messages that nobody but
moves marked (`touched` has the others). `NoLoss` is not inductive: when the STORE of
`\Deleted` runs, the model must remember that the COPY before it left a copy. It is not
enough to say that a copy without a mark exists: two moves of two copies of one message
could each rely on the copy that the other is about to mark; and a copy that was marked
when it was made may be unmarked and be relied on by nobody. `LatestSafe` says that of the
copies that were made without a mark (`clean`), the one with the highest UID has none now.
`CopiedFirst` says why no move takes that from it: a move at its STORE has made a later
copy than the one it marks, or the one it marks was not clean.
That needs `Ascending` (a new UID is later than all before it; `NextUIDFacts` takes the
least element from the well-foundedness of `<`), and `OperationInv`, which ties the
command an operation is at to the kind of its request and keeps the marks and flags
between two commands of an operation that is not excused. One
lemma per server command describes it UID by UID (`FlagsAddedFacts`, `CopiedFacts`,
`MovedFacts`, `ExpungedFacts`); `CommandKeeps` and `ClientKeeps` turn such a description
into `IInv'`, whether the command succeeded, failed or was cut off; one lemma per action
applies them.

`SmtpSendProofs` proves for recipient lists of any length and any server
`EveryoneOrNobody` (`AllRecipientsOrNone`) and `ReceiptIsTrue`
(`ReceiptMeansDelivered`), from `EnvelopeAssumption`. The strengthening is
`AnnouncedInv`: while recipients are announced, those accepted are exactly the entries
before `next`.

`WriteToolsProofs` proves for any number of calls, ids, payloads and restarts, from
`ToolAssumption`: `NeverTwice` (`ExecutedOnce`), `AsAsked` (`ExecutedAsAsked`),
`HeldIsLive` (`HeldIdIsLive`), `ExpiredIsFinal` (`ExpiredNeverRuns`), `ToolsTypes`, and `ToolsKeepPromise`: `Spec => KeepsPromise`, the refinement.
The invariant of the store cannot be taken over: a restart frees the mutex and empties
the map while the places of the dead calls stay where they were. `ToolsInv` says less,
and that is enough: only a *live* call holds the mutex (`LockInv`) or acts on what it
looked up (`ClaimInv`), and an entry that was taken is never in the map again, in this
process or a later one, because only the call that owns its id could insert it, and it
has done so already (`OwnerInv`). `RanInv` ties an execution to the claim it came from,
so `ExecutedOnce` follows from `TakenOnce`. For the refinement one lemma says what each
kind of step is to the promise: `HiddenSteps` and `Unseen` (nothing), `InsertStages`,
`PurgeLapses`, `CheckDecides` (begin or lapse), `ReturnFinishes`, `RestartRestarts`.

`ListFacts` is what the proofs about lists rest on. The prover cannot instantiate the
library's induction theorems, which take an operator, but it can use a *set* of numbers:
`AllNumbers` and `NumbersUpTo` say that a set with 0 and with each number's successor has
all of them, from the least element of what is missing (`SmallestElement`). The folds of
the community modules are recursive functions over sets of indices. `FoldExists` shows
that there is such a function, `FoldTrace` that it passes through a *trace*: values
h[0], ..., h[n], each made of the one before by one step. `FlattenTrace` does the same
for lists in a row, `TraceExists` for recursion on the numbers. A proof about a fold
states what the trace satisfies at k, as a set of k, and shows that the set has them all.
`AscendingExists` lists a finite set of numbers in order.

`WriteRequestsProofs` proves for any words and for lists of any length, from the
assumptions of `WriteRequests`: `MovesBetweenFolders` (`MoveChangesFolder`),
`ConfirmedIsExecuted` (`FrozenIsExecuted`), `FlagsStagedAsAsked` (`FlagsAsAsked`) and
`BccInEnvelopeOnly` (`BccOnlyInEnvelope`). The invariant `RequestInv` says of each kind of
frozen payload that it is *normal*: folders trimmed and well formed, flags canonical, each
once, in neither list twice. Normalising what is normal is the identity (`NormalTwice` for
folders, `NormalizedTwice` for flag lists of any length), so the backend cannot refuse or
change what the user confirmed. `EnvelopeOfSend` compares the recipients that `sendSMTP`
parses from the joined lists with those that the headers are built from.

`ThreadWalkProofs` proves for folders of any size, any limits and any removals:
`ThreadTypes`, `ThreadsBounded`, `ThreadsConnected` and `ThreadsComplete`, from
`ThreadAssumption`. What is returned is sorted by date, that is, in any order; the proofs
go along the order of discovery, `result`. The invariant `WalkInv` has five parts beside the
types. `Places`: which lists are empty where the walk is. `Taken`: what is in the thread or
being fetched is taken once, within the limit. `Led`: an identifier that is looked up comes
from a message of the thread, so each message names an identifier that leads to it from one
discovered before (`Discovered`); `DiscoveryStays` makes of this that no part of the thread is
cut off. `Answered`: what is returned has the elements of `result`, once each. `Complete`: as long as nothing was removed and
the limit not reached, every identifier that a taken message leads to is queued or looked
up, and what names an identifier that was looked up is taken; while one is being looked
up, this holds of the headers searched so far (`Collected`). With an empty queue the thread
is then closed under links, and `ThreadIsLeastClosed` shows that the reference `Thread(u)`,
a number of rounds of widening equal to the number of messages, is the least closed set:
a round that adds nothing is the last, and there are not more rounds than messages.
`WalkAdvances` is the part of `WalkReturns` that needs no fairness: an identifier that is
looked up is one of the finitely many of the folder and leaves `Unlooked` for good, every
other step lowers the stage or shortens the queue, and only removals by other clients come
in between. A cycle of replies cannot keep a walk going.

`WorkmailProofs` proves for any worlds (commands, environments, folders, calls).
`WorldAssumption` says what these are: messages made of parts, calls of the tools there
are, with numbers and dates for arguments.

* `SessionClosesConnection`: a session on its own, for any set of commands. `SessionInv`
  says that the once, the channel and the connection agree, and that whoever is in the body
  of the once has not returned. `ConnectionsClosed` (`NoConnectionLeft`) is the same of the
  whole process, and `ReadsAreSessions` says it of whole behaviours: `Spec` implies
  `SessionSpec`, since each step of the process is a step of the session or none
  (`SessionMoves`). `WorkmailTypes` is `TypeOK`.
* `SettingsSuffice` (`SendSettingsSuffice`): `DefaultsSuffice` follows the defaults of the
  SMTP settings from one to the other; the sender is in the end one of the names given.
* `SearchesNewest` (`SearchNewest`): `NewestFacts` says of a set of UIDs of any size that
  what is kept has at most n members and that what is left out has exactly n kept ones
  above it; it takes the smallest kept UID and, of those left out, the one with the fewest
  above it. `SearchFacts` holds from the search on, whatever is expunged later; `WholeDays`
  turns IMAP's days into times.
* `BodiesReturnedAsSent` (`BodiesAsSent`) and `IndexesNameAttachments`
  (`IndexNamesAttachment`), for any number of parts of any length and any limits. `ParsedBody`
  and `ParsedAttachments` go along the trace of `ParseRaw` beside the trace of the list of
  chosen parts: after k parts the body is the first `limit` bytes of the bodies so far,
  joined, and marked when they are longer (`BodyAppended`: clipping a part before it is
  appended, and the separator, lose nothing that the limit leaves room for), and the
  entries are those of the attachments so far, in their places. `AnswerInv` ties an answer
  to the message, the settings and the arguments it was made of: it is inductive beside
  `ToolInv`, which says that only a tool that fetches one message waits for a body, and uses
  that a call's arguments stay while its answer does.

The runs check the same formulas, the inductive invariants of `PendingStore`, `ImapWrite`
and `SmtpSend` among them, so a change of a model that breaks a proof shows first as a
counterexample.

Every invariant and action property that a passing run checks is a theorem. Only
model-checked is liveness (`CallsReturn`, `WalkReturns`, `CallEnds`, `ShutdownEnds`), which
needs fairness and ENABLED: beyond this prover.

## 5. What the checks show

The two-phase protocol holds: an id is executed at most once, with the payload that
was frozen, before its expiry, whatever is retried or restarted. The second round of
normalisation in the backend changes nothing. No message is lost by moves and flag
updates that are cut off anywhere. A read ends with its connection closed although the
server stands still at any command. Bodies are what was sent, up to the limit, and
marked when cut; an index names one attachment; a search returns the newest. The settings
of a server that has started suffice for a send if the names given in them are addresses.
A move or a delete that reports success has removed its copy, but for two cases below.
These statements of docs and comments do not hold:

1. `requests_blank`: `ValidateSend` accepts a send with blank recipient entries
   (`ParseAddresses`: "Empty entries are dropped"), `sendSMTP` parses them all again
   and fails after the confirmation is used up (`internal/imap/write.go:329`).
2. `imap_expunge`: "permanent delete of one UID" (`docs/WRITE.md`) removes every
   message marked `\Deleted` in the folder when the server has no UIDPLUS or UID
   EXPUNGE fails (`internal/imap/write.go:186`).
3. `imap_stale`: a move of a UID that is gone reports `moved: true`
   (`internal/imap/write.go:83`).
4. `smtp_stall`: "Every operation runs under `WORKMAIL_OPERATION_TIMEOUT`"
   (`docs/WRITE.md`): the SMTP dialogue after the dial does not
   (`internal/imap/write.go:301`).
5. `thread_start`: "UID of any message in the thread" (`internal/mcp/server.go:107`):
   the References of a fetched message are not followed, so the thread depends on
   the message it is asked from (`internal/imap/backend.go:239`).

Known limits that are by design or by protocol, and stay in the hazard list: a
confirmation whose reply was lost cannot be told from an unknown id; other clients
can take `\Deleted` off between STORE and EXPUNGE, and success is then reported of a
message that is still there (`internal/imap/write.go:88`); a UID that is not given out yet
passes every check, COPY then finds nothing, and STORE and EXPUNGE take what has come under
that UID meanwhile; a lost final SMTP reply leaves
open whether the message was taken; two moves by COPY at once can leave two copies; an
upper bound of a search that is a time within a day leaves out that whole day
(`internal/mcp/server.go:72`); a server starts with a sender that is no address, the
default being a user name, and then refuses every confirmed send
(`internal/imap/write.go:212`); one part that go-message cannot decode makes the whole
message unreadable; an inline text that is neither plain nor HTML is dropped unmarked.

## 6. Not modelled

What is left of the code has no order of steps to go wrong:

* printing, logging, the audit log, and the wording of summaries and errors;
* text criteria of a search (`from`, `subject`, `text`), the dates by which
  results are sorted (a thread is returned in any order), the contents of folder lists, counts and summaries: passed through, or decided by the
  server;
* the bearer check (`internal/auth`): pure, and a request that fails it changes nothing;
* `net/http`, the MCP library, go-imap, go-message and `net/smtp` themselves: external,
  modelled as far as the code relies on them (a reply in time, a command that fails when
  its connection is closed, a part that can be decoded or not); the read and write
  timeouts of the HTTP server only lose replies, which `tools` has as confirmations that
  are repeated;
* the integration scripts, which drive a live server.

Two simplifications a reader should know. `Workmail` follows one read at a time (reads
share only the configuration, and the store's concurrency is in `WriteTools`), and UIDs
are never reused: a folder that is rebuilt between request and confirmation, with a new
UIDVALIDITY, is outside the mailbox model and in the hazard list.

The order in which the modules were written, from the most to the least that can go
wrong: the store and its promise, the tools over it, the mailbox, the send, the request
checks, the thread walk, then the reads with their connection and parser, the settings and
the process that holds them all. A later step would be an upper bound on the memory of
staged writes, if the code comes to promise one, and `UIDVALIDITY`, if it comes to freeze
it with the UID.
