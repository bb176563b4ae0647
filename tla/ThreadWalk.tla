------------------------------ MODULE ThreadWalk ------------------------------
(***************************************************************************)
(* internal/imap/backend.go, GetThread: a breadth-first walk from one      *)
(* message over the identifiers it names, each looked up with three header *)
(* searches, until the queue is empty or the limit is reached.  Every      *)
(* search and fetch is a command of its own: other mail clients may remove *)
(* messages between two of them, and any of them may fail.                 *)
(*                                                                         *)
(* A message is the identifiers in its headers.  A search compares         *)
(* substrings: it finds the messages with an identifier in whose text the  *)
(* one it is given occurs, or with any when it is given none.  Dates are   *)
(* left out, so what is sorted by date is in any order.  Messages that     *)
(* arrive during the walk are left out.                                    *)
(***************************************************************************)
EXTENDS Naturals, Sequences, FiniteSets, SequencesExt

CONSTANTS
    UIDs,         \* UIDs of the messages of the folder
    IDs,          \* message identifiers
    NoID,         \* an empty identifier
    Parts,        \* the identifiers whose text occurs in that of an identifier, itself too
    Folders,      \* the folders to look at: what the headers of each UID say
    Limits,       \* limits a client may ask for
    MaxThread,    \* cfg.MaxThreadMessages
    MaxExpunged   \* bound on the messages that others remove during the walk

Message == [id : IDs \cup {NoID}, inReplyTo : Seq(IDs), references : SUBSET IDs]

ASSUME ThreadAssumption ==
    /\ UIDs \subseteq Nat /\ IsFiniteSet(UIDs)
    /\ NoID \notin IDs
    /\ Parts \in [IDs -> SUBSET IDs]
    /\ \A id \in IDs : id \in Parts[id]
    /\ Folders \subseteq [UIDs -> Message]
    /\ Limits \subseteq Nat
    /\ MaxThread \in Nat \ {0}
    /\ MaxExpunged \in Nat

VARIABLES
    headers,    \* the folder
    present,    \* the UIDs that have not been expunged
    pc,         \* the command that is under way, or where the walk is otherwise
    start,      \* the UID asked for
    limit,      \* how many messages the walk may return
    queue,      \* identifiers to look up
    seenID,     \* identifiers looked up
    seenUID,    \* UIDs taken
    found,      \* candidates of the identifier being looked up, in order
    fetching,   \* newUIDs, the UIDs being fetched
    result,     \* UIDs of the thread, in the order in which they were fetched
    returned    \* UIDs of the thread that the call returns

vars == <<headers, present, pc, start, limit, queue, seenID, seenUID, found, fetching, result,
          returned>>
walk == <<queue, seenID, seenUID, found, fetching, result>>

Keys == {"Message-ID", "In-Reply-To", "References"}
Returned == {"ok", "error"}

TypeOK ==
    /\ headers \in [UIDs -> Message]
    /\ present \subseteq UIDs
    /\ pc \in {"idle", "root", "next", "fetch"} \cup Keys \cup Returned
    /\ start \in UIDs
    /\ limit \in 0 .. MaxThread
    /\ queue \in Seq(IDs \cup {NoID})
    /\ seenID \subseteq IDs
    /\ seenUID \subseteq UIDs
    /\ found \in Seq(UIDs)
    /\ fetching \in Seq(UIDs)
    /\ result \in Seq(UIDs)
    /\ returned \in Seq(UIDs)

Init ==
    /\ headers \in Folders
    /\ present = UIDs
    /\ pc = "idle"
    /\ start \in UIDs
    /\ limit = 0
    /\ queue = << >>
    /\ seenID = {}
    /\ seenUID = {}
    /\ found = << >>
    /\ fetching = << >>
    /\ result = << >>
    /\ returned = << >>
-----------------------------------------------------------------------------
(* The server.                                                             *)

\* The identifiers in the header that key names.
Header(u, key) ==
    CASE key = "Message-ID"  -> {headers[u].id} \ {NoID}
      [] key = "In-Reply-To" -> ToSet(headers[u].inReplyTo)
      [] key = "References"  -> headers[u].references

\* The identifiers whose text occurs in that header.
Named(u, key) == UNION {Parts[id] : id \in Header(u, key)}

Ascending(S) ==
    CHOOSE s \in [1 .. Cardinality(S) -> S] : \A i, j \in DOMAIN s : i < j => s[i] < s[j]

\* UID SEARCH HEADER key id, in ascending order.
Search(key, id) ==
    Ascending({u \in present : IF id = NoID THEN Named(u, key) # {} ELSE id \in Named(u, key)})
-----------------------------------------------------------------------------
\* What a fetched message adds to the queue: its Message-ID, then its In-Reply-To.
Leads(u) == <<headers[u].id>> \o headers[u].inReplyTo

\* Mutant: a limit above the configured one is accepted.
BeginUnchecked(n) ==
    /\ pc = "idle"
    /\ limit' = IF n = 0 THEN MaxThread ELSE n
    /\ pc' = "root"
    /\ UNCHANGED <<headers, present, start, walk, returned>>

\* The limit asked for, or the configured one.
Begin(n) ==
    /\ pc = "idle"
    /\ LET asked == IF n = 0 THEN MaxThread ELSE n
       IN  IF asked \in 1 .. MaxThread
           THEN limit' = asked /\ pc' = "root"
           ELSE UNCHANGED limit /\ pc' = "error"
    /\ UNCHANGED <<headers, present, start, walk, returned>>

\* fetchSummaries of the message asked for.
FetchRoot ==
    /\ pc = "root"
    /\ IF start \in present
       THEN /\ pc' = "next"
            /\ result' = <<start>>
            /\ seenUID' = {start}
            /\ queue' = headers[start].inReplyTo \o
                           (IF headers[start].id = NoID THEN << >> ELSE <<headers[start].id>>)
       ELSE pc' = "error" /\ UNCHANGED <<result, seenUID, queue>>
    /\ UNCHANGED <<headers, present, start, limit, seenID, found, fetching, returned>>

\* Mutants: an empty identifier is looked up; a skipped one stays in the queue.
NextIDNotEmpty ==
    /\ pc = "next"
    /\ queue # << >>
    /\ Len(result) < limit
    /\ IF Head(queue) \in seenID
       THEN queue' = Tail(queue) /\ UNCHANGED <<pc, seenID, found>>
       ELSE /\ pc' = "Message-ID"
            /\ seenID' = (seenID \cup {Head(queue)}) \ {NoID}
            /\ found' = << >>
            /\ UNCHANGED queue
    /\ UNCHANGED <<headers, present, start, limit, seenUID, fetching, result, returned>>

NextIDKept ==
    /\ pc = "next"
    /\ queue # << >>
    /\ Len(result) < limit
    /\ IF Head(queue) \in seenID \cup {NoID}
       THEN UNCHANGED <<queue, pc, seenID, found>>
       ELSE /\ pc' = "Message-ID"
            /\ seenID' = seenID \cup {Head(queue)}
            /\ found' = << >>
            /\ UNCHANGED queue
    /\ UNCHANGED <<headers, present, start, limit, seenUID, fetching, result, returned>>

\* The loop takes the next identifier.  While it is looked up it stays at the head
\* of queue here, and leaves it with the last search.
NextID ==
    /\ pc = "next"
    /\ queue # << >>
    /\ Len(result) < limit
    /\ IF Head(queue) \in seenID \cup {NoID}
       THEN queue' = Tail(queue) /\ UNCHANGED <<pc, seenID, found>>
       ELSE /\ pc' = "Message-ID"
            /\ seenID' = seenID \cup {Head(queue)}
            /\ found' = << >>
            /\ UNCHANGED queue
    /\ UNCHANGED <<headers, present, start, limit, seenUID, fetching, result, returned>>

\* The first two searches collect candidates.
SearchMore(key, then) ==
    /\ pc = key
    /\ found' = found \o Search(key, Head(queue))
    /\ pc' = then
    /\ UNCHANGED <<headers, present, start, limit, queue, seenID, seenUID, fetching, result,
                   returned>>

\* The candidates not taken before, each once, in order.
Fresh(candidates) ==
    LET Add(out, u) == IF u \in seenUID \cup ToSet(out) THEN out ELSE Append(out, u)
    IN  FoldLeft(Add, << >>, candidates)

\* Mutant: the limit is compared with > instead of >=.
FirstFewOneMore(us) ==
    SubSeq(us, 1, IF Len(us) <= limit + 1 - Len(result) THEN Len(us) ELSE limit + 1 - Len(result))

\* As many of them as the limit leaves room for.
FirstFew(us) ==
    SubSeq(us, 1, IF Len(us) <= limit - Len(result) THEN Len(us) ELSE limit - Len(result))

\* Mutant: the References header is not searched.
SearchLastSkipped ==
    /\ pc = "References"
    /\ \E new \in {FirstFew(Fresh(found))} :
           /\ seenUID' = seenUID \cup ToSet(new)
           /\ fetching' = new
           /\ pc' = IF new = << >> THEN "next" ELSE "fetch"
    /\ queue' = Tail(queue)
    /\ found' = << >>
    /\ UNCHANGED <<headers, present, start, limit, seenID, result, returned>>

\* The last search, and the choice of what to fetch (each \E over one value is a LET
\* that TLC evaluates once).
SearchLast ==
    /\ pc = "References"
    /\ \E all \in {found \o Search("References", Head(queue))} : \E new \in {FirstFew(Fresh(all))} :
           /\ seenUID' = seenUID \cup ToSet(new)
           /\ fetching' = new
           /\ pc' = IF new = << >> THEN "next" ELSE "fetch"
    /\ queue' = Tail(queue)
    /\ found' = << >>
    /\ UNCHANGED <<headers, present, start, limit, seenID, result, returned>>

\* The messages of S sorted by date: in any order, as far as the walk can tell.
Orders(S) == {s \in [1 .. Cardinality(S) -> S] : ToSet(s) = S}

\* fetchSummaries of the new messages, those that are still there.
Fetch ==
    /\ pc = "fetch"
    /\ \E got \in Orders(ToSet(fetching) \cap present) :
           /\ result' = result \o got
           /\ queue' = queue \o FlattenSeq([k \in DOMAIN got |-> Leads(got[k])])
    /\ fetching' = << >>
    /\ pc' = "next"
    /\ UNCHANGED <<headers, present, start, limit, seenID, seenUID, found, returned>>

\* The thread is returned, sorted by date once more.
Finish ==
    /\ pc = "next"
    /\ queue = << >> \/ Len(result) >= limit
    /\ returned' \in Orders(ToSet(result))
    /\ pc' = "ok"
    /\ UNCHANGED <<headers, present, start, limit, walk>>

\* A command fails, or the connection or the time is over: no thread is returned.
Fail ==
    /\ pc \in Keys \cup {"root", "fetch"}
    /\ pc' = "error"
    /\ UNCHANGED <<headers, present, start, limit, walk, returned>>

\* Another mail client expunges a message.
Expunge(u) ==
    /\ pc \in Keys \cup {"root", "fetch"}
    /\ u \in present
    /\ Cardinality(UIDs \ present) < MaxExpunged
    /\ present' = present \ {u}
    /\ UNCHANGED <<headers, pc, start, limit, walk, returned>>

Quiescent == pc \in Returned /\ UNCHANGED vars

Walk ==
    \/ FetchRoot
    \/ NextID
    \/ SearchMore("Message-ID", "In-Reply-To")
    \/ SearchMore("In-Reply-To", "References")
    \/ SearchLast
    \/ Fetch
    \/ Finish
    \/ Fail

Next ==
    \/ \E n \in Limits : Begin(n)
    \/ Walk
    \/ \E u \in UIDs : Expunge(u)
    \/ Quiescent

Spec == Init /\ [][Next]_vars

\* The client goes on when it can and every command is answered or fails.
FairSpec == Spec /\ WF_vars(Walk)
-----------------------------------------------------------------------------
\* The identifiers that a walk follows from u, and those that lead it to u.
Follows(u) == ToSet(Leads(u)) \ {NoID}
Mentions(u) == UNION {Named(u, key) : key \in Keys}

\* Reference definition: the messages n links away from u, or fewer.
Within(u) ==
    LET near[n \in 0 .. Cardinality(UIDs)] ==
            IF n = 0 THEN {u}
            ELSE LET m == near[n - 1]
                 IN  m \cup {v \in UIDs : \E w \in m : Follows(w) \cap Mentions(v) # {}}
    IN  near

Thread(u) == Within(u)[Cardinality(UIDs)]

\* A thread that is returned is never longer than the limit, has the message asked for,
\* and has no message twice, however the candidates of the searches overlap.
ThreadBounded ==
    pc = "ok" =>
        /\ Len(returned) <= limit
        /\ start \in ToSet(returned)
        /\ IsInjective(returned)

\* No stranger is in a thread, whatever its order: no part of it that has the message
\* asked for is without a link to the rest, an identifier that a message of the part has
\* or replies to and one of the rest names.
ThreadConnected ==
    pc = "ok" =>
        \A S \in SUBSET ToSet(returned) :
            start \in S /\ S # ToSet(returned) =>
                \E w \in S, v \in ToSet(returned) \ S : Follows(w) \cap Mentions(v) # {}

\* A thread shorter than the limit is the whole thread, unless somebody removed a
\* message meanwhile: no order of the walk, cycle of replies or missing
\* identifier makes it stop early.
ThreadComplete ==
    pc = "ok" /\ Len(returned) < limit /\ present = UIDs => ToSet(returned) = Thread(start)

\* The walk ends, also over replies that form a cycle.
WalkReturns == pc = "root" ~> pc \in Returned

\* The thread does not depend on the message it is asked for: internal/mcp/server.go,
\* threadInput, "IMAP UID of any message in the thread".
AnyMessageOfThread ==
    pc = "ok" /\ Len(returned) < limit /\ present = UIDs =>
        \A v \in UIDs : start \in Thread(v) => v \in ToSet(returned)
=============================================================================
