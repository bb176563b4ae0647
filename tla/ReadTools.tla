-------------------------------- MODULE ReadTools --------------------------------
(***************************************************************************)
(* internal/mcp/server.go and internal/imap/backend.go: the read tools and *)
(* the operations behind them, each over a connection of its own (module   *)
(* ImapSession).  mail_get_thread has a module to itself (ThreadWalk).     *)
(*                                                                         *)
(* The folder belongs to the server: other clients may remove messages     *)
(* between two commands, and the size that the server reports for a        *)
(* message need not be its real one.  Times count half days, IMAP compares *)
(* days.  Text criteria, sorting and the contents of summaries are left    *)
(* out.                                                                    *)
(***************************************************************************)
EXTENDS ImapSession, MimeParser, Integers, FiniteSets

CONSTANTS
    UIDs,             \* UIDs of the folder
    NoDate, BadDate,  \* a date that is not given, and one that does not parse
    Now               \* the time of the calls

ASSUME ReadAssumption ==
    /\ UIDs \subseteq Nat \ {0} /\ IsFiniteSet(UIDs)
    /\ Connect = "login"
    /\ {"login", "select", "list", "status", "search", "summary", "body"} \subseteq Commands
    /\ Now \in Nat

VARIABLES
    cfg,        \* the configuration
    messages,   \* the messages of the folder, by UID
    present,    \* the UIDs that have not been expunged
    request,    \* the arguments of the call
    found,      \* the UIDs a search is about to fetch
    answer      \* what the call returns

toolVars == <<cfg, messages, present, request, found, answer>>

Message == [time : Nat, reported : Nat, raw : Nat, parts : Seq(Part)]

Dates == Int \cup {NoDate, BadDate}

NoRequest == [tool |-> "none"]
NoAnswer == [kind |-> "none"]
Error == [kind |-> "error"]
Done == [kind |-> "done"]

ToolsTypeOK ==
    /\ SessionTypeOK
    /\ DOMAIN messages \subseteq UIDs
    /\ present \subseteq DOMAIN messages
    /\ found \subseteq DOMAIN messages
    /\ pc \in {"summary", "body"} /\ request.tool \in {"mail_get", "mail_get_attachment"} =>
           request.uid # 0
    /\ answer.kind = "found" => answer.uids \subseteq found
    /\ answer.kind \in {"none", "error", "done", "found", "message", "attachment"}
-----------------------------------------------------------------------------
(* The checks of the tools and of the operations, before anything is sent. *)

Searches == {"mail_search", "mail_recent"}

Days(r) == IF r.days = 0 THEN 7 ELSE r.days

\* The query of mail_search, and the one that mail_recent makes of its days.
Query(r) ==
    IF r.tool = "mail_recent"
    THEN [since |-> Now - 2 * Days(r), before |-> NoDate, limit |-> r.limit]
    ELSE [since |-> r.since, before |-> r.before, limit |-> r.limit]

Limit(r) == IF r.limit = 0 THEN cfg.limits.results ELSE r.limit

\* parseDate takes YYYY-MM-DD and RFC 3339, and nothing for no date.
ParseDate(date) == date # BadDate

QueryAccepted(r) ==
    LET q == Query(r)
    IN  /\ r.tool = "mail_recent" => Days(r) \in 1 .. 3650
        /\ ParseDate(q.since) /\ ParseDate(q.before)
        /\ NoDate \notin {q.since, q.before} => q.since < q.before
        /\ Limit(r) \in 1 .. cfg.limits.results

\* Mutant: mail_get and mail_get_attachment take any UID.
AcceptedAnyUid(r) ==
    /\ r.wellFormed
    /\ r.tool = "mail_get_attachment" => r.index >= 0
    /\ r.tool \in Searches => QueryAccepted(r)

\* wellFormed: the folder is a valid name, the words of a query are short and printable.
Accepted(r) ==
    /\ r.wellFormed
    /\ r.tool \in {"mail_get", "mail_get_attachment"} => r.uid # 0
    /\ r.tool = "mail_get_attachment" => r.index >= 0
    /\ r.tool \in Searches => QueryAccepted(r)

Refuse(r) ==
    /\ pc \in Idle
    /\ ~Accepted(r)
    /\ request' = r
    /\ answer' = Error
    /\ UNCHANGED <<sessionVars, cfg, messages, present, found>>

Call(r) ==
    /\ Accepted(r)
    /\ Begin
    /\ request' = r
    /\ found' = {}
    /\ answer' = NoAnswer
    /\ UNCHANGED <<cfg, messages, present>>
-----------------------------------------------------------------------------
(* The commands, one step for each answer.                                 *)

\* Listing and STATUS need no selected folder.
AfterLogin ==
    CASE request.tool \in {"doctor", "mail_list_folders"} -> "list"
      [] request.tool = "mail_stats" -> "status"
      [] OTHER -> "select"

LoggedIn == pc = "login" /\ Reply(AfterLogin) /\ UNCHANGED toolVars

Selected ==
    /\ pc = "select"
    /\ Reply(IF request.tool \in Searches THEN "search" ELSE "summary")
    /\ UNCHANGED toolVars

\* The operation has what it wants.
Finish(a) ==
    /\ Reply("cleanup")
    /\ answer' = a
    /\ UNCHANGED <<cfg, messages, present, request>>

Listed == pc = "list" /\ Finish(Done) /\ UNCHANGED found

Counted == pc = "status" /\ Finish(Done) /\ UNCHANGED found

Day(t) == t \div 2

\* UID SEARCH SINCE BEFORE.
Hits(q) ==
    {u \in present : /\ q.since # NoDate => Day(messages[u].time) >= Day(q.since)
                     /\ q.before # NoDate => Day(messages[u].time) < Day(q.before)}

\* Mutant: the slice keeps the first n.
NewestFirstFew(uids, n) == {u \in uids : Cardinality({v \in uids : v < u}) < n}

\* uids[len(uids)-limit:]
Newest(uids, n) == {u \in uids : Cardinality({v \in uids : v > u}) < n}

Searched ==
    /\ pc = "search"
    /\ found' = Newest(Hits(Query(request)), Limit(request))
    /\ IF found' = {}
       THEN Finish([kind |-> "found", uids |-> {}])
       ELSE Reply("summary") /\ UNCHANGED <<cfg, messages, present, request, answer>>

\* fetchSummaries of a search: what is left of the messages that were found.
SummariesFetched ==
    /\ pc = "summary"
    /\ request.tool \in Searches
    /\ Finish([kind |-> "found", uids |-> found \cap present])
    /\ UNCHANGED found

\* fetchRaw, first part: the body is fetched when the reported size is within the limit.
SummaryFetched ==
    /\ pc = "summary"
    /\ request.tool \notin Searches
    /\ IF request.uid \in present /\ messages[request.uid].reported <= cfg.limits.message
       THEN Reply("body") /\ UNCHANGED toolVars
       ELSE Finish(Error) /\ UNCHANGED found

MessageOf(parsed) ==
    [kind |-> "message", text |-> parsed.text, html |-> parsed.html,
     truncated |-> parsed.truncated, attachments |-> Metadata(parsed.attachments)]

AttachmentOf(parsed, index) ==
    IF index >= Len(parsed.attachments) THEN Error
    ELSE LET att == parsed.attachments[index + 1]
         IN  IF att.tooLarge THEN Error
             ELSE [kind |-> "attachment", index |-> att.index, data |-> att.data]

\* fetchRaw, second part: the message is still there, and no longer than the limit.
Receivable(u) == u \in present /\ messages[u].raw <= cfg.limits.message

\* The body is parsed and the answer made of it.
BodyFetched ==
    /\ pc = "body"
    /\ LET m == messages[request.uid]
           parsed == ParseRaw(m.parts, cfg.limits.body, cfg.limits.attachment)
       IN  Finish(IF ~(Receivable(request.uid) /\ Parses(m.parts)) THEN Error
                  ELSE IF request.tool = "mail_get" THEN MessageOf(parsed)
                  ELSE AttachmentOf(parsed, request.index))
    /\ UNCHANGED found

\* The dial or a command fails, or a FETCH is answered without the body.
Fail ==
    /\ DialFails \/ CommandFails
    /\ answer' = Error
    /\ UNCHANGED <<cfg, messages, present, request, found>>
-----------------------------------------------------------------------------
\* Another client removes a message.
Expunge(u) ==
    /\ u \in present
    /\ present' = present \ {u}
    /\ UNCHANGED <<sessionVars, cfg, messages, request, found, answer>>

Answered ==
    \/ LoggedIn \/ Selected \/ Listed \/ Counted
    \/ Searched \/ SummariesFetched \/ SummaryFetched \/ BodyFetched

\* The steps of the session alone.
Background == (Dialled \/ CtxEnds \/ Closing \/ Watching) /\ UNCHANGED toolVars

ToolsNext == Answered \/ Fail \/ Background
-----------------------------------------------------------------------------
(* Properties of the answers.                                              *)

\* mail_get gives the inline bodies as they were sent, up to the limit: the text and the
\* HTML are what a reader of the whole message would start with, nothing is missing that
\* is not marked, and no message above the limit is parsed, whatever size was reported.
BodiesAsSent ==
    answer.kind = "message" =>
        LET m    == messages[request.uid]
            text == Sent(m.parts, "text/plain")
            html == Sent(m.parts, "text/html")
        IN  /\ m.raw <= cfg.limits.message
            /\ Len(answer.text) <= cfg.limits.body /\ IsPrefix(answer.text, text)
            /\ Len(answer.html) <= cfg.limits.body /\ IsPrefix(answer.html, html)
            /\ ~answer.truncated => answer.text = text /\ answer.html = html

\* An index means the same attachment in mail_get and in mail_get_attachment: its place
\* among the attachments of the message, those too large to be fetched included.
IndexNamesAttachment ==
    LET parts == messages[request.uid].parts
        att   == Attached(parts)
        limit == cfg.limits.attachment
    IN  /\ answer.kind = "message" =>
               answer.attachments =
                   [k \in DOMAIN att |-> [index |-> k - 1, size |-> parts[att[k]].len,
                                          tooLarge |-> parts[att[k]].len > limit]]
        /\ answer.kind = "attachment" =>
               /\ answer.index = request.index
               /\ answer.index + 1 \in DOMAIN att
               /\ LET i == att[answer.index + 1]
                  IN  parts[i].len <= limit /\ answer.data = Content(i, parts[i])

\* A search for whole days returns messages of those days only, and leaves out none that
\* is still there but for as many newer ones as the limit allows.  A lower bound within a
\* day (mail_recent) takes in the whole of that day.
SearchNewest ==
    answer.kind = "found" =>
        LET q == Query(request)
            Whole(date) == date # NoDate => date % 2 = 0
            InRange(u) == /\ q.since # NoDate => messages[u].time >= q.since
                          /\ q.before # NoDate => messages[u].time < q.before
        IN  /\ Cardinality(answer.uids) <= Limit(request)
            /\ Whole(q.since) /\ Whole(q.before) => \A u \in answer.uids : InRange(u)
            /\ Whole(q.before) =>
                   \A u \in present \ answer.uids :
                       InRange(u) => Cardinality({v \in found : v > u}) = Limit(request)

\* A call ends, with its connection closed and its watcher gone, although the server may
\* stop answering at any command.
CallEnds == pc \notin Idle ~> pc \in Idle /\ conn # "open" /\ watcher = "none"
=============================================================================
