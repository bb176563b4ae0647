------------------------------ MODULE SmtpSend ------------------------------
(***************************************************************************)
(* internal/imap/write.go, SendMessage and sendSMTP: one confirmed send,   *)
(* from the checks to the receipt.  The client writes a command and blocks *)
(* until the server answers; the server (not part of the repository) may   *)
(* accept, refuse, lose the connection, or never answer.  The deadline of  *)
(* the operation is a timer of its own: the code looks at it only while it *)
(* dials.                                                                  *)
(***************************************************************************)
EXTENDS Naturals, Sequences

CONSTANTS
    Entries,     \* entries of the recipient lists
    Envelopes,   \* recipient lists (To, then Cc, then Bcc) of the send requests
    Blank        \* an entry that is empty or white space, which ValidateSend lets pass

ASSUME EnvelopeAssumption == Envelopes \subseteq Seq(Entries) \ {<< >>}

VARIABLES
    pc,         \* the reply the client waits for, or where it is otherwise
    envelope,   \* req.To, req.Cc and req.Bcc
    implicit,   \* port 465: TLS from the first byte
    offers,     \* the extensions the server offers after EHLO
    encrypted,  \* the connection is under TLS
    next,       \* index of the recipient being announced
    accepted,   \* the recipients of the server's transaction
    delivered,  \* the recipients the server has taken the message for
    result,     \* what SendMessage returns
    expired     \* WORKMAIL_OPERATION_TIMEOUT has passed

vars == <<pc, envelope, implicit, offers, encrypted, next, accepted, delivered, result, expired>>

Replies == {"greeting", "ehlo", "starttls", "auth", "mail", "rcpt", "data", "body", "quit"}

TypeOK ==
    /\ pc \in {"idle", "dial", "returned"} \cup Replies
    /\ envelope \in Envelopes
    /\ implicit \in BOOLEAN /\ encrypted \in BOOLEAN /\ expired \in BOOLEAN
    /\ offers \subseteq {"STARTTLS", "AUTH"}
    /\ next \in 1 .. Len(envelope) + 1
    /\ accepted \subseteq Entries /\ delivered \subseteq Entries
    /\ result \in {"none", "receipt", "error"}

Init ==
    /\ pc = "idle"
    /\ envelope \in Envelopes
    /\ implicit \in BOOLEAN
    /\ offers \in SUBSET {"STARTTLS", "AUTH"}
    /\ encrypted = FALSE
    /\ next = 1
    /\ accepted = {}
    /\ delivered = {}
    /\ result = "none"
    /\ expired = FALSE

session == <<envelope, implicit, offers>>
-----------------------------------------------------------------------------
\* SendMessage: the settings and the request are checked, the message is built
\* (a failure of either is an error before anything is sent), the client dials.
Start ==
    /\ pc = "idle"
    /\ \/ pc' = "dial" /\ UNCHANGED result
       \/ pc' = "returned" /\ result' = "error"
    /\ UNCHANGED <<session, encrypted, next, accepted, delivered, expired>>

\* The dial succeeds, or fails: refused, or given up at the deadline.
Dial ==
    /\ pc = "dial"
    /\ \/ pc' = "greeting" /\ encrypted' = implicit /\ UNCHANGED result
       \/ pc' = "returned" /\ result' = "error" /\ UNCHANGED encrypted
    /\ UNCHANGED <<session, next, accepted, delivered, expired>>

\* Mutant: recipients are counted from 0.
ToRecipientZeroBased(k) ==
    /\ next' = k - 1
    /\ IF k > Len(envelope)
       THEN pc' = "data" /\ UNCHANGED result
       ELSE IF envelope[k] = Blank
            THEN pc' = "quit" /\ result' = "error"
            ELSE pc' = "rcpt" /\ UNCHANGED result

\* After MAIL or an accepted RCPT: the next entry goes through mail.ParseAddress,
\* which refuses a blank one; DATA follows the last.
ToRecipient(k) ==
    /\ next' = k
    /\ IF k > Len(envelope)
       THEN pc' = "data" /\ UNCHANGED result
       ELSE IF envelope[k] = Blank
            THEN pc' = "quit" /\ result' = "error"
            ELSE pc' = "rcpt" /\ UNCHANGED result

\* What follows an accepted EHLO: STARTTLS where it is offered, then AUTH where it is
\* (SMTPUsername is never empty after ValidateSMTP), then MAIL.  PlainAuth itself
\* fails on a connection without TLS, before anything is sent.
AfterHello ==
    IF ~implicit /\ "STARTTLS" \in offers /\ ~encrypted THEN "starttls"
    ELSE IF "AUTH" \notin offers THEN "mail"
    ELSE IF encrypted THEN "auth" ELSE "quit"

GreetingAccepted ==
    /\ pc = "greeting"
    /\ pc' = "ehlo"
    /\ UNCHANGED <<session, encrypted, next, accepted, delivered, result, expired>>

\* client.Extension sends EHLO before it answers; so does StartTLS, under TLS.
HelloAccepted ==
    /\ pc = "ehlo"
    /\ pc' = AfterHello
    /\ result' = IF pc' = "quit" THEN "error" ELSE result
    /\ UNCHANGED <<session, encrypted, next, accepted, delivered, expired>>

StartTLSAccepted ==
    /\ pc = "starttls"
    /\ encrypted' = TRUE
    /\ pc' = "ehlo"
    /\ UNCHANGED <<session, next, accepted, delivered, result, expired>>

AuthAccepted ==
    /\ pc = "auth"
    /\ pc' = "mail"
    /\ UNCHANGED <<session, encrypted, next, accepted, delivered, result, expired>>

MailAccepted ==
    /\ pc = "mail"
    /\ ToRecipient(1)
    /\ UNCHANGED <<session, encrypted, accepted, delivered, expired>>

RcptAccepted ==
    /\ pc = "rcpt"
    /\ accepted' = accepted \cup {envelope[next]}
    /\ ToRecipient(next + 1)
    /\ UNCHANGED <<session, encrypted, delivered, expired>>

DataAccepted ==
    /\ pc = "data"
    /\ pc' = "body"
    /\ UNCHANGED <<session, encrypted, next, accepted, delivered, result, expired>>

\* The message and its final dot are accepted: the receipt is made, and the
\* deferred Quit runs.
BodyAccepted ==
    /\ pc = "body"
    /\ delivered' = accepted
    /\ result' = "receipt"
    /\ pc' = "quit"
    /\ UNCHANGED <<session, encrypted, next, accepted, expired>>

\* The deferred Quit is answered, in any way.
QuitAnswered ==
    /\ pc = "quit"
    /\ pc' = "returned"
    /\ UNCHANGED <<session, encrypted, next, accepted, delivered, result, expired>>

\* Where a refusal leaves the client: Quit is deferred once NewClient has
\* succeeded, and gives up at once when the first EHLO (and HELO) was refused.
AfterRefusal ==
    IF pc = "greeting" \/ (pc = "ehlo" /\ encrypted = implicit) THEN "returned" ELSE "quit"

\* Mutants: a refused recipient is skipped; the reply to the final dot is ignored.
RefusedRecipientSkipped ==
    /\ pc \in Replies \ {"quit"}
    /\ IF pc = "rcpt"
       THEN ToRecipient(next + 1)
       ELSE result' = "error" /\ pc' = AfterRefusal /\ UNCHANGED next
    /\ UNCHANGED <<session, encrypted, accepted, delivered, expired>>

RefusedBodyIgnored ==
    /\ pc \in Replies \ {"quit"}
    /\ result' = IF pc = "body" THEN "receipt" ELSE "error"
    /\ pc' = AfterRefusal
    /\ UNCHANGED <<session, encrypted, next, accepted, delivered, expired>>

\* A refusal ends the send with an error.
Refused ==
    /\ pc \in Replies \ {"quit"}
    /\ result' = "error"
    /\ pc' = AfterRefusal
    /\ UNCHANGED <<session, encrypted, next, accepted, delivered, expired>>

\* The connection breaks: the send ends with an error and Quit fails at once.  The
\* message may have been taken although its final reply never came.
ConnectionLost ==
    /\ pc \in Replies
    /\ delivered' \in IF pc = "body" THEN {{}, accepted} ELSE {delivered}
    /\ result' = IF pc = "quit" THEN result ELSE "error"
    /\ pc' = "returned"
    /\ UNCHANGED <<session, encrypted, next, accepted, expired>>

\* The operation's deadline passes; after the dial nobody is told.
Expire ==
    /\ pc \notin {"idle", "returned"}
    /\ ~expired
    /\ expired' = TRUE
    /\ UNCHANGED <<pc, session, encrypted, next, accepted, delivered, result>>

Returned == pc = "returned" /\ UNCHANGED vars

ServerAnswers ==
    \/ GreetingAccepted \/ HelloAccepted \/ StartTLSAccepted \/ AuthAccepted \/ MailAccepted
    \/ RcptAccepted \/ DataAccepted \/ BodyAccepted \/ QuitAnswered \/ Refused

Next == Start \/ Dial \/ ServerAnswers \/ ConnectionLost \/ Expire \/ Returned

Spec == Init /\ [][Next]_vars

\* The client goes on when it can, and time passes.
TimedSpec == Spec /\ WF_vars(Dial) /\ WF_vars(Expire)
-----------------------------------------------------------------------------
Everyone == {envelope[k] : k \in DOMAIN envelope}

\* The message goes to every recipient of the confirmed request or to none, even
\* when the server accepts some of them and refuses another.
AllRecipientsOrNone == delivered \in {{}, Everyone}

\* A receipt is given only for a message that the server has taken.
ReceiptMeansDelivered == result = "receipt" => delivered = Everyone

\* The recipients announced so far are those before next, all of them from DATA on.
\* With the two invariants above it is inductive.
AnnouncedInv ==
    /\ pc \notin {"rcpt", "data", "body", "quit", "returned"} => accepted = {} /\ next = 1
    /\ pc = "rcpt" => next \in DOMAIN envelope /\ accepted = {envelope[k] : k \in 1 .. next - 1}
    /\ pc \in {"data", "body"} => accepted = Everyone
    /\ pc \notin {"quit", "returned"} => delivered = {} /\ result = "none"

\* The promise of docs/WRITE.md, "Every operation runs under WORKMAIL_OPERATION_TIMEOUT":
\* the tool call that executes the send ends, whatever the server does.
SendReturns == pc = "dial" ~> pc = "returned"
=============================================================================
