---------------------------- MODULE SmtpSendProofs ----------------------------
(***************************************************************************)
(* Proofs about SmtpSend, for recipient lists of any length, any server    *)
(* and any moment at which the connection breaks.                          *)
(*                                                                         *)
(* That a message goes to everyone or no one is not inductive: it rests on *)
(* AnnouncedInv, that the recipients the server has accepted are exactly   *)
(* the entries before the one being announced, and all entries when DATA   *)
(* is sent.  The loop over recipients has no other way out but an error.   *)
(***************************************************************************)
EXTENDS SmtpSend, TLAPS

SendInv == TypeOK /\ AllRecipientsOrNone /\ ReceiptMeansDelivered /\ AnnouncedInv

\* An envelope is a sequence with an entry 1.
LEMMA EnvelopeFacts ==
    ASSUME NEW e \in Envelopes
    PROVE  /\ Len(e) \in Nat /\ 1 \in DOMAIN e /\ DOMAIN e = 1 .. Len(e)
           /\ \A k \in DOMAIN e : e[k] \in Entries
  BY EnvelopeAssumption

\* Nobody is announced before the send starts.
LEMMA InitSendInv == Init => SendInv
  <1> SUFFICES ASSUME Init PROVE SendInv
    OBVIOUS
  <1>1. envelope \in Envelopes BY DEF Init
  <1>2. Len(envelope) \in Nat /\ 1 \in 1 .. Len(envelope) + 1 BY <1>1, EnvelopeFacts
  <1>3. QED BY <1>1, <1>2
  DEF Init, SendInv, TypeOK, AllRecipientsOrNone, ReceiptMeansDelivered, AnnouncedInv, Everyone,
      Replies

\* What ToRecipient(k) does after the entries before k were accepted.
LEMMA ToRecipientFacts ==
    ASSUME envelope \in Envelopes, NEW k \in 1 .. Len(envelope) + 1, ToRecipient(k)
    PROVE  /\ next' = k
           /\ \/ pc' = "data" /\ k = Len(envelope) + 1 /\ UNCHANGED result
              \/ pc' = "quit" /\ result' = "error"
              \/ pc' = "rcpt" /\ k \in DOMAIN envelope /\ UNCHANGED result
  BY EnvelopeFacts DEF ToRecipient

\* Every step of the dialogue keeps the invariant.
LEMMA StepSendInv == SendInv /\ [Next]_vars => SendInv'
  <1> SUFFICES ASSUME SendInv, [Next]_vars PROVE SendInv'
    OBVIOUS
  <1> USE DEF SendInv, TypeOK, AllRecipientsOrNone, ReceiptMeansDelivered, AnnouncedInv, Everyone,
              Replies, session
  <1>0. /\ Len(envelope) \in Nat /\ 1 \in DOMAIN envelope /\ DOMAIN envelope = 1 .. Len(envelope)
        /\ \A k \in DOMAIN envelope : envelope[k] \in Entries
    BY EnvelopeFacts
  <1>1. CASE Start BY <1>1 DEF Start
  <1>2. CASE Dial BY <1>2 DEF Dial
  <1>3. CASE GreetingAccepted BY <1>3 DEF GreetingAccepted
  <1>4. CASE HelloAccepted BY <1>4 DEF HelloAccepted, AfterHello
  <1>5. CASE StartTLSAccepted BY <1>5 DEF StartTLSAccepted
  <1>6. CASE AuthAccepted BY <1>6 DEF AuthAccepted
  \* The first recipient: nobody was accepted yet, and there is an entry 1.
  <1>7. CASE MailAccepted
    <2>1. ToRecipient(1) /\ 1 \in 1 .. Len(envelope) + 1
      BY <1>0, <1>7 DEF MailAccepted
    <2>2. /\ next' = 1
          /\ \/ pc' = "quit" /\ result' = "error"
             \/ pc' = "rcpt" /\ UNCHANGED result
      BY <1>0, <2>1, ToRecipientFacts
    <2>3. QED BY <1>0, <1>7, <2>2 DEF MailAccepted
  \* The entry at next joins those accepted.
  <1>8. CASE RcptAccepted
    <2>1. ToRecipient(next + 1) /\ next \in DOMAIN envelope /\ next + 1 \in 1 .. Len(envelope) + 1
      BY <1>0, <1>8 DEF RcptAccepted
    <2>2. accepted' = {envelope[k] : k \in 1 .. next}
      BY <1>0, <1>8, <2>1 DEF RcptAccepted
    <2>3. /\ next' = next + 1
          /\ \/ pc' = "data" /\ next = Len(envelope) /\ UNCHANGED result
             \/ pc' = "quit" /\ result' = "error"
             \/ pc' = "rcpt" /\ next + 1 \in DOMAIN envelope /\ UNCHANGED result
      BY <1>0, <2>1, ToRecipientFacts
    <2>4. accepted' \subseteq Entries
      BY <1>0, <2>1, <2>2
    <2>5. QED BY <1>0, <1>8, <2>1, <2>2, <2>3, <2>4 DEF RcptAccepted
  <1>9. CASE DataAccepted BY <1>9 DEF DataAccepted
  <1>10. CASE BodyAccepted BY <1>10 DEF BodyAccepted
  <1>11. CASE QuitAnswered BY <1>11 DEF QuitAnswered
  <1>12. CASE Refused BY <1>12 DEF Refused, AfterRefusal
  <1>13. CASE ConnectionLost BY <1>13 DEF ConnectionLost
  <1>14. CASE Expire BY <1>14 DEF Expire
  <1>15. CASE UNCHANGED vars BY <1>15 DEF vars
  <1>16. QED
    BY <1>1, <1>2, <1>3, <1>4, <1>5, <1>6, <1>7, <1>8, <1>9, <1>10, <1>11, <1>12, <1>13, <1>14,
       <1>15 DEF Next, ServerAnswers, Returned

\* The invariant of the send, for every server and every envelope.
THEOREM SendInvariance == Spec => []SendInv
  BY InitSendInv, StepSendInv, PTL DEF Spec

\* Every reachable state of a send is well typed.
THEOREM SendTypes == Spec => []TypeOK
  BY SendInvariance, PTL DEF SendInv

\* While recipients are announced (the loop of sendSMTP), those accepted are those before
\* the next one.
THEOREM AcceptedInOrder == Spec => []AnnouncedInv
  BY SendInvariance, PTL DEF SendInv

\* Everyone gets the message or nobody does.
THEOREM EveryoneOrNobody == Spec => []AllRecipientsOrNone
  BY SendInvariance, PTL DEF SendInv

\* A receipt is for a message that the server has taken.
THEOREM ReceiptIsTrue == Spec => []ReceiptMeansDelivered
  BY SendInvariance, PTL DEF SendInv
=============================================================================
