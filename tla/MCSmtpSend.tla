----------------------------- MODULE MCSmtpSend -----------------------------
(***************************************************************************)
(* SmtpSend with one, two or three recipients, one of them possibly blank: *)
(* the loop over recipients is entered, repeated, and left early.          *)
(***************************************************************************)
EXTENDS SmtpSend

CONSTANTS ann, bob, eve

MCEnvelopes == {<<ann>>, <<ann, bob>>, <<ann, bob, eve>>, <<ann, Blank>>, <<Blank>>}
=============================================================================
