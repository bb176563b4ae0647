---------------------------- MODULE MCImapWrite ----------------------------
(***************************************************************************)
(* ImapWrite with two operations at a time and two folders.  The passing   *)
(* run has one message, in up to three copies and with a UID that is never *)
(* given out: its properties each speak of one message.  The other runs    *)
(* have two messages, since one operation removes another's there.  Each   *)
(* operation creates at most one copy, so four UIDs are enough.  The four  *)
(* servers are those with and without MOVE and UIDPLUS.  No property tells *)
(* operations, folders or messages apart.                                  *)
(***************************************************************************)
EXTENDS ImapWrite, TLC

MCSymmetry == Permutations(Ops) \cup Permutations(Folders) \cup Permutations(Msgs)
=============================================================================
