--------------------------- MODULE MCWriteRequests ---------------------------
(***************************************************************************)
(* WriteRequests over every combination of two folders, two allowed flags  *)
(* and a forbidden one, two addresses and lists of up to two entries: the  *)
(* checks compare at most two entries with each other, and three           *)
(* recipients exceed the limit of two.                                     *)
(***************************************************************************)
EXTENDS WriteRequests
=============================================================================
