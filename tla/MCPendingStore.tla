--------------------------- MODULE MCPendingStore ---------------------------
(***************************************************************************)
(* PendingStore on small sets.  Calls are one-shot, so three of them give  *)
(* two claims racing for the id of a finished create, a create whose purge *)
(* meets a claim, and two creates with a claim of either id.  The clock    *)
(* passes the expiry of an entry made at time 0 or 1 while a call waits    *)
(* for the mutex.                                                          *)
(***************************************************************************)
EXTENDS PendingStore
=============================================================================
