---------------------------- MODULE MCWriteTools ----------------------------
(***************************************************************************)
(* WriteTools with two requests, two confirmations and two ids: the        *)
(* confirmations race for one id, or one follows the other after an error  *)
(* or a restart, while a second request purges the store.  Two of the four *)
(* kinds of write are staged: the kinds differ only in the method called.  *)
(* The safety properties do not tell calls or ids apart, so states that    *)
(* differ by a permutation are merged.                                     *)
(***************************************************************************)
EXTENDS WriteTools, TLC

MCSymmetry == Permutations(RequestCalls) \cup Permutations(ConfirmCalls) \cup Permutations(ID)
=============================================================================
