-------------------------- MODULE MCCachedObjects --------------------------
(***************************************************************************)
(* Two passes over one object of any kind of either API group.             *)
(***************************************************************************)
EXTENDS CachedObjects

CONSTANTS p1, p2
TwoPasses == {p1, p2}
=============================================================================
