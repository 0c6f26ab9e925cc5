----------------------------- MODULE MCFarmStore ----------------------------
(***************************************************************************)
(* The replicas of MCRedis, two callers of the actor, and two pips after   *)
(* one position.                                                           *)
(***************************************************************************)
EXTENDS MCRedis, FarmStore, TLC

\* Pips and callers are interchangeable; the replicas' clocks differ.
Symmetric == Permutations(Pip) \union Permutations(Caller)
=============================================================================
