------------------------------- MODULE MCRedis ------------------------------
(***************************************************************************)
(* Two replicas over one Redis hash, one with its clock one unit behind.   *)
(***************************************************************************)
EXTENDS RedisStore

CONSTANTS r1, r2

MCReplica == {r1, r2}
MCBehind == [r \in MCReplica |-> IF r = r1 THEN 0 ELSE 1]
=============================================================================
