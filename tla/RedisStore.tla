----------------------------- MODULE RedisStore -----------------------------
(***************************************************************************)
(* The farm at several replicas: one Redis hash of shifts, claimed and     *)
(* worked by Lua scripts, released by an HGET and an HDEL (redisStore).    *)
(*                                                                         *)
(* A call reads its replica's clock, then travels to Redis, where it takes *)
(* effect in one step, or is lost.  shifts is the hash.  Redis itself, and *)
(* how long a call may travel, are external.                               *)
(***************************************************************************)
EXTENDS ShiftStore

CONSTANTS
    Replica,  \* replicas, each serving one call at a time
    Behind,   \* replica -> how far its clock is behind the fastest one
    NoCall

ClockedCall == [op : {"claim", "work"}, pip : Pip, tick : Nat, now : Nat]
ReleaseCall == [op : {"hget", "hdel"}, pip : Pip]

ASSUME ReplicaAssumption == /\ Behind \in [Replica -> 0..Slack]
                            /\ NoCall \notin ClockedCall \union ReleaseCall

VARIABLE call  \* replica -> the call it has under way

rvars == <<vars, call>>

Idle(r) == call[r] = NoCall
Busy == {r \in Replica : ~Idle(r)}

\* As long as calls keep their order, a pip has one call under way at a time.
Callable(p) == InOrder => \A r \in Busy : call[r].pip # p

Reading(r) == IF clock > Behind[r] THEN clock - Behind[r] ELSE 0

Done(r) == call' = [call EXCEPT ![r] = NoCall]

-----------------------------------------------------------------------------
Receive(r, p, t, op) ==
    /\ Idle(r) /\ Callable(p)
    /\ call' = [call EXCEPT ![r] =
                   [op |-> op, pip |-> p, tick |-> t, now |-> Reading(r)]]
    /\ UNCHANGED vars

ReceiveEnd(r, p) ==
    /\ Idle(r) /\ Callable(p)
    /\ call' = [call EXCEPT ![r] = [op |-> "hget", pip |-> p]]
    /\ UNCHANGED vars

\* The script walks the hash in no particular order and stops at the pip's
\* own live entry: the expired ones it met by then are gone, the others stay.
ClaimScript(r) ==
    /\ ~Idle(r) /\ call[r].op = "claim"
    /\ Done(r)
    /\ LET p == call[r].pip
           t == call[r].tick
           now == call[r].now
           dead == Expired(now)
       IN \/ ClaimTaken(p, t, now, dead)
          \/ p \notin dead /\ \E D \in SUBSET dead : ClaimHeld(p, t, D)
          \/ ClaimFull(p, t, now, dead)

TouchScript(r) ==
    /\ ~Idle(r) /\ call[r].op = "work"
    /\ Done(r)
    /\ Work(call[r].pip, call[r].tick, call[r].now)

\* Release looks the shift up first...
HGet(r) ==
    /\ ~Idle(r) /\ call[r].op = "hget"
    /\ \/ /\ call[r].pip \in DOMAIN shifts
          /\ call' = [call EXCEPT ![r].op = "hdel"]
          /\ UNCHANGED vars
       \/ /\ call[r].pip \notin DOMAIN shifts
          /\ Done(r)
          /\ EndShift(call[r].pip)

\* ...and then deletes whatever the pip holds by now.
HDel(r) ==
    /\ ~Idle(r) /\ call[r].op = "hdel"
    /\ Done(r)
    /\ EndShift(call[r].pip)

\* Redis does not answer, or the caller gives up, before anything happened.
Lose(r) ==
    /\ ~Idle(r)
    /\ Done(r)
    /\ UNCHANGED vars

-----------------------------------------------------------------------------
\* A call that carries a clock reading arrives while the reading is fresh.
Fresh(r) == call[r].op \in {"claim", "work"} => clock + 1 - call[r].now <= Slack

RedisClock ==
    /\ \A r \in Busy : Fresh(r)
    /\ ClockTicks
    /\ UNCHANGED call

RedisWorld ==
    \/ WorldSteps /\ UNCHANGED call
    \/ Busy = {} /\ WorldRestarts /\ UNCHANGED call

RedisInit == Init /\ call = [r \in Replica |-> NoCall]

RedisNext ==
    \/ \E r \in Replica :
          \/ \E p \in Pip :
                \/ \E t \in CallTicks(p), op \in {"claim", "work"} :
                      Receive(r, p, t, op)
                \/ ReceiveEnd(r, p)
          \/ ClaimScript(r)
          \/ TouchScript(r)
          \/ HGet(r)
          \/ HDel(r)
          \/ Lose(r)
    \/ RedisClock
    \/ RedisWorld

RedisSpec == RedisInit /\ [][RedisNext]_rvars

-----------------------------------------------------------------------------
\* Every replica has no call, or a well-formed one, under way.
RedisTypeOK ==
    /\ TypeOK
    /\ call \in [Replica -> {NoCall} \union ClockedCall \union ReleaseCall]
=============================================================================
