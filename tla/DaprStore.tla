------------------------------ MODULE DaprStore -----------------------------
(***************************************************************************)
(* The farm as a Dapr actor: the shifts are one JSON document in the       *)
(* actor's state (daprStore).  An operation loads the document, applies    *)
(* the rules of shiftSet to its own copy and, if the operation succeeded,  *)
(* writes the whole copy back; an unsuccessful claim writes nothing, not   *)
(* even what it reaped.  Nothing in the code keeps two operations apart:   *)
(* the turns of the actor runtime, which is external, do.                  *)
(***************************************************************************)
EXTENDS ShiftStore

CONSTANT Caller  \* whoever calls the actor, one call at a time each

VARIABLE turn  \* caller -> the turn it has at the actor

dvars == <<vars, turn>>

NoTurn == [op |-> "none"]

Ended(c) == turn' = [turn EXCEPT ![c] = NoTurn]

\* save: the whole copy replaces the document, and the turn is over.
Save(c, set) == Ended(c) /\ shifts' = set

-----------------------------------------------------------------------------
\* A turn begins, once no other is under way: load.
Load(c, p, t, op) ==
    /\ \A d \in Caller : turn[d] = NoTurn
    /\ turn' = [turn EXCEPT ![c] = [op |-> op, pip |-> p, tick |-> t,
                                    now |-> clock, loaded |-> shifts]]
    /\ UNCHANGED vars

\* StartShift, Work and EndShift of the ActorHost: each is a turn at the
\* building's actor.
Invoke(c) ==
    \E p \in Pip, op \in {"claim", "work", "end"} :
        \E t \in CallTicks(p) : Load(c, p, t, op)

\* What reap leaves of the copy.
Reaped(u) ==
    {q \in DOMAIN u.loaded : u.now - u.loaded[q].lastWork <= ShiftLease}

\* claim and touch on the copy: whether they find room, whether they find a shift.
Vacant(u) == u.pip \notin Reaped(u) /\ Cardinality(Reaped(u)) < MaxWorkers
OnShift(u) == u.pip \in DOMAIN u.loaded

\* Ticks the shift is paid for.
Owed(u) ==
    IF u.tick > u.loaded[u.pip].lastWorkTick
    THEN Min({u.tick - u.loaded[u.pip].lastWorkTick, MaxTicksPerWork})
    ELSE 0

\* Claim, accepted and saved.
SaveClaim(c) ==
    LET u == turn[c] IN
    /\ u.op = "claim" /\ Vacant(u)
    /\ Save(c, With([q \in Reaped(u) |-> u.loaded[q]], u.pip, u.tick, u.now))
    /\ answer' = "accepted"
    /\ called' = [called EXCEPT ![u.pip] = u.tick]
    /\ heard' = [heard EXCEPT ![u.pip] = clock]
    /\ UNCHANGED <<world, paid>>

\* Skips the write when nothing is owed.
SaveTouchWhenOwed(c) ==
    LET u == turn[c] IN
    /\ u.op = "work" /\ OnShift(u)
    /\ Ended(c)
    /\ shifts' = IF Owed(u) > 0 THEN With(u.loaded, u.pip, u.tick, u.now) ELSE shifts
    /\ answer' = "paid"
    /\ called' = [called EXCEPT ![u.pip] = u.tick]
    /\ heard' = [heard EXCEPT ![u.pip] = clock]
    /\ paid' = [paid EXCEPT ![u.pip] = @ + Owed(u)]
    /\ UNCHANGED world

\* Touch: saved even when nothing is owed, for the lease.
SaveTouch(c) ==
    LET u == turn[c] IN
    /\ u.op = "work" /\ OnShift(u)
    /\ Save(c, With(u.loaded, u.pip, u.tick, u.now))
    /\ answer' = "paid"
    /\ called' = [called EXCEPT ![u.pip] = u.tick]
    /\ heard' = [heard EXCEPT ![u.pip] = clock]
    /\ paid' = [paid EXCEPT ![u.pip] = @ + Owed(u)]
    /\ UNCHANGED world

SaveRelease(c) ==
    LET u == turn[c] IN
    /\ u.op = "end" /\ OnShift(u)
    /\ Save(c, [q \in DOMAIN u.loaded \ {u.pip} |-> u.loaded[q]])
    /\ answer' = "ended"
    /\ UNCHANGED <<world, history>>

\* Nothing to save: a refused claim, a touch or a release that finds no shift.
Refusal(u) ==
    CASE u.op = "claim" -> IF u.pip \in Reaped(u) THEN "already_on_shift"
                           ELSE "no_free_positions"
      [] u.op = "work" -> "shift_should_end"
      [] u.op = "end" -> "ended"

Refuse(c) ==
    LET u == turn[c] IN
    /\ \/ u.op = "claim" /\ ~Vacant(u)
       \/ u.op \in {"work", "end"} /\ ~OnShift(u)
    /\ Ended(c)
    /\ answer' = Refusal(u)
    /\ called' = IF u.op = "end" THEN called ELSE [called EXCEPT ![u.pip] = u.tick]
    /\ UNCHANGED <<world, shifts, heard, paid>>

\* The state cannot be read or written, or the farm dies: the copy is gone.
Abandon(c) ==
    /\ turn[c] # NoTurn
    /\ Ended(c)
    /\ UNCHANGED vars

-----------------------------------------------------------------------------
\* A turn ends while the clock reading it works with is fresh.
DaprClock ==
    /\ \A c \in Caller : turn[c] # NoTurn => clock + 1 - turn[c].now <= Slack
    /\ ClockTicks
    /\ UNCHANGED turn

DaprWorld ==
    /\ \/ WorldSteps
       \/ (\A c \in Caller : turn[c] = NoTurn) /\ WorldRestarts
    /\ UNCHANGED turn

DaprInit == Init /\ turn = [c \in Caller |-> NoTurn]

DaprNext ==
    \/ \E c \in Caller :
          \/ Invoke(c)
          \/ SaveClaim(c) \/ SaveTouch(c) \/ SaveRelease(c)
          \/ Refuse(c)
          \/ Abandon(c)
    \/ DaprClock
    \/ DaprWorld

DaprSpec == DaprInit /\ [][DaprNext]_dvars

-----------------------------------------------------------------------------
\* Every turn works on a well-formed copy of the shifts.
DaprTypeOK ==
    /\ TypeOK
    /\ DOMAIN turn = Caller
    /\ \A c \in Caller : turn[c] # NoTurn =>
          /\ turn[c].op \in {"claim", "work", "end"}
          /\ turn[c].pip \in Pip /\ turn[c].tick \in Nat /\ turn[c].now \in Nat
          /\ DOMAIN turn[c].loaded \in SUBSET Pip
          /\ turn[c].loaded \in [DOMAIN turn[c].loaded -> Shift]
=============================================================================
