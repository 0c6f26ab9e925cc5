----------------------------- MODULE ShiftStore -----------------------------
(***************************************************************************)
(* What a workplace's shift store promises (the Store interface of         *)
(* workplaces/farm/internal/farm/store.go): a bounded number of positions, *)
(* each held under a lease that every Work call renews, and pay for the    *)
(* ticks that passed since the shift was last worked.                      *)
(*                                                                         *)
(* MemStore, RedisStore and DaprStore implement this contract.  It leaves  *)
(* them two freedoms: which expired shifts a claim drops when it does not  *)
(* need their room, and how old the reading of the clock is that a call    *)
(* uses.                                                                   *)
(***************************************************************************)
EXTENDS Integers, FiniteSets, FiniteSetsExt

CONSTANTS
    Pip,
    MaxWorkers,       \* positions of the workplace
    ShiftLease,       \* how long a shift lives without a Work call
    MaxTicksPerWork,  \* ticks one Work call is paid for at most
    Slack,            \* age of the clock reading a call works with
    InOrder,          \* calls for one pip arrive in the order of their ticks
    MaxTick, MaxClock \* bounds of the model

ASSUME PipAssumption == IsFiniteSet(Pip)

ASSUME ShiftAssumption == /\ MaxWorkers \in Nat
                          /\ ShiftLease \in Nat
                          /\ MaxTicksPerWork \in Nat
                          /\ Slack \in Nat
                          /\ InOrder \in BOOLEAN

VARIABLES
    clock,   \* wall clock
    tick,    \* sim-core's tick, the one the callers pass on
    shifts,  \* pip -> shift, for the pips on shift here
    answer,  \* what the last call was told
    called,  \* pip -> tick of the last call made for it in this world
    heard,   \* pip -> clock at which its shift was last claimed or worked
    paid     \* pip -> ticks it was paid for in this world

world == <<clock, tick>>
history == <<called, heard, paid>>
vars == <<clock, tick, shifts, answer, called, heard, paid>>

Reasons == {"already_on_shift", "no_free_positions"}
Answers == {"none", "accepted", "paid", "shift_should_end", "ended"} \union Reasons

-----------------------------------------------------------------------------
(* The rules every store shares (shiftSet). *)

\* A tick a caller may pass for a pip: one the world has reached and, as long
\* as calls keep their order, not one before the previous call's.
CallTicks(p) == {t \in 0..tick : InOrder => t >= called[p]}

Readings == {now \in 0..clock : now >= clock - Slack}

\* The lease is compared inclusively: a shift dies in the instant it is due.
ExpiredWhenDue(now) ==
    {p \in DOMAIN shifts : now - shifts[p].lastWork >= ShiftLease}

\* Shifts that outlived their lease by the reading now.
Expired(now) == {p \in DOMAIN shifts : now - shifts[p].lastWork > ShiftLease}

Without(S) == [p \in DOMAIN shifts \ S |-> shifts[p]]

With(s, p, t, now) ==
    [q \in DOMAIN s \union {p} |->
        IF q = p THEN [lastWorkTick |-> t, lastWork |-> now] ELSE s[q]]

\* Pays from the world's first tick, not from the previous Work call.
ElapsedFromStart(p, t) == Min({t, MaxTicksPerWork})

\* Ticks a shift is owed for when it is worked at tick t.
Elapsed(p, t) ==
    IF t > shifts[p].lastWorkTick
    THEN Min({t - shifts[p].lastWorkTick, MaxTicksPerWork})
    ELSE 0

-----------------------------------------------------------------------------
(* Operations.  now is the clock reading the call works with. *)

\* The position count is compared with one too many.
ClaimTakenOneMore(p, t, now, D) ==
    /\ p \notin DOMAIN shifts \ D
    /\ Cardinality(DOMAIN shifts \ D) <= MaxWorkers
    /\ shifts' = With(Without(D), p, t, now)
    /\ answer' = "accepted"
    /\ called' = [called EXCEPT ![p] = t]
    /\ heard' = [heard EXCEPT ![p] = clock]
    /\ UNCHANGED <<world, paid>>

\* The pip takes a position, once the expired shifts D are dropped.
ClaimTaken(p, t, now, D) ==
    /\ p \notin DOMAIN shifts \ D
    /\ Cardinality(DOMAIN shifts \ D) < MaxWorkers
    /\ shifts' = With(Without(D), p, t, now)
    /\ answer' = "accepted"
    /\ called' = [called EXCEPT ![p] = t]
    /\ heard' = [heard EXCEPT ![p] = clock]
    /\ UNCHANGED <<world, paid>>

\* The pip already has one.
ClaimHeld(p, t, D) ==
    /\ p \in DOMAIN shifts \ D
    /\ shifts' = Without(D)
    /\ answer' = "already_on_shift"
    /\ called' = [called EXCEPT ![p] = t]
    /\ UNCHANGED <<world, heard, paid>>

\* Counts the positions without dropping the expired shifts first.
ClaimFullNoReap(p, t, now, D) ==
    /\ p \notin DOMAIN shifts
    /\ Cardinality(DOMAIN shifts) >= MaxWorkers
    /\ answer' = "no_free_positions"
    /\ called' = [called EXCEPT ![p] = t]
    /\ UNCHANGED <<world, shifts, heard, paid>>

\* There is no room, not even in place of the expired shifts; those in D go.
ClaimFull(p, t, now, D) ==
    /\ p \notin DOMAIN shifts \ Expired(now)
    /\ Cardinality(DOMAIN shifts \ Expired(now)) >= MaxWorkers
    /\ shifts' = Without(D)
    /\ answer' = "no_free_positions"
    /\ called' = [called EXCEPT ![p] = t]
    /\ UNCHANGED <<world, heard, paid>>

Claim(p, t) ==
    \E now \in Readings : \E D \in SUBSET Expired(now) :
        \/ ClaimTaken(p, t, now, D)
        \/ ClaimHeld(p, t, D)
        \/ ClaimFull(p, t, now, D)

Work(p, t, now) ==
    /\ called' = [called EXCEPT ![p] = t]
    /\ UNCHANGED world
    /\ \/ /\ p \in DOMAIN shifts
          /\ shifts' = With(shifts, p, t, now)
          /\ answer' = "paid"
          /\ heard' = [heard EXCEPT ![p] = clock]
          /\ paid' = [paid EXCEPT ![p] = @ + Elapsed(p, t)]
       \/ /\ p \notin DOMAIN shifts
          /\ answer' = "shift_should_end"
          /\ UNCHANGED <<shifts, heard, paid>>

EndShift(p) ==
    /\ shifts' = Without({p})
    /\ answer' = "ended"
    /\ UNCHANGED <<world, history>>

-----------------------------------------------------------------------------
(* The world the callers report on. *)

ClockTicks ==
    /\ clock < MaxClock
    /\ clock' = clock + 1
    /\ UNCHANGED <<tick, shifts, answer, history>>

WorldSteps ==
    /\ tick < MaxTick
    /\ tick' = tick + 1
    /\ UNCHANGED <<clock, shifts, answer, history>>

\* sim-core restarts with a fresh world; its pips get the same ids again,
\* and the workplace is told nothing.
WorldRestarts ==
    /\ tick > 0
    /\ tick' = 0
    /\ called' = [p \in Pip |-> 0]
    /\ paid' = [p \in Pip |-> 0]
    /\ UNCHANGED <<clock, shifts, answer, heard>>

Init ==
    /\ clock = 0
    /\ tick = 0
    /\ shifts = [p \in {} |-> 0]
    /\ answer = "none"
    /\ called = [p \in Pip |-> 0]
    /\ heard = [p \in Pip |-> 0]
    /\ paid = [p \in Pip |-> 0]

Next ==
    \/ \E p \in Pip :
          \/ \E t \in CallTicks(p) :
                \/ Claim(p, t)
                \/ \E now \in Readings : Work(p, t, now)
          \/ EndShift(p)
    \/ ClockTicks
    \/ WorldSteps
    \/ WorldRestarts

Spec == Init /\ [][Next]_vars

-----------------------------------------------------------------------------
(* Properties. *)

Shift == [lastWorkTick : Nat, lastWork : Nat]

\* Every variable keeps its type; a shift belongs to a pip.
TypeOK ==
    /\ clock \in Nat /\ tick \in Nat
    /\ DOMAIN shifts \in SUBSET Pip
    /\ shifts \in [DOMAIN shifts -> Shift]
    /\ answer \in Answers
    /\ called \in [Pip -> Nat]
    /\ heard \in [Pip -> Nat]
    /\ paid \in [Pip -> Nat]

\* However claims, expiries and releases interleave, the workplace never
\* employs more pips than it has positions (claim's reap-check-take).
NeverOverfull == Cardinality(DOMAIN shifts) <= MaxWorkers

\* While calls for a pip keep their order, it is never paid for more ticks
\* than the world it lives in has lived through: not across several shifts,
\* after a stall, nor when the world restarts under the farm (touch).
EveryTickPaidOnce ==
    InOrder => \A p \in Pip : paid[p] <= called[p] /\ called[p] <= tick

\* A shift is taken away without an EndShift only when nobody has claimed or
\* worked it for its lease, less the slack of the clock readings (reap).
LeaseHonoured ==
    [][\A p \in DOMAIN shifts :
          p \notin DOMAIN shifts' =>
              answer' = "ended" \/ clock - heard[p] > ShiftLease - Slack]_vars

\* Shifts somebody exercised within their lease, give or take the slack.
Exercised == {p \in DOMAIN shifts : clock - heard[p] <= ShiftLease + Slack}

\* "no_free_positions" is only ever answered when every position is held by a
\* shift that is being exercised: ghosts of a vanished world cannot keep the
\* workplace closed, whether or not they are still recorded (claim, reap).
GhostsNeverBlock ==
    [][clock' = clock /\ tick' = tick /\ answer' = "no_free_positions" =>
          Cardinality(Exercised) >= MaxWorkers]_vars

\* What the comments on touch and Work promise of any two Work calls, in
\* whatever order they arrive: no pip is paid for more ticks than its world
\* has lived through.
NoTickPaidTwice == \A p \in Pip : paid[p] <= tick
=============================================================================
