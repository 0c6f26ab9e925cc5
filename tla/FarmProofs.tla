----------------------------- MODULE FarmProofs -----------------------------
(***************************************************************************)
(* What the shift store promises, for every number of pips, positions,     *)
(* replicas and callers, every lease, slack and cap; that the in-memory,   *)
(* the Redis and the Dapr store implement it, and so keep the same         *)
(* promises; and that a building does, whichever store its environment     *)
(* selects.                                                                *)
(***************************************************************************)
EXTENDS FarmStore, FiniteSetTheorems, TLAPS

\* A pip was paid for no tick after its shift's last worked one.
PaidUpTo ==
    /\ EveryTickPaidOnce
    /\ InOrder => \A p \in DOMAIN shifts : paid[p] <= shifts[p].lastWorkTick

\* The recorded time of a shift is the real one, less at most the slack.
RecordedTime ==
    \A p \in DOMAIN shifts : /\ shifts[p].lastWork <= heard[p]
                             /\ heard[p] <= shifts[p].lastWork + Slack
                             /\ heard[p] <= clock

IInv == TypeOK /\ NeverOverfull /\ PaidUpTo /\ RecordedTime

-----------------------------------------------------------------------------
\* Dropping shifts keeps the others as they were (reap, release).
LEMMA WithoutShifts ==
    ASSUME TypeOK, NEW S
    PROVE  /\ DOMAIN Without(S) = DOMAIN shifts \ S
           /\ \A p \in DOMAIN shifts \ S : Without(S)[p] = shifts[p]
           /\ Without(S) \in [DOMAIN Without(S) -> Shift]
BY DEF TypeOK, Without

\* Taking or renewing a shift touches that shift only (claim, touch).
LEMMA WithShift ==
    ASSUME NEW s, NEW p \in Pip, NEW t \in Nat, NEW now \in Nat,
           s \in [DOMAIN s -> Shift]
    PROVE  /\ DOMAIN With(s, p, t, now) = DOMAIN s \union {p}
           /\ With(s, p, t, now)[p] = [lastWorkTick |-> t, lastWork |-> now]
           /\ \A q \in DOMAIN s \ {p} : With(s, p, t, now)[q] = s[q]
           /\ With(s, p, t, now) \in [DOMAIN With(s, p, t, now) -> Shift]
BY DEF With, Shift

\* The smaller of two numbers (the cap in touch).
LEMMA MinOfTwo ==
    ASSUME NEW a \in Int, NEW b \in Int
    PROVE  /\ Min({a, b}) \in {a, b}
           /\ Min({a, b}) <= a /\ Min({a, b}) <= b
<1>1. \E x \in {a, b} : \A y \in {a, b} : x <= y
  <2>1. CASE a <= b  BY <2>1
  <2>2. CASE b <= a  BY <2>2
  <2> QED BY <2>1, <2>2
<1> QED BY <1>1 DEF Min

\* A shift is owed no more than the ticks since it was last worked.
LEMMA ElapsedBound ==
    ASSUME TypeOK, NEW p \in DOMAIN shifts, NEW t \in Nat
    PROVE  /\ Elapsed(p, t) \in Nat
           /\ t <= shifts[p].lastWorkTick => Elapsed(p, t) = 0
           /\ t > shifts[p].lastWorkTick =>
                 Elapsed(p, t) <= t - shifts[p].lastWorkTick
<1>1. shifts[p].lastWorkTick \in Nat  BY DEF TypeOK, Shift
<1>2. CASE t > shifts[p].lastWorkTick
  <2>1. t - shifts[p].lastWorkTick \in Nat  BY <1>1, <1>2
  <2>2. MaxTicksPerWork \in Nat  BY ShiftAssumption
  <2>3. /\ Min({t - shifts[p].lastWorkTick, MaxTicksPerWork}) \in Nat
        /\ Min({t - shifts[p].lastWorkTick, MaxTicksPerWork})
              <= t - shifts[p].lastWorkTick
    <3> DEFINE gap == t - shifts[p].lastWorkTick
    <3> gap \in Nat  BY <2>1
    <3> HIDE DEF gap
    <3>1. /\ Min({gap, MaxTicksPerWork}) \in {gap, MaxTicksPerWork}
          /\ Min({gap, MaxTicksPerWork}) <= gap
      BY <2>2, MinOfTwo
    <3>2. Min({gap, MaxTicksPerWork}) \in Nat  BY <2>2, <3>1
    <3> QED BY <3>1, <3>2 DEF gap
  <2> QED BY <1>1, <1>2, <2>3 DEF Elapsed
<1>3. CASE ~(t > shifts[p].lastWorkTick)  BY <1>1, <1>3 DEF Elapsed
<1> QED BY <1>2, <1>3

\* The pips on shift are finitely many, and dropping some never adds one.
LEMMA ShiftsFinite ==
    ASSUME TypeOK
    PROVE  /\ IsFiniteSet(DOMAIN shifts)
           /\ Cardinality(DOMAIN shifts) \in Nat
           /\ \A S : /\ IsFiniteSet(DOMAIN shifts \ S)
                     /\ Cardinality(DOMAIN shifts \ S) \in Nat
                     /\ Cardinality(DOMAIN shifts \ S)
                           <= Cardinality(DOMAIN shifts)
<1>1. IsFiniteSet(DOMAIN shifts)
  BY PipAssumption, FS_Subset DEF TypeOK
<1>2. Cardinality(DOMAIN shifts) \in Nat
  BY <1>1, FS_CardinalityType
<1>3. ASSUME NEW S
      PROVE  /\ IsFiniteSet(DOMAIN shifts \ S)
             /\ Cardinality(DOMAIN shifts \ S) \in Nat
             /\ Cardinality(DOMAIN shifts \ S) <= Cardinality(DOMAIN shifts)
  <2>1. DOMAIN shifts \ S \in SUBSET (DOMAIN shifts)  OBVIOUS
  <2>2. IsFiniteSet(DOMAIN shifts \ S)  BY <1>1, <2>1, FS_Subset
  <2> QED BY <1>1, <2>1, <2>2, FS_Subset, FS_CardinalityType
<1> QED BY <1>1, <1>2, <1>3

-----------------------------------------------------------------------------
LEMMA StoreInit == Init => IInv
<1> SUFFICES ASSUME Init PROVE IInv  OBVIOUS
<1>1. DOMAIN shifts = {}  BY DEF Init
<1>2. Cardinality(DOMAIN shifts) = 0  BY <1>1, FS_EmptySet
<1>3. TypeOK  BY <1>1 DEF Init, TypeOK, Answers
<1>4. NeverOverfull  BY <1>2, ShiftAssumption DEF NeverOverfull
<1>5. PaidUpTo  BY <1>1 DEF Init, PaidUpTo, EveryTickPaidOnce
<1>6. RecordedTime  BY <1>1 DEF RecordedTime
<1> QED BY <1>3, <1>4, <1>5, <1>6 DEF IInv

\* A claim that takes a position (claim's success).
LEMMA ClaimTakenKeeps ==
    ASSUME IInv, NEW p \in Pip, NEW t \in CallTicks(p), NEW now \in Readings,
           NEW D \in SUBSET Expired(now), ClaimTaken(p, t, now, D)
    PROVE  IInv'
<1> DEFINE kept == DOMAIN shifts \ D
<1>1. /\ t \in Nat /\ t <= tick /\ (InOrder => t >= called[p])
      /\ now \in Nat /\ now <= clock /\ clock <= now + Slack
  BY ShiftAssumption DEF IInv, TypeOK, CallTicks, Readings
<1>2. /\ DOMAIN Without(D) = kept
      /\ \A q \in kept : Without(D)[q] = shifts[q]
      /\ Without(D) \in [DOMAIN Without(D) -> Shift]
  BY WithoutShifts DEF IInv
<1>3. /\ DOMAIN shifts' = kept \union {p}
      /\ shifts'[p] = [lastWorkTick |-> t, lastWork |-> now]
      /\ \A q \in kept \ {p} : shifts'[q] = shifts[q]
      /\ shifts' \in [DOMAIN shifts' -> Shift]
  <2> DEFINE w == Without(D)
  <2>1. shifts' = With(w, p, t, now)  BY DEF ClaimTaken
  <2>2. /\ DOMAIN w = kept
        /\ \A q \in kept : w[q] = shifts[q]
        /\ w \in [DOMAIN w -> Shift]
    BY <1>2
  <2> HIDE DEF w
  <2>3. /\ DOMAIN With(w, p, t, now) = DOMAIN w \union {p}
        /\ With(w, p, t, now)[p] = [lastWorkTick |-> t, lastWork |-> now]
        /\ \A q \in DOMAIN w \ {p} : With(w, p, t, now)[q] = w[q]
        /\ With(w, p, t, now) \in [DOMAIN With(w, p, t, now) -> Shift]
    BY <1>1, <2>2, WithShift
  <2> QED BY <2>1, <2>2, <2>3
<1>4. TypeOK'
  BY <1>1, <1>3 DEF IInv, TypeOK, ClaimTaken, Answers, world
<1>5. NeverOverfull'
  <2>1. IsFiniteSet(kept) /\ Cardinality(kept) \in Nat
    BY ShiftsFinite DEF IInv
  <2>2. p \notin kept /\ Cardinality(kept) < MaxWorkers  BY DEF ClaimTaken
  <2>3. Cardinality(kept \union {p}) = Cardinality(kept) + 1
    BY <2>1, <2>2, FS_AddElement
  <2> QED BY <1>3, <2>1, <2>2, <2>3, ShiftAssumption DEF NeverOverfull
<1>6. PaidUpTo'
  <2>1. /\ called' = [called EXCEPT ![p] = t]
        /\ paid' = paid /\ tick' = tick
    BY DEF ClaimTaken, world
  <2>2. EveryTickPaidOnce'
    BY <1>1, <2>1 DEF IInv, TypeOK, PaidUpTo, EveryTickPaidOnce
  <2>3. ASSUME InOrder, NEW q \in DOMAIN shifts'
        PROVE  paid'[q] <= shifts'[q].lastWorkTick
    <3>1. CASE q = p
      <4>1. paid[p] <= called[p]
        BY <2>3 DEF IInv, PaidUpTo, EveryTickPaidOnce
      <4>2. shifts'[q].lastWorkTick = t  BY <1>3, <3>1
      <4> QED BY <1>1, <2>1, <2>3, <3>1, <4>1, <4>2 DEF IInv, TypeOK
    <3>2. CASE q # p
      BY <1>3, <2>1, <2>3, <3>2 DEF IInv, PaidUpTo
    <3> QED BY <3>1, <3>2
  <2> QED BY <2>2, <2>3 DEF PaidUpTo
<1>7. RecordedTime'
  <2>1. heard' = [heard EXCEPT ![p] = clock] /\ clock' = clock
    BY DEF ClaimTaken, world
  <2>2. ASSUME NEW q \in DOMAIN shifts'
        PROVE  /\ shifts'[q].lastWork <= heard'[q]
               /\ heard'[q] <= shifts'[q].lastWork + Slack
               /\ heard'[q] <= clock'
    <3>1. CASE q = p
      <4>1. shifts'[q].lastWork = now  BY <1>3, <3>1
      <4>2. heard'[q] = clock  BY <2>1, <3>1 DEF IInv, TypeOK
      <4> QED BY <1>1, <2>1, <4>1, <4>2 DEF IInv, TypeOK
    <3>2. CASE q # p
      <4>1. q \in DOMAIN shifts /\ shifts'[q] = shifts[q] /\ q \in Pip
        BY <1>3, <3>2 DEF IInv, TypeOK
      <4>2. heard'[q] = heard[q]  BY <2>1, <3>2, <4>1 DEF IInv, TypeOK
      <4> QED BY <2>1, <4>1, <4>2 DEF IInv, RecordedTime
    <3> QED BY <3>1, <3>2
  <2> QED BY <2>2 DEF RecordedTime
<1> QED BY <1>4, <1>5, <1>6, <1>7 DEF IInv

\* A step that only drops shifts, and says so, keeps the invariant: a refused
\* claim and a release.
LEMMA DroppingKeeps ==
    ASSUME IInv, NEW S, shifts' = Without(S), answer' \in Answers,
           UNCHANGED <<world, heard, paid>>,
           \/ called' = called
           \/ \E p \in Pip : \E t \in CallTicks(p) :
                 called' = [called EXCEPT ![p] = t]
    PROVE  IInv'
<1>1. /\ DOMAIN shifts' = DOMAIN shifts \ S
      /\ \A q \in DOMAIN shifts' : shifts'[q] = shifts[q]
      /\ shifts' \in [DOMAIN shifts' -> Shift]
  BY WithoutShifts DEF IInv
<1>2. /\ called' \in [Pip -> Nat]
      /\ InOrder => \A q \in Pip : called[q] <= called'[q] /\ called'[q] <= tick
  <2>1. CASE called' = called
    BY <2>1 DEF IInv, TypeOK, PaidUpTo, EveryTickPaidOnce
  <2>2. CASE \E p \in Pip : \E t \in CallTicks(p) :
                called' = [called EXCEPT ![p] = t]
    BY <2>2 DEF IInv, TypeOK, PaidUpTo, EveryTickPaidOnce, CallTicks
  <2> QED BY <2>1, <2>2
<1>3. TypeOK'  BY <1>1, <1>2 DEF IInv, TypeOK, world
<1>4. NeverOverfull'
  BY <1>1, ShiftsFinite, ShiftAssumption DEF IInv, NeverOverfull
<1>5. PaidUpTo'
  <2>1. EveryTickPaidOnce'
    BY <1>2 DEF IInv, TypeOK, PaidUpTo, EveryTickPaidOnce, world
  <2>2. InOrder => \A p \in DOMAIN shifts' : paid'[p] <= shifts'[p].lastWorkTick
    BY <1>1 DEF IInv, PaidUpTo
  <2> QED BY <2>1, <2>2 DEF PaidUpTo
<1>6. RecordedTime'  BY <1>1 DEF IInv, RecordedTime, world
<1> QED BY <1>3, <1>4, <1>5, <1>6 DEF IInv

\* Work pays and renews one shift, or finds none (touch).
LEMMA WorkKeeps ==
    ASSUME IInv, NEW p \in Pip, NEW t \in CallTicks(p), NEW now \in Readings,
           Work(p, t, now)
    PROVE  IInv'
<1>1. /\ t \in Nat /\ t <= tick /\ (InOrder => t >= called[p])
      /\ now \in Nat /\ now <= clock /\ clock <= now + Slack
  BY ShiftAssumption DEF IInv, TypeOK, CallTicks, Readings
<1>2. CASE p \notin DOMAIN shifts
  <2>1. /\ shifts' = shifts /\ answer' = "shift_should_end"
        /\ called' = [called EXCEPT ![p] = t]
        /\ UNCHANGED <<world, heard, paid>>
    BY <1>2 DEF Work
  <2>2. shifts = Without({})
    BY DEF IInv, TypeOK, Without
  <2>3. answer' \in Answers  BY <2>1 DEF Answers
  <2> QED BY <2>1, <2>2, <2>3, DroppingKeeps
<1>3. CASE p \in DOMAIN shifts
  <2>1. /\ called' = [called EXCEPT ![p] = t]
        /\ clock' = clock /\ tick' = tick
        /\ shifts' = With(shifts, p, t, now)
        /\ answer' = "paid"
        /\ heard' = [heard EXCEPT ![p] = clock]
        /\ paid' = [paid EXCEPT ![p] = @ + Elapsed(p, t)]
    BY <1>3 DEF Work, world
  <2>2. /\ DOMAIN shifts' = DOMAIN shifts
        /\ shifts'[p] = [lastWorkTick |-> t, lastWork |-> now]
        /\ \A q \in DOMAIN shifts \ {p} : shifts'[q] = shifts[q]
        /\ shifts' \in [DOMAIN shifts' -> Shift]
    <3>1. shifts \in [DOMAIN shifts -> Shift]  BY DEF IInv, TypeOK
    <3>2. /\ DOMAIN With(shifts, p, t, now) = DOMAIN shifts \union {p}
          /\ With(shifts, p, t, now)[p] = [lastWorkTick |-> t, lastWork |-> now]
          /\ \A q \in DOMAIN shifts \ {p} : With(shifts, p, t, now)[q] = shifts[q]
          /\ With(shifts, p, t, now) \in [DOMAIN With(shifts, p, t, now) -> Shift]
      BY <1>1, <3>1, WithShift
    <3>3. DOMAIN shifts \union {p} = DOMAIN shifts  BY <1>3
    <3> QED BY <2>1, <3>2, <3>3
  <2>3. /\ Elapsed(p, t) \in Nat
        /\ t <= shifts[p].lastWorkTick => Elapsed(p, t) = 0
        /\ t > shifts[p].lastWorkTick =>
              Elapsed(p, t) <= t - shifts[p].lastWorkTick
    BY <1>1, <1>3, ElapsedBound DEF IInv
  <2>4. paid'[p] = paid[p] + Elapsed(p, t) /\ paid[p] \in Nat
    BY <2>1 DEF IInv, TypeOK
  <2>5. TypeOK'
    <3>1. called' \in [Pip -> Nat] /\ heard' \in [Pip -> Nat]
      BY <1>1, <2>1 DEF IInv, TypeOK
    <3>2. paid' \in [Pip -> Nat]
      <4> DEFINE e == Elapsed(p, t)
      <4>1. e \in Nat /\ paid' = [paid EXCEPT ![p] = paid[p] + e]
        BY <2>1, <2>3
      <4> HIDE DEF e
      <4> QED BY <2>4, <4>1 DEF IInv, TypeOK
    <3> QED BY <2>1, <2>2, <3>1, <3>2 DEF IInv, TypeOK, Answers
  <2>6. NeverOverfull'  BY <2>2 DEF IInv, NeverOverfull
  <2>7. PaidUpTo'
    <3>1. InOrder => paid'[p] <= t
      <4>1. shifts[p].lastWorkTick \in Nat  BY <1>3 DEF IInv, TypeOK, Shift
      <4>2. InOrder => paid[p] <= called[p] /\ paid[p] <= shifts[p].lastWorkTick
        BY <1>3 DEF IInv, PaidUpTo, EveryTickPaidOnce
      <4>3. called[p] \in Nat  BY DEF IInv, TypeOK
      <4>4. CASE t <= shifts[p].lastWorkTick
        BY <1>1, <2>3, <2>4, <4>2, <4>3, <4>4
      <4>5. CASE t > shifts[p].lastWorkTick
        BY <1>1, <2>3, <2>4, <4>1, <4>2, <4>5
      <4> QED BY <1>1, <4>1, <4>4, <4>5
    <3>2. EveryTickPaidOnce'
      BY <1>1, <2>1, <3>1 DEF IInv, TypeOK, PaidUpTo, EveryTickPaidOnce
    <3>3. ASSUME InOrder, NEW q \in DOMAIN shifts'
          PROVE  paid'[q] <= shifts'[q].lastWorkTick
      <4>1. CASE q = p  BY <2>2, <3>1, <3>3, <4>1
      <4>2. CASE q # p
        <5>1. q \in DOMAIN shifts /\ q \in Pip /\ shifts'[q] = shifts[q]
          BY <2>2, <4>2 DEF IInv, TypeOK
        <5>2. paid'[q] = paid[q]  BY <2>1, <4>2, <5>1 DEF IInv, TypeOK
        <5> QED BY <3>3, <5>1, <5>2 DEF IInv, PaidUpTo
      <4> QED BY <4>1, <4>2
    <3> QED BY <3>2, <3>3 DEF PaidUpTo
  <2>8. RecordedTime'
    <3>1. ASSUME NEW q \in DOMAIN shifts'
          PROVE  /\ shifts'[q].lastWork <= heard'[q]
                 /\ heard'[q] <= shifts'[q].lastWork + Slack
                 /\ heard'[q] <= clock'
      <4>1. CASE q = p
        <5>1. shifts'[q].lastWork = now  BY <2>2, <4>1
        <5>2. heard'[q] = clock  BY <2>1, <4>1 DEF IInv, TypeOK
        <5> QED BY <1>1, <2>1, <5>1, <5>2 DEF IInv, TypeOK
      <4>2. CASE q # p
        <5>1. q \in DOMAIN shifts /\ q \in Pip /\ shifts'[q] = shifts[q]
          BY <2>2, <4>2 DEF IInv, TypeOK
        <5>2. heard'[q] = heard[q]  BY <2>1, <4>2, <5>1 DEF IInv, TypeOK
        <5> QED BY <2>1, <5>1, <5>2 DEF IInv, RecordedTime
      <4> QED BY <4>1, <4>2
    <3> QED BY <3>1 DEF RecordedTime
  <2> QED BY <2>5, <2>6, <2>7, <2>8 DEF IInv
<1> QED BY <1>2, <1>3

LEMMA StoreStep == IInv /\ [Next]_vars => IInv'
<1> SUFFICES ASSUME IInv, [Next]_vars PROVE IInv'  OBVIOUS
<1>1. ASSUME NEW p \in Pip, NEW t \in CallTicks(p), Claim(p, t)
      PROVE  IInv'
  <2>1. PICK now \in Readings : \E D \in SUBSET Expired(now) :
            \/ ClaimTaken(p, t, now, D)
            \/ ClaimHeld(p, t, D)
            \/ ClaimFull(p, t, now, D)
    BY <1>1 DEF Claim
  <2>2. ASSUME NEW D \in SUBSET Expired(now), ClaimTaken(p, t, now, D)
        PROVE  IInv'
    BY <2>2, ClaimTakenKeeps
  <2>3. ASSUME NEW D \in SUBSET Expired(now),
               ClaimHeld(p, t, D) \/ ClaimFull(p, t, now, D)
        PROVE  IInv'
    <3>1. /\ shifts' = Without(D)
          /\ called' = [called EXCEPT ![p] = t]
          /\ UNCHANGED <<world, heard, paid>>
      BY <2>3 DEF ClaimHeld, ClaimFull
    <3>2. answer' \in Answers
      BY <2>3 DEF ClaimHeld, ClaimFull, Answers, Reasons
    <3> QED BY <3>1, <3>2, DroppingKeeps
  <2> QED BY <2>1, <2>2, <2>3
<1>2. ASSUME NEW p \in Pip, EndShift(p)
      PROVE  IInv'
  <2>1. /\ shifts' = Without({p})
        /\ called' = called
        /\ UNCHANGED <<world, heard, paid>>
    BY <1>2 DEF EndShift, history
  <2>2. answer' \in Answers  BY <1>2 DEF EndShift, Answers
  <2> QED BY <2>1, <2>2, DroppingKeeps
<1>3. CASE ClockTicks
  BY <1>3 DEF IInv, TypeOK, NeverOverfull, PaidUpTo, EveryTickPaidOnce,
              RecordedTime, ClockTicks, history
<1>4. CASE WorldSteps
  BY <1>4 DEF IInv, TypeOK, NeverOverfull, PaidUpTo, EveryTickPaidOnce,
              RecordedTime, WorldSteps, history
<1>5. CASE WorldRestarts
  <2>1. /\ shifts' = shifts /\ clock' = clock /\ heard' = heard /\ answer' = answer
        /\ tick' = 0 /\ called' = [p \in Pip |-> 0] /\ paid' = [p \in Pip |-> 0]
    BY <1>5 DEF WorldRestarts
  <2>2. TypeOK'  BY <2>1 DEF IInv, TypeOK
  <2>3. PaidUpTo'
    <3>1. \A p \in DOMAIN shifts : p \in Pip /\ shifts[p].lastWorkTick \in Nat
      BY DEF IInv, TypeOK, Shift
    <3> QED BY <2>1, <3>1 DEF PaidUpTo, EveryTickPaidOnce
  <2> QED BY <2>1, <2>2, <2>3 DEF IInv, NeverOverfull, RecordedTime
<1>6. CASE UNCHANGED vars
  BY <1>6 DEF IInv, TypeOK, NeverOverfull, PaidUpTo, EveryTickPaidOnce,
              RecordedTime, vars
<1> QED BY <1>1, <1>2, <1>3, <1>4, <1>5, <1>6, WorkKeeps DEF Next

LEMMA StoreInvariant == Spec => []IInv
BY StoreInit, StoreStep, PTL DEF Spec

-----------------------------------------------------------------------------
(* The contract's promises. *)

\* Whatever the claims, releases, expiries and restarts, the store stays well
\* typed: a held shift belongs to a pip and its times are natural numbers.
THEOREM StoreTypeCorrect == Spec => []TypeOK
BY StoreInvariant, PTL DEF IInv

\* No interleaving of claims, expiries and releases employs more pips than
\* the workplace has positions.
THEOREM StoreNeverOverfull == Spec => []NeverOverfull
BY StoreInvariant, PTL DEF IInv

\* As long as calls for a pip keep their order, no pip is ever paid for more
\* ticks than its world has lived through, across shifts and restarts.
THEOREM StorePaysEveryTickOnce == Spec => []EveryTickPaidOnce
<1>1. IInv => EveryTickPaidOnce  BY DEF IInv, PaidUpTo
<1> QED BY <1>1, StoreInvariant, PTL

\* A shift vanishes without an EndShift only when nobody exercised it for the
\* whole lease, less the slack of the clock readings.
THEOREM StoreHonoursLeases == Spec => LeaseHonoured
<1> DEFINE Honoured ==
          \A p \in DOMAIN shifts :
            p \notin DOMAIN shifts' =>
                answer' = "ended" \/ clock - heard[p] > ShiftLease - Slack
<1>1. IInv /\ [Next]_vars => [Honoured]_vars
  <2> SUFFICES ASSUME IInv, Next,
                      NEW p \in DOMAIN shifts, p \notin DOMAIN shifts',
                      answer' # "ended"
               PROVE  clock - heard[p] > ShiftLease - Slack
    OBVIOUS
  <2>1. ASSUME NEW now \in Readings, p \in Expired(now)
        PROVE  clock - heard[p] > ShiftLease - Slack
    <3>1. /\ now \in Nat /\ clock \in Nat /\ now <= clock
          /\ heard[p] \in Nat /\ shifts[p].lastWork \in Nat
          /\ heard[p] <= shifts[p].lastWork + Slack
      BY DEF IInv, TypeOK, Shift, RecordedTime, Readings
    <3>2. now - shifts[p].lastWork > ShiftLease  BY <2>1 DEF Expired
    <3> QED BY <3>1, <3>2, ShiftAssumption
  <2>2. ASSUME NEW q \in Pip, NEW t \in CallTicks(q), Claim(q, t)
        PROVE  clock - heard[p] > ShiftLease - Slack
    <3>1. PICK now \in Readings : \E D \in SUBSET Expired(now) :
              \/ ClaimTaken(q, t, now, D)
              \/ ClaimHeld(q, t, D)
              \/ ClaimFull(q, t, now, D)
      BY <2>2 DEF Claim
    <3>2. ASSUME NEW D \in SUBSET Expired(now),
                 \/ ClaimTaken(q, t, now, D)
                 \/ ClaimHeld(q, t, D)
                 \/ ClaimFull(q, t, now, D)
          PROVE  p \in Expired(now)
      BY <3>2 DEF ClaimTaken, ClaimHeld, ClaimFull, With, Without
    <3> QED BY <2>1, <3>1, <3>2
  <2>3. ASSUME NEW q \in Pip, NEW t \in CallTicks(q), NEW now \in Readings,
               Work(q, t, now)
        PROVE  FALSE
    BY <2>3 DEF Work, With
  <2>4. ASSUME NEW q \in Pip, EndShift(q)
        PROVE  FALSE
    BY <2>4 DEF EndShift
  <2>5. ~ClockTicks /\ ~WorldSteps /\ ~WorldRestarts
    BY DEF ClockTicks, WorldSteps, WorldRestarts
  <2> QED BY <2>2, <2>3, <2>4, <2>5 DEF Next
<1> QED BY <1>1, StoreInvariant, PTL DEF Spec, LeaseHonoured

\* "no free positions" is answered only when every position is held by a shift
\* exercised within its lease and the slack: expired shifts never keep a pip out.
THEOREM StoreIsNeverBlockedByGhosts == Spec => GhostsNeverBlock
<1> DEFINE Open ==
          clock' = clock /\ tick' = tick /\ answer' = "no_free_positions" =>
          Cardinality(Exercised) >= MaxWorkers
<1>1. IInv /\ [Next]_vars => [Open]_vars
  <2> SUFFICES ASSUME IInv, Next, clock' = clock, tick' = tick,
                      answer' = "no_free_positions"
               PROVE  Cardinality(Exercised) >= MaxWorkers
    OBVIOUS
  <2>1. ASSUME NEW q \in Pip, NEW t \in CallTicks(q), Claim(q, t)
        PROVE  Cardinality(Exercised) >= MaxWorkers
    <3>1. PICK now \in Readings : \E D \in SUBSET Expired(now) :
              \/ ClaimTaken(q, t, now, D)
              \/ ClaimHeld(q, t, D)
              \/ ClaimFull(q, t, now, D)
      BY <2>1 DEF Claim
    <3>2. Cardinality(DOMAIN shifts \ Expired(now)) >= MaxWorkers
      BY <3>1 DEF ClaimTaken, ClaimHeld, ClaimFull
    <3>3. ASSUME NEW p \in DOMAIN shifts \ Expired(now)
          PROVE  clock - heard[p] <= ShiftLease + Slack
      <4>1. /\ now \in Nat /\ clock \in Nat /\ clock <= now + Slack
            /\ heard[p] \in Nat /\ shifts[p].lastWork \in Nat
            /\ shifts[p].lastWork <= heard[p]
        BY ShiftAssumption DEF IInv, TypeOK, Shift, RecordedTime, Readings
      <4>2. now - shifts[p].lastWork <= ShiftLease
        BY <4>1, ShiftAssumption DEF Expired
      <4> QED BY <4>1, <4>2, ShiftAssumption
    <3>4. DOMAIN shifts \ Expired(now) \subseteq Exercised
      BY <3>3 DEF Exercised
    <3>5. IsFiniteSet(Exercised) /\ Cardinality(Exercised) \in Nat
      <4>1. Exercised \subseteq DOMAIN shifts  BY DEF Exercised
      <4> QED BY <4>1, ShiftsFinite, FS_Subset, FS_CardinalityType DEF IInv
    <3>6. /\ Cardinality(DOMAIN shifts \ Expired(now)) \in Nat
          /\ Cardinality(DOMAIN shifts \ Expired(now)) <= Cardinality(Exercised)
      BY <3>4, <3>5, ShiftsFinite, FS_Subset DEF IInv
    <3> QED BY <3>2, <3>5, <3>6, ShiftAssumption
  <2>2. ASSUME NEW q \in Pip, NEW t \in CallTicks(q), NEW now \in Readings,
               Work(q, t, now)
        PROVE  FALSE
    BY <2>2 DEF Work
  <2>3. ASSUME NEW q \in Pip, EndShift(q)
        PROVE  FALSE
    BY <2>3 DEF EndShift
  <2>4. ~ClockTicks /\ ~WorldSteps
    BY DEF ClockTicks, WorldSteps, IInv, TypeOK
  <2>5. ~WorldRestarts
    BY DEF WorldRestarts
  <2> QED BY <2>1, <2>2, <2>3, <2>4, <2>5 DEF Next
<1> QED BY <1>1, StoreInvariant, PTL DEF Spec, GhostsNeverBlock

-----------------------------------------------------------------------------
(* The two stores implement the contract. *)

\* Each step of the one-replica store is a step of the contract.
LEMMA MemStep ==
    ASSUME TypeOK, [MemNext]_vars
    PROVE  [Next]_vars
<1>1. clock \in Readings  BY ShiftAssumption DEF TypeOK, Readings
<1>2. ASSUME NEW p \in Pip, NEW t \in CallTicks(p), MemClaim(p, t)
      PROVE  Claim(p, t)
  <2>1. Expired(clock) \in SUBSET Expired(clock)  OBVIOUS
  <2> QED BY <1>1, <1>2, <2>1 DEF MemClaim, Claim
<1> QED BY <1>1, <1>2 DEF MemNext, MemWork, MemEndShift, Next

\* One replica with its shifts in memory implements the contract: reading the
\* clock inside the step needs no slack, reaping everything is one way to
\* choose what to drop.
THEOREM MemRefinesStore == MemSpec => Spec
<1>1. IInv /\ [MemNext]_vars => IInv' /\ [Next]_vars
  BY MemStep, StoreStep DEF IInv
<1> QED BY <1>1, StoreInit, PTL DEF MemSpec, Spec

\* A call under way was made for a pip with a tick the world had reached and
\* a clock reading that is still fresh; as long as calls keep their order, it
\* is the pip's only one and its tick is not behind the pip's last call.
CallInv ==
    /\ call \in [Replica -> {NoCall} \union ClockedCall \union ReleaseCall]
    /\ \A r \in Busy : call[r].op \in {"claim", "work"} =>
          /\ call[r].now \in Readings
          /\ \A p \in Pip : call[r].pip = p => call[r].tick \in CallTicks(p)
    /\ InOrder => \A r, q \in Busy : call[r].pip = call[q].pip => r = q

\* Each step of the Redis store is a step of the contract, or invisible to it.
LEMMA RedisStep ==
    ASSUME IInv, CallInv, [RedisNext]_rvars
    PROVE  [Next]_vars
<1> CASE UNCHANGED rvars  BY DEF rvars
<1> CASE RedisNext
  <2>1. ASSUME NEW r \in Replica, ClaimScript(r)
        PROVE  Next
    <3>1. /\ r \in Busy /\ call[r].op \in {"claim", "work"}
          /\ call[r] \in ClockedCall \union ReleaseCall
      BY <2>1 DEF ClaimScript, Busy, Idle, CallInv
    <3>2. /\ call[r].pip \in Pip
          /\ call[r].tick \in CallTicks(call[r].pip)
          /\ call[r].now \in Readings
      BY <3>1 DEF CallInv, ClockedCall, ReleaseCall
    <3>3. Expired(call[r].now) \in SUBSET Expired(call[r].now)  OBVIOUS
    <3>4. Claim(call[r].pip, call[r].tick)
      BY <2>1, <3>2, <3>3 DEF ClaimScript, Claim
    <3> QED BY <3>2, <3>4 DEF Next
  <2>2. ASSUME NEW r \in Replica, TouchScript(r)
        PROVE  Next
    <3>1. /\ r \in Busy /\ call[r].op \in {"claim", "work"}
          /\ call[r] \in ClockedCall \union ReleaseCall
      BY <2>2 DEF TouchScript, Busy, Idle, CallInv
    <3>2. /\ call[r].pip \in Pip
          /\ call[r].tick \in CallTicks(call[r].pip)
          /\ call[r].now \in Readings
      BY <3>1 DEF CallInv, ClockedCall, ReleaseCall
    <3> QED BY <2>2, <3>2 DEF TouchScript, Next
  <2>3. ASSUME NEW r \in Replica, HGet(r) \/ HDel(r)
        PROVE  Next \/ UNCHANGED vars
    <3>1. call[r] \in ClockedCall \union ReleaseCall
      BY <2>3 DEF HGet, HDel, Idle, CallInv
    <3>2. call[r].pip \in Pip  BY <3>1 DEF ClockedCall, ReleaseCall
    <3> QED BY <2>3, <3>2 DEF HGet, HDel, Next
  <2>4. ASSUME NEW r \in Replica, NEW p \in Pip,
               \/ \E t \in CallTicks(p), op \in {"claim", "work"} :
                     Receive(r, p, t, op)
               \/ ReceiveEnd(r, p)
        PROVE  UNCHANGED vars
    BY <2>4 DEF Receive, ReceiveEnd
  <2>5. ASSUME NEW r \in Replica, Lose(r)
        PROVE  UNCHANGED vars
    BY <2>5 DEF Lose
  <2>6. CASE RedisClock \/ RedisWorld
    BY <2>6 DEF RedisClock, RedisWorld, Next
  <2> QED BY <2>1, <2>2, <2>3, <2>4, <2>5, <2>6 DEF RedisNext
<1> QED OBVIOUS

\* A call that is over leaves the others as they were.
LEMMA DoneKeeps ==
    ASSUME IInv, CallInv, NEW r \in Busy, Done(r),
           clock' = clock, tick' = tick,
           \/ called' = called
           \/ called' = [called EXCEPT ![call[r].pip] = call[r].tick]
    PROVE  CallInv'
<1>1. /\ call' \in [Replica -> {NoCall} \union ClockedCall \union ReleaseCall]
      /\ Busy' \subseteq Busy \ {r}
      /\ \A q \in Busy' : call'[q] = call[q]
  BY DEF CallInv, Done, Busy, Idle
<1>2. Readings' = Readings  BY DEF Readings
<1>3. ASSUME NEW q \in Busy', call'[q].op \in {"claim", "work"}
      PROVE  /\ call'[q].now \in Readings'
             /\ \A p \in Pip : call'[q].pip = p => call'[q].tick \in CallTicks(p)'
  <2>1. call[q].now \in Readings  BY <1>1, <1>3 DEF CallInv
  <2>2. ASSUME NEW p \in Pip, call[q].pip = p
        PROVE  call[q].tick \in CallTicks(p)'
    <3>1. call[q].tick \in CallTicks(p)  BY <1>1, <1>3, <2>2 DEF CallInv
    <3>2. InOrder => call[r].pip # p  BY <1>1, <2>2 DEF CallInv
    <3>3. InOrder => called'[p] = called[p]
      BY <3>2 DEF IInv, TypeOK
    <3> QED BY <3>1, <3>3 DEF CallTicks
  <2> QED BY <1>1, <1>2, <1>3, <2>1, <2>2
<1>4. InOrder => \A q, s \in Busy' : call'[q].pip = call'[s].pip => q = s
  BY <1>1 DEF CallInv
<1> QED BY <1>1, <1>3, <1>4 DEF CallInv

LEMMA CallInit == RedisInit => CallInv
<1> SUFFICES ASSUME RedisInit PROVE CallInv  OBVIOUS
<1>1. call = [r \in Replica |-> NoCall]  BY DEF RedisInit
<1>2. Busy = {}  BY <1>1 DEF Busy, Idle
<1> QED BY <1>1, <1>2 DEF CallInv

\* A call that arrives is the pip's only one, or order was not asked for.
LEMMA ReceiveKeeps ==
    ASSUME IInv, CallInv, NEW r \in Replica, NEW p \in Pip, NEW c,
           c \in ClockedCall \union ReleaseCall, c.pip = p,
           c.op \in {"claim", "work"} =>
               c.now \in Readings /\ c.tick \in CallTicks(p),
           Idle(r), Callable(p),
           call' = [call EXCEPT ![r] = c], UNCHANGED vars
    PROVE  CallInv'
<1>1. /\ call' \in [Replica -> {NoCall} \union ClockedCall \union ReleaseCall]
      /\ call'[r] = c
      /\ Busy' = Busy \union {r}
      /\ r \notin Busy
      /\ \A q \in Busy : call'[q] = call[q] /\ q \in Replica
  BY ReplicaAssumption DEF CallInv, Busy, Idle
<1>2. Readings' = Readings /\ \A q \in Pip : CallTicks(q)' = CallTicks(q)
  BY DEF Readings, CallTicks, vars
<1>3. ASSUME NEW q \in Busy', call'[q].op \in {"claim", "work"}
      PROVE  /\ call'[q].now \in Readings'
             /\ \A o \in Pip : call'[q].pip = o => call'[q].tick \in CallTicks(o)'
  <2>1. CASE q = r  BY <1>1, <1>2, <1>3, <2>1
  <2>2. CASE q # r  BY <1>1, <1>2, <1>3, <2>2 DEF CallInv
  <2> QED BY <2>1, <2>2
<1>4. InOrder => \A q, s \in Busy' : call'[q].pip = call'[s].pip => q = s
  <2>1. InOrder => \A q \in Busy : call'[q].pip # p
    BY <1>1 DEF Callable
  <2> QED BY <1>1, <2>1 DEF CallInv
<1> QED BY <1>1, <1>3, <1>4 DEF CallInv

LEMMA CallStep == IInv /\ CallInv /\ [RedisNext]_rvars => CallInv'
<1> SUFFICES ASSUME IInv, CallInv, [RedisNext]_rvars PROVE CallInv'  OBVIOUS
<1>1. ASSUME NEW r \in Replica, NEW p \in Pip, NEW t \in CallTicks(p),
             NEW op \in {"claim", "work"}, Receive(r, p, t, op)
      PROVE  CallInv'
  <2> DEFINE c == [op |-> op, pip |-> p, tick |-> t, now |-> Reading(r)]
  <2>1. Reading(r) \in Readings
    BY ReplicaAssumption, ShiftAssumption DEF Reading, Readings, IInv, TypeOK
  <2>2. t \in Nat /\ Reading(r) \in Nat
    BY <2>1 DEF Readings, CallTicks, IInv, TypeOK
  <2>3. c \in ClockedCall  BY <2>2 DEF ClockedCall
  <2>4. /\ c.pip = p
        /\ c.op \in {"claim", "work"} =>
              c.now \in Readings /\ c.tick \in CallTicks(p)
    BY <2>1
  <2>5. /\ Idle(r) /\ Callable(p)
        /\ call' = [call EXCEPT ![r] = c] /\ UNCHANGED vars
    BY <1>1 DEF Receive
  <2> HIDE DEF c
  <2> QED BY <2>3, <2>4, <2>5, ReceiveKeeps
<1>2. ASSUME NEW r \in Replica, NEW p \in Pip, ReceiveEnd(r, p)
      PROVE  CallInv'
  <2> DEFINE c == [op |-> "hget", pip |-> p]
  <2>1. c \in ReleaseCall /\ c.pip = p /\ c.op \notin {"claim", "work"}
    BY DEF ReleaseCall
  <2>2. /\ Idle(r) /\ Callable(p)
        /\ call' = [call EXCEPT ![r] = c] /\ UNCHANGED vars
    BY <1>2 DEF ReceiveEnd
  <2> HIDE DEF c
  <2> QED BY <2>1, <2>2, ReceiveKeeps
<1>3. ASSUME NEW r \in Replica,
             \/ ClaimScript(r)
             \/ TouchScript(r)
             \/ HGet(r) /\ call[r].pip \notin DOMAIN shifts
             \/ HDel(r)
             \/ Lose(r)
      PROVE  CallInv'
  <2>1. r \in Busy /\ Done(r)
    BY <1>3 DEF ClaimScript, TouchScript, HGet, HDel, Lose, Busy
  <2>2. /\ clock' = clock /\ tick' = tick
        /\ \/ called' = called
           \/ called' = [called EXCEPT ![call[r].pip] = call[r].tick]
    BY <1>3 DEF ClaimScript, TouchScript, HGet, HDel, Lose, ClaimTaken, ClaimHeld,
                ClaimFull, Work, EndShift, world, history, vars
  <2> QED BY <2>1, <2>2, DoneKeeps
<1>4. ASSUME NEW r \in Replica, HGet(r), call[r].pip \in DOMAIN shifts
      PROVE  CallInv'
  <2>1. call' = [call EXCEPT ![r].op = "hdel"] /\ UNCHANGED vars /\ r \in Busy
    BY <1>4 DEF HGet, Busy
  <2>2. call[r] \in ReleaseCall
    BY <1>4 DEF HGet, Idle, CallInv, ClockedCall, ReleaseCall
  <2>3. /\ call' \in [Replica -> {NoCall} \union ClockedCall \union ReleaseCall]
        /\ call'[r] \in ReleaseCall /\ call'[r].op = "hdel"
        /\ call'[r].pip = call[r].pip
        /\ \A q \in Replica \ {r} : call'[q] = call[q]
    BY <2>1, <2>2 DEF CallInv, ReleaseCall
  <2>4. Busy' = Busy
    BY <2>1, <2>3, ReplicaAssumption DEF Busy, Idle
  <2>5. Readings' = Readings /\ \A q \in Pip : CallTicks(q)' = CallTicks(q)
    BY <2>1 DEF Readings, CallTicks, vars
  <2>6. ASSUME NEW q \in Busy', call'[q].op \in {"claim", "work"}
        PROVE  /\ call'[q].now \in Readings'
               /\ \A o \in Pip :
                     call'[q].pip = o => call'[q].tick \in CallTicks(o)'
    <3>1. q \in Replica \ {r}  BY <2>3, <2>6 DEF Busy
    <3> QED BY <2>3, <2>4, <2>5, <2>6, <3>1 DEF CallInv
  <2>7. \A q \in Busy : call'[q].pip = call[q].pip
    BY <2>3 DEF Busy
  <2> QED BY <2>3, <2>4, <2>6, <2>7 DEF CallInv
<1>5. CASE RedisClock
  <2>1. /\ call' = call /\ tick' = tick /\ called' = called
        /\ clock' = clock + 1
        /\ \A r \in Busy : Fresh(r)
    BY <1>5 DEF RedisClock, ClockTicks, history
  <2>2. Busy' = Busy  BY <2>1 DEF Busy, Idle
  <2>3. \A q \in Pip : CallTicks(q)' = CallTicks(q)  BY <2>1 DEF CallTicks
  <2>4. ASSUME NEW r \in Busy, call[r].op \in {"claim", "work"}
        PROVE  call[r].now \in Readings'
    <3>1. call[r].now \in Readings  BY <2>4 DEF CallInv
    <3>2. clock + 1 - call[r].now <= Slack  BY <2>1, <2>4 DEF Fresh
    <3> QED BY <2>1, <3>1, <3>2, ShiftAssumption DEF Readings, IInv, TypeOK
  <2> QED BY <2>1, <2>2, <2>3, <2>4 DEF CallInv
<1>6. CASE RedisWorld
  <2>1. CASE WorldSteps /\ UNCHANGED call
    <3>1. /\ call' = call /\ tick' = tick + 1 /\ called' = called
          /\ clock' = clock
      BY <2>1 DEF WorldSteps, history
    <3>2. Busy' = Busy /\ Readings' = Readings
      BY <3>1 DEF Busy, Idle, Readings
    <3>3. \A q \in Pip : CallTicks(q) \subseteq CallTicks(q)'
      BY <3>1 DEF CallTicks, IInv, TypeOK
    <3> QED BY <3>1, <3>2, <3>3 DEF CallInv
  <2>2. CASE Busy = {} /\ WorldRestarts /\ UNCHANGED call
    <3>1. Busy' = {}  BY <2>2 DEF Busy, Idle
    <3> QED BY <2>2, <3>1 DEF CallInv
  <2> QED BY <1>6, <2>1, <2>2 DEF RedisWorld
<1>7. CASE UNCHANGED rvars
  BY <1>7 DEF rvars, vars, CallInv, Busy, Idle, Readings, CallTicks
<1> QED BY <1>1, <1>2, <1>3, <1>4, <1>5, <1>6, <1>7 DEF RedisNext

LEMMA RedisInvariant == RedisSpec => [](IInv /\ CallInv)
<1>1. RedisInit => IInv /\ CallInv
  <2>1. RedisInit => Init  BY DEF RedisInit
  <2> QED BY <2>1, StoreInit, CallInit
<1>2. IInv /\ CallInv /\ [RedisNext]_rvars => (IInv /\ CallInv)'
  BY RedisStep, StoreStep, CallStep
<1> QED BY <1>1, <1>2, PTL DEF RedisSpec

\* Any number of replicas over one Redis hash implement the contract of one
\* store: scripts, two-step releases, skewed clocks and lost calls included.
THEOREM RedisRefinesStore == RedisSpec => Spec
<1>1. RedisInit => Init  BY DEF RedisInit
<1>2. IInv /\ CallInv /\ [RedisNext]_rvars => [Next]_vars
  BY RedisStep
<1> QED BY <1>1, <1>2, RedisInvariant, PTL DEF RedisSpec, Spec

\* The hash and every call under way stay well formed.
THEOREM RedisTypeCorrect == RedisSpec => []RedisTypeOK
<1>1. IInv /\ CallInv => RedisTypeOK  BY DEF IInv, CallInv, RedisTypeOK
<1> QED BY <1>1, RedisInvariant, PTL

\* The farm at any number of replicas never employs more pips than it has
\* positions, however the replicas' claims race for the last one.
THEOREM RedisNeverOverfull == RedisSpec => []NeverOverfull
BY RedisRefinesStore, StoreNeverOverfull, PTL

-----------------------------------------------------------------------------
(* The Dapr store.  The argument rests on the one fact the actor runtime   *)
(* gives: the only turn under way holds a copy of the shifts that is still *)
(* what the state says.                                                    *)

\* The turn of c is the only one, and what it loaded is not stale.
Current(c) ==
    /\ \A d \in Caller \ {c} : turn[d] = NoTurn
    /\ turn[c].loaded = shifts
    /\ turn[c].op \in {"claim", "work", "end"}
    /\ turn[c].pip \in Pip
    /\ turn[c].tick \in CallTicks(turn[c].pip)
    /\ turn[c].now \in Readings

TurnInv ==
    /\ DOMAIN turn = Caller
    /\ \A c \in Caller : turn[c] # NoTurn => Current(c)

-----------------------------------------------------------------------------
\* What a turn computes from its copy is what the contract's rules compute
\* from the shifts themselves.
LEMMA CopyIsShifts ==
    ASSUME TypeOK, NEW u, u.loaded = shifts, u.now \in Readings
    PROVE  /\ Reaped(u) = DOMAIN shifts \ Expired(u.now)
           /\ [q \in Reaped(u) |-> u.loaded[q]] = Without(Expired(u.now))
           /\ Owed(u) = Elapsed(u.pip, u.tick)
<1>1. u.now \in Int /\ \A q \in DOMAIN shifts : shifts[q].lastWork \in Int
  BY DEF TypeOK, Shift, Readings
<1>2. Reaped(u) = DOMAIN shifts \ Expired(u.now)
  BY <1>1, ShiftAssumption DEF Reaped, Expired
<1>3. Owed(u) = Elapsed(u.pip, u.tick)  BY DEF Owed, Elapsed
<1> QED BY <1>2, <1>3 DEF Without

\* Each step of the Dapr store is a step of the contract, or invisible to it.
LEMMA DaprStep ==
    ASSUME TypeOK, TurnInv, [DaprNext]_dvars
    PROVE  [Next]_vars
<1> CASE UNCHANGED dvars  BY DEF dvars
<1> CASE DaprNext
  <2>1. ASSUME NEW c \in Caller, turn[c].op \in {"claim", "work", "end"}
        PROVE  Current(c)
    BY <2>1 DEF TurnInv, NoTurn
  <2>2. ASSUME NEW c \in Caller, SaveClaim(c)
        PROVE  Next
    <3> DEFINE u == turn[c]
    <3>1. u.op = "claim" /\ Vacant(u)  BY <2>2 DEF SaveClaim
    <3>2. Current(c)  BY <2>1, <3>1
    <3>3. /\ u.loaded = shifts /\ u.pip \in Pip
          /\ u.tick \in CallTicks(u.pip) /\ u.now \in Readings
      BY <3>2 DEF Current
    <3>4. /\ Reaped(u) = DOMAIN shifts \ Expired(u.now)
          /\ [q \in Reaped(u) |-> u.loaded[q]] = Without(Expired(u.now))
      BY <3>3, CopyIsShifts
    <3>5. ClaimTaken(u.pip, u.tick, u.now, Expired(u.now))
      BY <2>2, <3>1, <3>4 DEF SaveClaim, Save, ClaimTaken, Vacant
    <3>6. Claim(u.pip, u.tick)
      <4>1. Expired(u.now) \in SUBSET Expired(u.now)  OBVIOUS
      <4> QED BY <3>3, <3>5, <4>1 DEF Claim
    <3> QED BY <3>3, <3>6 DEF Next
  <2>3. ASSUME NEW c \in Caller, SaveTouch(c)
        PROVE  Next
    <3> DEFINE u == turn[c]
    <3>1. u.op = "work" /\ OnShift(u)  BY <2>3 DEF SaveTouch
    <3>2. Current(c)  BY <2>1, <3>1
    <3>3. /\ u.loaded = shifts /\ u.pip \in Pip
          /\ u.tick \in CallTicks(u.pip) /\ u.now \in Readings
      BY <3>2 DEF Current
    <3>4. Owed(u) = Elapsed(u.pip, u.tick)  BY <3>3, CopyIsShifts
    <3>5. Work(u.pip, u.tick, u.now)
      BY <2>3, <3>1, <3>3, <3>4 DEF SaveTouch, Save, Work, OnShift
    <3> QED BY <3>3, <3>5 DEF Next
  <2>4. ASSUME NEW c \in Caller, SaveRelease(c)
        PROVE  Next
    <3>1. turn[c].op = "end"  BY <2>4 DEF SaveRelease
    <3>2. Current(c)  BY <2>1, <3>1
    <3>3. turn[c].loaded = shifts /\ turn[c].pip \in Pip  BY <3>2 DEF Current
    <3>4. EndShift(turn[c].pip)
      BY <2>4, <3>3 DEF SaveRelease, Save, EndShift, Without
    <3> QED BY <3>3, <3>4 DEF Next
  <2>5. ASSUME NEW c \in Caller, Refuse(c)
        PROVE  Next
    <3> DEFINE u == turn[c]
    <3>1. u.op \in {"claim", "work", "end"}  BY <2>5 DEF Refuse
    <3>2. Current(c)  BY <2>1, <3>1
    <3>3. /\ u.loaded = shifts /\ u.pip \in Pip
          /\ u.tick \in CallTicks(u.pip) /\ u.now \in Readings
      BY <3>2 DEF Current
    <3>4. CASE u.op = "claim"
      <4>1. /\ ~Vacant(u) /\ answer' = Refusal(u)
            /\ called' = [called EXCEPT ![u.pip] = u.tick]
            /\ UNCHANGED <<world, shifts, heard, paid>>
        BY <2>5, <3>4 DEF Refuse
      <4>2. Reaped(u) = DOMAIN shifts \ Expired(u.now)  BY <3>3, CopyIsShifts
      <4>3. shifts' = Without({})  BY <4>1 DEF TypeOK, Without
      <4>4. CASE u.pip \in Reaped(u)
        <5>1. answer' = "already_on_shift"  BY <3>4, <4>1, <4>4 DEF Refusal
        <5>2. ClaimHeld(u.pip, u.tick, {})
          BY <4>1, <4>2, <4>3, <4>4, <5>1 DEF ClaimHeld
        <5> QED BY <3>3, <5>2 DEF Claim, Next
      <4>5. CASE u.pip \notin Reaped(u)
        <5>1. answer' = "no_free_positions"  BY <3>4, <4>1, <4>5 DEF Refusal
        <5>2. Cardinality(DOMAIN shifts \ Expired(u.now)) >= MaxWorkers
          BY <4>1, <4>2, <4>5, ShiftsFinite, ShiftAssumption DEF Vacant
        <5>3. ClaimFull(u.pip, u.tick, u.now, {})
          BY <4>1, <4>2, <4>3, <4>5, <5>1, <5>2 DEF ClaimFull
        <5> QED BY <3>3, <5>3 DEF Claim, Next
      <4> QED BY <4>4, <4>5
    <3>5. CASE u.op = "work"
      <4>1. u.pip \notin DOMAIN shifts /\ answer' = "shift_should_end"
        BY <2>5, <3>3, <3>5 DEF Refuse, OnShift, Refusal
      <4>2. Work(u.pip, u.tick, u.now)
        BY <2>5, <3>5, <4>1 DEF Refuse, Work
      <4> QED BY <3>3, <4>2 DEF Next
    <3>6. CASE u.op = "end"
      <4>1. u.pip \notin DOMAIN shifts /\ answer' = "ended"
        BY <2>5, <3>3, <3>6 DEF Refuse, OnShift, Refusal
      <4>2. shifts' = Without({u.pip})
        BY <2>5, <4>1 DEF Refuse, TypeOK, Without
      <4>3. EndShift(u.pip)
        BY <2>5, <3>6, <4>1, <4>2 DEF Refuse, EndShift, history
      <4> QED BY <3>3, <4>3 DEF Next
    <3> QED BY <3>1, <3>4, <3>5, <3>6
  <2>6. ASSUME NEW c \in Caller,
               \/ \E p \in Pip, op \in {"claim", "work", "end"} :
                     \E t \in CallTicks(p) : Load(c, p, t, op)
               \/ Abandon(c)
        PROVE  UNCHANGED vars
    BY <2>6 DEF Load, Abandon
  <2>7. CASE DaprClock \/ DaprWorld
    BY <2>7 DEF DaprClock, DaprWorld, Next
  <2> QED BY <2>2, <2>3, <2>4, <2>5, <2>6, <2>7 DEF DaprNext, Invoke
<1> QED OBVIOUS

\* A turn that is over leaves none behind.
LEMMA EndedKeeps ==
    ASSUME TurnInv, NEW c \in Caller, turn[c] # NoTurn, Ended(c)
    PROVE  TurnInv'
<1>1. \A d \in Caller \ {c} : turn[d] = NoTurn  BY DEF TurnInv, Current
<1>2. DOMAIN turn' = Caller /\ \A d \in Caller : turn'[d] = NoTurn
  BY <1>1 DEF Ended, TurnInv
<1> QED BY <1>2 DEF TurnInv

LEMMA TurnStep ==
    ASSUME TypeOK, TurnInv, [DaprNext]_dvars
    PROVE  TurnInv'
<1>1. ASSUME NEW c \in Caller, NEW p \in Pip, NEW t \in CallTicks(p),
             NEW op \in {"claim", "work", "end"}, Load(c, p, t, op)
      PROVE  TurnInv'
  <2> DEFINE u == [op |-> op, pip |-> p, tick |-> t, now |-> clock,
                   loaded |-> shifts]
  <2>1. /\ turn' = [turn EXCEPT ![c] = u] /\ UNCHANGED vars
        /\ \A d \in Caller : turn[d] = NoTurn
    BY <1>1 DEF Load
  <2>2. u.loaded = shifts /\ u.op = op /\ u.pip = p /\ u.tick = t /\ u.now = clock
    OBVIOUS
  <2> HIDE DEF u
  <2>3. /\ DOMAIN turn' = Caller /\ turn'[c] = u
        /\ \A d \in Caller \ {c} : turn'[d] = NoTurn
    BY <2>1 DEF TurnInv
  <2>4. /\ shifts' = shifts /\ Readings' = Readings
        /\ CallTicks(p)' = CallTicks(p)
    BY <2>1 DEF vars, Readings, CallTicks
  <2>5. clock \in Readings  BY ShiftAssumption DEF TypeOK, Readings
  <2>6. Current(c)'  BY <2>2, <2>3, <2>4, <2>5 DEF Current
  <2> QED BY <2>3, <2>6 DEF TurnInv
<1>2. ASSUME NEW c \in Caller,
             \/ SaveClaim(c) \/ SaveTouch(c) \/ SaveRelease(c)
             \/ Refuse(c) \/ Abandon(c)
      PROVE  TurnInv'
  <2>1. Ended(c) /\ turn[c] # NoTurn
    BY <1>2 DEF SaveClaim, SaveTouch, SaveRelease, Save, Refuse, Abandon, NoTurn
  <2> QED BY <2>1, EndedKeeps
<1>3. CASE DaprClock
  <2>1. /\ turn' = turn /\ tick' = tick /\ called' = called /\ shifts' = shifts
        /\ clock' = clock + 1
        /\ \A c \in Caller : turn[c] # NoTurn => clock + 1 - turn[c].now <= Slack
    BY <1>3 DEF DaprClock, ClockTicks, history
  <2>2. \A p \in Pip : CallTicks(p)' = CallTicks(p)  BY <2>1 DEF CallTicks
  <2>3. ASSUME NEW c \in Caller, turn[c] # NoTurn
        PROVE  turn[c].now \in Readings'
    <3>1. turn[c].now \in Readings  BY <2>3 DEF TurnInv, Current
    <3>2. clock + 1 - turn[c].now <= Slack  BY <2>1, <2>3
    <3> QED BY <2>1, <3>1, <3>2, ShiftAssumption DEF Readings, TypeOK
  <2> QED BY <2>1, <2>2, <2>3 DEF TurnInv, Current
<1>4. CASE DaprWorld
  <2>1. CASE WorldSteps
    <3>1. /\ turn' = turn /\ tick' = tick + 1 /\ called' = called
          /\ shifts' = shifts /\ clock' = clock
      BY <1>4, <2>1 DEF DaprWorld, WorldSteps, history
    <3>2. Readings' = Readings  BY <3>1 DEF Readings
    <3>3. \A p \in Pip : CallTicks(p) \subseteq CallTicks(p)'
      BY <3>1 DEF CallTicks, TypeOK
    <3> QED BY <3>1, <3>2, <3>3 DEF TurnInv, Current
  <2>2. CASE \A c \in Caller : turn[c] = NoTurn
    BY <1>4, <2>2 DEF DaprWorld, TurnInv
  <2> QED BY <1>4, <2>1, <2>2 DEF DaprWorld
<1>5. CASE UNCHANGED dvars
  BY <1>5 DEF dvars, vars, TurnInv, Current, Readings, CallTicks
<1> QED BY <1>1, <1>2, <1>3, <1>4, <1>5 DEF DaprNext, Invoke

LEMMA DaprInvariant == DaprSpec => [](IInv /\ TurnInv)
<1>1. DaprInit => IInv /\ TurnInv
  <2>1. DaprInit => Init  BY DEF DaprInit
  <2>2. DaprInit => TurnInv  BY DEF DaprInit, TurnInv
  <2> QED BY <2>1, <2>2, StoreInit
<1>2. IInv /\ TurnInv /\ [DaprNext]_dvars => (IInv /\ TurnInv)'
  BY DaprStep, TurnStep, StoreStep DEF IInv
<1> QED BY <1>1, <1>2, PTL DEF DaprSpec

-----------------------------------------------------------------------------
\* Load-then-save on one document, under the actor's turns, implements the
\* contract of a store whose operations are atomic: no claim, renewal or
\* release is overwritten by an older copy.
THEOREM DaprRefinesStore == DaprSpec => Spec
<1>1. DaprInit => Init  BY DEF DaprInit
<1>2. IInv /\ TurnInv /\ [DaprNext]_dvars => [Next]_vars
  BY DaprStep DEF IInv
<1> QED BY <1>1, <1>2, DaprInvariant, PTL DEF DaprSpec, Spec

\* A building that is a Dapr actor is never refused to a pip on account of
\* expired shifts, although a refused claim leaves them in the document.
THEOREM DaprIsNeverBlockedByGhosts == DaprSpec => GhostsNeverBlock
BY DaprRefinesStore, StoreIsNeverBlockedByGhosts, PTL

\* The actor's document and every copy of it stay well formed.
THEOREM DaprTypeCorrect == DaprSpec => []DaprTypeOK
<1>1. IInv /\ TurnInv => DaprTypeOK
  BY DEF IInv, TypeOK, TurnInv, Current, DaprTypeOK, CallTicks, Readings
<1> QED BY <1>1, DaprInvariant, PTL

-----------------------------------------------------------------------------
(* The building: the three refinements combined under the choice made at   *)
(* start-up, which no step changes.                                        *)

\* The store that was selected keeps its invariant; the others are idle.
FarmInv ==
    /\ IInv
    /\ backend \in {"memory", "redis", "dapr"}
    /\ IF backend = "redis" THEN CallInv ELSE call = [r \in Replica |-> NoCall]
    /\ IF backend = "dapr" THEN TurnInv ELSE turn = [c \in Caller |-> NoTurn]

LEMMA FarmStep ==
    ASSUME FarmInv, [FarmNext]_fvars
    PROVE  [Next]_vars
<1>1. CASE backend = "memory" /\ MemNext
  BY <1>1, MemStep DEF FarmInv, IInv
<1>2. CASE backend = "redis" /\ RedisNext
  BY <1>2, RedisStep DEF FarmInv
<1>3. CASE backend = "dapr" /\ DaprNext
  BY <1>3, DaprStep DEF FarmInv, IInv
<1>4. CASE UNCHANGED fvars  BY <1>4 DEF fvars
<1> QED BY <1>1, <1>2, <1>3, <1>4 DEF FarmNext

LEMMA FarmInvStep == FarmInv /\ [FarmNext]_fvars => FarmInv'
<1> SUFFICES ASSUME FarmInv, [FarmNext]_fvars PROVE FarmInv'  OBVIOUS
<1>1. IInv'  BY FarmStep, StoreStep DEF FarmInv
<1>2. backend' = backend  BY DEF FarmNext, fvars
<1>3. CASE UNCHANGED <<call, turn>> /\ backend = "memory"
  BY <1>1, <1>2, <1>3 DEF FarmInv
<1>4. CASE backend = "redis" /\ RedisNext /\ UNCHANGED turn
  <2>1. CallInv'  BY <1>4, CallStep DEF FarmInv
  <2> QED BY <1>1, <1>2, <1>4, <2>1 DEF FarmInv
<1>5. CASE backend = "dapr" /\ DaprNext /\ UNCHANGED call
  <2>1. TurnInv'  BY <1>5, TurnStep DEF FarmInv, IInv
  <2> QED BY <1>1, <1>2, <1>5, <2>1 DEF FarmInv
<1>6. CASE UNCHANGED fvars
  <2>1. UNCHANGED rvars /\ UNCHANGED dvars /\ UNCHANGED <<call, turn>>
    BY <1>6 DEF fvars, rvars, dvars
  <2>2. backend = "redis" => CallInv'  BY <2>1, CallStep DEF FarmInv
  <2>3. backend = "dapr" => TurnInv'  BY <2>1, TurnStep DEF FarmInv, IInv
  <2> QED BY <1>1, <1>2, <2>1, <2>2, <2>3 DEF FarmInv
<1> QED BY <1>3, <1>4, <1>5, <1>6 DEF FarmNext

LEMMA FarmInvInit == FarmInit => FarmInv
<1> SUFFICES ASSUME FarmInit PROVE FarmInv  OBVIOUS
<1>1. IInv  BY StoreInit DEF FarmInit, DaprInit
<1>2. CallInv  BY CallInit DEF FarmInit
<1>3. TurnInv  BY DEF FarmInit, DaprInit, TurnInv
<1>4. /\ call = [r \in Replica |-> NoCall] /\ turn = [c \in Caller |-> NoTurn]
      /\ backend \in {"memory", "redis", "dapr"}
  BY DEF FarmInit, RedisInit, DaprInit, Chosen
<1> QED BY <1>1, <1>2, <1>3, <1>4 DEF FarmInv

LEMMA FarmInvariant == FarmSpec => []FarmInv
BY FarmInvInit, FarmInvStep, PTL DEF FarmSpec

-----------------------------------------------------------------------------
\* Whichever store the environment selects, a building implements the
\* contract: for every number of pips, positions, replicas and callers.
THEOREM FarmRefinesStore == FarmSpec => FarmImplementsStore
<1>1. FarmInit => Init  BY DEF FarmInit, DaprInit
<1>2. FarmInv /\ [FarmNext]_fvars => [Next]_vars  BY FarmStep
<1> QED BY <1>1, <1>2, FarmInvariant, PTL DEF FarmSpec, Spec, FarmImplementsStore

\* The shifts, every call to Redis and every turn at the actor stay well
\* formed under each of the three stores.
THEOREM FarmTypeCorrect == FarmSpec => []FarmTypeOK
<1>1. ASSUME FarmInv PROVE FarmTypeOK
  <2>1. TypeOK  BY <1>1 DEF FarmInv, IInv
  <2>2. RedisTypeOK
    <3>1. CASE backend = "redis"  BY <1>1, <2>1, <3>1 DEF FarmInv, CallInv, RedisTypeOK
    <3>2. CASE backend # "redis"  BY <1>1, <2>1, <3>2 DEF FarmInv, RedisTypeOK
    <3> QED BY <3>1, <3>2
  <2>3. DaprTypeOK
    <3>1. CASE backend = "dapr"
      BY <1>1, <2>1, <3>1 DEF FarmInv, TypeOK, TurnInv, Current, DaprTypeOK,
                              CallTicks, Readings
    <3>2. CASE backend # "dapr"  BY <1>1, <2>1, <3>2 DEF FarmInv, DaprTypeOK
    <3> QED BY <3>1, <3>2
  <2> QED BY <1>1, <2>2, <2>3 DEF FarmInv, FarmTypeOK
<1> QED BY <1>1, FarmInvariant, PTL

\* Under each of the three stores a building never employs more pips than it
\* has positions.
THEOREM FarmNeverOverfull == FarmSpec => []NeverOverfull
<1>1. FarmInv => NeverOverfull  BY DEF FarmInv, IInv
<1> QED BY <1>1, FarmInvariant, PTL
=============================================================================
