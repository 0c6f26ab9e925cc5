-------------------------- MODULE EmploymentProofs --------------------------
(***************************************************************************)
(* The economy cycle's guarantees for every number of pips and workplaces, *)
(* every lease, deadline and time to live with CycleDeadline < HireGrace.  *)
(***************************************************************************)
EXTENDS Employment, SumTheorems, SequenceTheorems

Employer == Workplace \union {None}
Intent == [pip : Pip, employer : Employer]

CoreOK ==
    /\ alive \in SUBSET Pip
    /\ employers \in [Pip -> Employer]
    /\ intents \in Seq(Intent)
    /\ stall \in 0..MaxStall + 1

ShiftsOK == shifts \in [Workplace -> Timers(Pip, ShiftLease)]

QueuesOK ==
    /\ offers \in [Kinds -> Seq(OfferType)]
    /\ taken \in [Kinds -> Seq(OfferType)]
    /\ outcomes \in Seq(OutcomeType)
    /\ hiring \in OutcomeType \union {None}

DriversOK ==
    /\ employed \in [Workplace -> SUBSET Pip]
    /\ hiredAt \in [Workplace -> Timers(Pip, HireGrace)]
    /\ pending \in [Workplace -> Timers(Pip, PendingTTL)]
    /\ connected \in BOOLEAN

CycleOK ==
    /\ unsynced \in SUBSET Workplace
    /\ DOMAIN snap \in SUBSET Pip
    /\ snap \in [DOMAIN snap -> Employer]
    /\ left \in 0..CycleDeadline
    /\ ending \in SUBSET (Workplace \X Pip)
    /\ told \in (Workplace \X Pip) \union {None}

RestOK ==
    /\ unheard \in SUBSET (Workplace \X Pip) /\ delayed \in SUBSET (Workplace \X Pip)
    /\ faults \in 0..MaxFaults

LEMMA TypeParts ==
    TypeOK <=> CoreOK /\ ShiftsOK /\ QueuesOK /\ DriversOK /\ CycleOK /\ RestOK
BY DEF TypeOK, CoreOK, ShiftsOK, QueuesOK, DriversOK, CycleOK, RestOK, Employer, Intent

LEMMA Numbers ==
    /\ ShiftLease \in Nat \ {0} /\ OfferTTL \in Nat \ {0} /\ PendingTTL \in Nat \ {0}
    /\ HireGrace \in Nat \ {0} /\ CycleDeadline \in Nat \ {0} /\ MaxFaults \in Nat
    /\ MaxStall \in Nat /\ CycleDeadline < HireGrace
    /\ Patience \in Nat \ {0} /\ HireGrace - Patience = CycleDeadline
BY TimerAssumption DEF Patience

-----------------------------------------------------------------------------
(* Timers. *)

LEMMA TimersAre ==
    ASSUME NEW P, NEW n
    PROVE  \A t : t \in Timers(P, n) <=> DOMAIN t \in SUBSET P /\ t \in [DOMAIN t -> 0..n]
<1> SUFFICES ASSUME NEW t
             PROVE  t \in Timers(P, n) <=> DOMAIN t \in SUBSET P /\ t \in [DOMAIN t -> 0..n]
  OBVIOUS
<1>1. ASSUME t \in Timers(P, n)
      PROVE  DOMAIN t \in SUBSET P /\ t \in [DOMAIN t -> 0..n]
  <2>1. PICK D \in SUBSET P : t \in [D -> 0..n]  BY <1>1 DEF Timers
  <2> QED BY <2>1
<1>2. ASSUME DOMAIN t \in SUBSET P, t \in [DOMAIN t -> 0..n]
      PROVE  t \in Timers(P, n)
  BY <1>2 DEF Timers
<1> QED BY <1>1, <1>2

LEMMA NoTimers == ASSUME NEW P, NEW n PROVE << >> \in Timers(P, n)
<1>1. DOMAIN << >> = {}  OBVIOUS
<1>2. << >> = [x \in {} |-> 0]  OBVIOUS
<1>3. [x \in {} |-> 0] \in [{} -> 0..n]  OBVIOUS
<1> QED BY <1>2, <1>3 DEF Timers

LEMMA TimersKept ==
    ASSUME NEW P, NEW n \in Nat, NEW t \in Timers(P, n)
    PROVE  /\ \A x \in P, v \in 0..n : Put(t, x, v) \in Timers(P, n)
           /\ \A x : Drop(t, x) \in Timers(P, n)
           /\ [x \in Running(t) |-> t[x]] \in Timers(P, n)
           /\ Aged(t) \in Timers(P, n)
<1>1. DOMAIN t \in SUBSET P /\ t \in [DOMAIN t -> 0..n]  BY TimersAre
<1>2. ASSUME NEW x \in P, NEW v \in 0..n PROVE Put(t, x, v) \in Timers(P, n)
  <2>1. DOMAIN t \union {x} \in SUBSET P  BY <1>1
  <2>2. Put(t, x, v) \in [DOMAIN t \union {x} -> 0..n]  BY <1>1 DEF Put
  <2> QED BY <2>1, <2>2 DEF Timers
<1>3. ASSUME NEW x PROVE Drop(t, x) \in Timers(P, n)
  <2>1. DOMAIN t \ {x} \in SUBSET P  BY <1>1
  <2>2. Drop(t, x) \in [DOMAIN t \ {x} -> 0..n]  BY <1>1 DEF Drop
  <2> QED BY <2>1, <2>2 DEF Timers
<1>4. [x \in Running(t) |-> t[x]] \in Timers(P, n)
  <2>1. Running(t) \in SUBSET P  BY <1>1 DEF Running
  <2>2. [x \in Running(t) |-> t[x]] \in [Running(t) -> 0..n]  BY <1>1 DEF Running
  <2> QED BY <2>1, <2>2 DEF Timers
<1>5. Aged(t) \in Timers(P, n)
  <2>1. Aged(t) \in [DOMAIN t -> 0..n]  BY <1>1 DEF Aged
  <2> QED BY <1>1, <2>1 DEF Timers
<1> QED BY <1>2, <1>3, <1>4, <1>5

-----------------------------------------------------------------------------
(* A tick of the core. *)

\* The employers after each of the intents: the trace of the fold in Tick.
LEMMA TickTrace ==
    ASSUME NEW s \in Seq(Intent), NEW e \in [Pip -> Employer]
    PROVE  \E h \in [0..Len(s) -> [Pip -> Employer]] :
             /\ h[0] = e
             /\ \A i \in 1..Len(s) : h[i] = Applied(h[i - 1], s[i])
             /\ FoldLeft(Applied, e, s) = h[Len(s)]
<1> DEFINE n == Len(s)
           A == [Pip -> Employer]
           R == [i \in 1..n |-> [a \in A |-> Applied(a, s[i])]]
           Rec(g) == g = [T \in SUBSET (1..n) |->
                            IF T = {} THEN e
                            ELSE Applied(g[T \ {Max(T)}], s[Max(T)])]
           iter == CHOOSE g : Rec(g)
<1>1. n \in Nat /\ DOMAIN s = 1..n /\ \A i \in 1..n : s[i] \in Intent  OBVIOUS
<1>2. \A a \in A, i \in 1..n : Applied(a, s[i]) \in A  BY <1>1 DEF Applied, Intent
<1>3. R \in [1..n -> [A -> A]]  BY <1>2
<1>4. ASSUME NEW T \in SUBSET (1..n), T # {}
      PROVE  Max(T) \in T
  BY <1>1, <1>4, MaxIn
<1>5. \E g \in [SUBSET (1..n) -> A] : Rec(g)
  <2>0. e \in A  OBVIOUS
  <2> HIDE DEF R, A, n
  <2>1. PICK g \in [SUBSET (1..n) -> A] : IsFold(g, e, R, n)
    BY <1>1, <1>3, <2>0, FoldExists
  <2>2. ASSUME NEW T \in SUBSET (1..n), T # {}
        PROVE  g[T] = Applied(g[T \ {Max(T)}], s[Max(T)])
    <3>1. Max(T) \in 1..n /\ T \ {Max(T)} \in SUBSET (1..n)  BY <1>4, <2>2
    <3>2. g[T \ {Max(T)}] \in A  BY <3>1
    <3> QED BY <2>1, <2>2, <3>1, <3>2 DEF R, IsFold
  <2>3. Rec(g)  BY <2>1, <2>2 DEF IsFold
  <2> HIDE DEF Rec
  <2> QED BY <2>3
<1>6. Rec(iter)
  <2> HIDE DEF Rec
  <2> QED BY <1>5
<1>7. FoldLeft(Applied, e, s) = iter[1..n]
  BY <1>1 DEF FoldLeft, MapThenFoldSet
<1> DEFINE h == [i \in 0..n |-> iter[1..i]]
<1> HIDE DEF iter, R, A
<1>8. iter[{}] = e
  <2>1. {} \in SUBSET (1..n)  OBVIOUS
  <2> QED BY <1>6, <2>1
<1>9. h[0] = e
  <2>1. 1..0 = {} /\ 0 \in 0..n  BY <1>1
  <2> QED BY <1>8, <2>1
<1>10. ASSUME NEW i \in 1..n PROVE h[i] = Applied(h[i - 1], s[i])
  <2>1. /\ 1..i \in SUBSET (1..n) /\ i \in 1..i /\ i \in Nat
        /\ (1..i) \ {i} = 1..i - 1 /\ i \in 0..n /\ i - 1 \in 0..n
    BY <1>1
  <2>2. Max(1..i) = i  BY <2>1, MaxIs
  <2>3. iter[1..i] = Applied(iter[1..i - 1], s[i])  BY <1>6, <2>1, <2>2
  <2> QED BY <2>1, <2>3
<1> HIDE DEF h
<1>11. ASSUME NEW i \in 0..n PROVE h[i] \in A
  <2> DEFINE G == {k \in 0..n : h[k] \in A}
  <2>1. 0 \in G  BY <1>1, <1>9 DEF A
  <2>2. ASSUME NEW k \in 0..i - 1, k \in G PROVE k + 1 \in G
    <3>1. k + 1 \in 1..n /\ (k + 1) - 1 = k  BY <1>1
    <3>2. h[k + 1] = Applied(h[k], s[k + 1])  BY <1>10, <3>1
    <3> QED BY <1>2, <2>2, <3>1, <3>2
  <2>3. i \in G
    <3> HIDE DEF G
    <3> QED BY <1>1, <2>1, <2>2, IntervalInduction
  <2> QED BY <2>3
<1>12. h \in [0..n -> A] /\ h[n] = FoldLeft(Applied, e, s)
  BY <1>1, <1>7, <1>11 DEF h
<1> QED BY <1>9, <1>10, <1>12 DEF A

\* A tick makes nobody the employee of a workplace that no intent names.
LEMMA TickHires ==
    ASSUME CoreOK, NEW p \in Pip, NEW w \in Workplace,
           FoldLeft(Applied, employers, intents)[p] = w
    PROVE  employers[p] = w \/ Asked(w, p)
<1> DEFINE n == Len(intents)
<1>1. PICK h \in [0..n -> [Pip -> Employer]] :
        /\ h[0] = employers
        /\ \A i \in 1..n : h[i] = Applied(h[i - 1], intents[i])
        /\ FoldLeft(Applied, employers, intents) = h[n]
  BY TickTrace DEF CoreOK
<1>2. n \in Nat /\ DOMAIN intents = 1..n /\ \A i \in 1..n : intents[i] \in Intent
  BY DEF CoreOK
<1>3. CASE \E i \in 1..n : intents[i] = Hire(p, w)  BY <1>2, <1>3 DEF Asked
<1>4. CASE \A i \in 1..n : intents[i] # Hire(p, w)
  <2> DEFINE G == {k \in 0..n : h[k][p] = w => employers[p] = w}
  <2> HIDE DEF n
  <2>1. 0 \in G  BY <1>1, <1>2
  <2>2. ASSUME NEW k \in 0..n - 1, k \in G PROVE k + 1 \in G
    <3>1. /\ k + 1 \in 1..n /\ k + 1 \in 0..n /\ (k + 1) - 1 = k
          /\ k \in 0..n
      BY <1>2
    <3>2. h[k + 1] = Applied(h[k], intents[k + 1]) /\ h[k] \in [Pip -> Employer]
      BY <1>1, <3>1
    <3>3. intents[k + 1] \in Intent /\ intents[k + 1] # Hire(p, w)  BY <1>2, <1>4, <3>1
    <3>4. h[k + 1][p] = w => h[k][p] = w
      BY <3>2, <3>3 DEF Applied, Intent, Hire
    <3> QED BY <2>2, <3>1, <3>4
  <2>3. n \in G
    <3> HIDE DEF G
    <3> QED BY <1>2, <2>1, <2>2, IntervalInduction
  <2> QED BY <1>1, <2>3
<1> QED BY <1>3, <1>4

LEMMA OlderOffer == ASSUME NEW o \in OfferType PROVE Older(o) \in OfferType
<1> DEFINE l == IF o.left = 0 THEN 0 ELSE o.left - 1
<1>1. o.left \in 0..OfferTTL /\ o.pip \in Pip /\ OfferTTL \in Nat
  BY Numbers DEF OfferType
<1>2. l \in 0..OfferTTL  BY <1>1
<1>3. Older(o) = [o EXCEPT !.left = l]  BY DEF Older
<1> HIDE DEF l
<1> QED BY <1>1, <1>2, <1>3 DEF OfferType

\* An offer that waits on is as well formed as it was.
LEMMA WaitingOffers ==
    ASSUME NEW s \in Seq(OfferType)
    PROVE  FoldLeft(OlderOrExpired, << >>, s) \in Seq(OfferType)
<1> DEFINE n == Len(s)
           A == Seq(OfferType)
           R == [i \in 1..n |-> [a \in A |-> OlderOrExpired(a, s[i])]]
           Rec(g) == g = [T \in SUBSET (1..n) |->
                            IF T = {} THEN << >>
                            ELSE OlderOrExpired(g[T \ {Max(T)}], s[Max(T)])]
           iter == CHOOSE g : Rec(g)
<1>1. n \in Nat /\ DOMAIN s = 1..n /\ \A i \in 1..n : s[i] \in OfferType  OBVIOUS
<1>2. ASSUME NEW a \in A, NEW i \in 1..n PROVE OlderOrExpired(a, s[i]) \in A
  <2>1. Older(s[i]) \in OfferType  BY <1>1, OlderOffer
  <2> QED BY <2>1 DEF OlderOrExpired
<1>3. R \in [1..n -> [A -> A]]  BY <1>2
<1>4. ASSUME NEW T \in SUBSET (1..n), T # {}
      PROVE  Max(T) \in T
  BY <1>1, <1>4, MaxIn
<1>5. \E g \in [SUBSET (1..n) -> A] : Rec(g)
  <2>0. << >> \in A  OBVIOUS
  <2> HIDE DEF R, A, n
  <2>1. PICK g \in [SUBSET (1..n) -> A] : IsFold(g, << >>, R, n)
    BY <1>1, <1>3, <2>0, FoldExists
  <2>2. ASSUME NEW T \in SUBSET (1..n), T # {}
        PROVE  g[T] = OlderOrExpired(g[T \ {Max(T)}], s[Max(T)])
    <3>1. Max(T) \in 1..n /\ T \ {Max(T)} \in SUBSET (1..n)  BY <1>4, <2>2
    <3>2. g[T \ {Max(T)}] \in A  BY <3>1
    <3> QED BY <2>1, <2>2, <3>1, <3>2 DEF R, IsFold
  <2>3. Rec(g)  BY <2>1, <2>2 DEF IsFold
  <2> HIDE DEF Rec
  <2> QED BY <2>3
<1>6. Rec(iter)
  <2> HIDE DEF Rec
  <2> QED BY <1>5
<1>7. FoldLeft(OlderOrExpired, << >>, s) = iter[1..n]
  BY <1>1 DEF FoldLeft, MapThenFoldSet
<1> HIDE DEF iter, R
<1> DEFINE G == {T \in SUBSET (1..n) : iter[T] \in A}
<1>8. ASSUME NEW T \in SUBSET (1..n), \A U \in SUBSET T : U # T => U \in G
      PROVE  T \in G
  <2>1. CASE T = {}
    <3>1. iter[T] = << >>  BY <1>6, <2>1
    <3>2. << >> \in A  OBVIOUS
    <3> QED BY <3>1, <3>2
  <2>2. CASE T # {}
    <3>1. Max(T) \in T  BY <1>4, <2>2
    <3>2. T \ {Max(T)} \in G /\ Max(T) \in 1..n  BY <1>8, <3>1
    <3>3. iter[T] = OlderOrExpired(iter[T \ {Max(T)}], s[Max(T)])  BY <1>6, <2>2
    <3> QED BY <1>2, <3>2, <3>3
  <2> QED BY <2>1, <2>2
<1>9. 1..n \in G
  <2> DEFINE S == 1..n
  <2> HIDE DEF G, S
  <2>1. IsFiniteSet(S)  BY <1>1, FS_Interval DEF S
  <2>2. \A T \in SUBSET S : (\A U \in SUBSET T : U # T => U \in G) => T \in G
    BY <1>8 DEF S
  <2>3. S \in G  BY <2>1, <2>2, SubsetInduction
  <2> QED BY <2>3 DEF S
<1> QED BY <1>7, <1>9

-----------------------------------------------------------------------------
(* Every action keeps the types. *)

LEMMA Frames ==
    /\ CoreOK /\ UNCHANGED core => CoreOK'
    /\ ShiftsOK /\ UNCHANGED shifts => ShiftsOK'
    /\ QueuesOK /\ UNCHANGED queues => QueuesOK'
    /\ DriversOK /\ UNCHANGED drivers => DriversOK'
    /\ CycleOK /\ UNCHANGED cycle => CycleOK'
    /\ RestOK /\ UNCHANGED history /\ UNCHANGED faults => RestOK'
BY DEF CoreOK, core, ShiftsOK, QueuesOK, queues, DriversOK, drivers, CycleOK, cycle,
       RestOK, history

LEMMA FaultTyped == ASSUME faults \in 0..MaxFaults, Fault PROVE faults' \in 0..MaxFaults
BY Numbers DEF Fault

LEMMA SubmitTyped == ASSUME CoreOK, NEW i \in Intent, Submit(i) PROVE CoreOK'
BY DEF CoreOK, Submit

LEMMA Intents ==
    \A p \in Pip, w \in Workplace : Hire(p, w) \in Intent /\ EndEmployment(p) \in Intent
BY DEF Hire, EndEmployment, Intent, Employer

LEMMA ReapedTyped ==
    ASSUME ShiftsOK, NEW w \in Workplace
    PROVE  Reaped(w) \in Timers(Pip, ShiftLease)
<1>1. shifts[w] \in Timers(Pip, ShiftLease)  BY DEF ShiftsOK
<1> QED BY <1>1, Numbers, TimersKept DEF Reaped

LEMMA AcceptTyped ==
    ASSUME ShiftsOK, NEW k \in Kinds, NEW w \in Workplace, Offered(k) \in Pip, Accept(k, w)
    PROVE  ShiftsOK'
<1> DEFINE S == Timers(Pip, ShiftLease)
<1>1. PICK asked \in SUBSET Full(k) :
        shifts' = [v \in Workplace |->
                     CASE v = w -> Put(Reaped(w), Offered(k), ShiftLease)
                       [] v \in asked -> Reaped(v)
                       [] OTHER -> shifts[v]]
  BY DEF Accept
<1>2. ShiftLease \in 0..ShiftLease /\ ShiftLease \in Nat  BY Numbers
<1>3. \A v \in Workplace : Reaped(v) \in S  BY ReapedTyped
<1>4. Put(Reaped(w), Offered(k), ShiftLease) \in S  BY <1>2, <1>3, TimersKept
<1>5. shifts \in [Workplace -> S]  BY DEF ShiftsOK
<1> HIDE DEF S
<1>6. shifts' \in [Workplace -> S]  BY <1>1, <1>3, <1>4, <1>5
<1> QED BY <1>6 DEF ShiftsOK, S

LEMMA RefuseTyped == ASSUME ShiftsOK, NEW k, Refuse(k) PROVE ShiftsOK'
<1> DEFINE S == Timers(Pip, ShiftLease)
<1>1. \A v \in Workplace : Reaped(v) \in S  BY ReapedTyped
<1>2. shifts \in [Workplace -> S]  BY DEF ShiftsOK
<1> HIDE DEF S
<1>3. shifts' \in [Workplace -> S]  BY <1>1, <1>2 DEF Refuse
<1> QED BY <1>3 DEF ShiftsOK, S

\* The offer in hand is about a pip, and whatever becomes of it the queues keep
\* well-formed offers.
LEMMA InHandTyped ==
    ASSUME QueuesOK, NEW k \in Kinds, taken[k] # << >>
    PROVE  /\ Offered(k) \in Pip
           /\ taken[k] \in Seq(OfferType) /\ offers[k] \in Seq(OfferType)
           /\ Tail(taken[k]) \in Seq(OfferType)
           /\ <<Head(taken[k])>> \o offers[k] \in Seq(OfferType)
           /\ taken[k] \o offers[k] \in Seq(OfferType)
<1>1. taken[k] \in Seq(OfferType) /\ offers[k] \in Seq(OfferType)  BY DEF QueuesOK
<1> DEFINE t == taken[k]
           o == offers[k]
<1> HIDE DEF t, o
<1>2. t \in Seq(OfferType) /\ o \in Seq(OfferType) /\ t # << >>  BY <1>1 DEF t, o
<1>3. Head(t) \in OfferType /\ Tail(t) \in Seq(OfferType)  BY <1>2
<1>4. <<Head(t)>> \in Seq(OfferType)  BY <1>3
<1>5. <<Head(t)>> \o o \in Seq(OfferType) /\ t \o o \in Seq(OfferType)
  BY <1>2, <1>4
<1>6. Head(t).pip \in Pip  BY <1>3 DEF OfferType
<1> QED BY <1>1, <1>3, <1>5, <1>6 DEF t, o, Offered

LEMMA AcknowledgeTyped ==
    ASSUME QueuesOK, RestOK, NEW k \in Kinds, taken[k] # << >>, Acknowledge(k)
    PROVE  /\ offers' \in [Kinds -> Seq(OfferType)]
           /\ taken' \in [Kinds -> Seq(OfferType)]
           /\ faults' \in 0..MaxFaults
<1>1. offers \in [Kinds -> Seq(OfferType)] /\ taken \in [Kinds -> Seq(OfferType)]
  BY DEF QueuesOK
<1>2. faults \in 0..MaxFaults  BY DEF RestOK
<1>3. << >> \in Seq(OfferType)  OBVIOUS
<1>4. CASE taken' = [taken EXCEPT ![k] = Tail(@)] /\ UNCHANGED <<offers, faults>>
  BY <1>1, <1>2, <1>4, InHandTyped
<1>5. CASE /\ Fault
           /\ taken' = [taken EXCEPT ![k] = << >>]
           /\ offers' = [offers EXCEPT ![k] = taken[k] \o @]
  <2>1. offers' = [offers EXCEPT ![k] = taken[k] \o offers[k]]  BY <1>5
  <2>2. offers' \in [Kinds -> Seq(OfferType)]  BY <1>1, <2>1, InHandTyped
  <2>3. taken' \in [Kinds -> Seq(OfferType)]  BY <1>1, <1>3, <1>5
  <2> QED BY <1>2, <1>5, <2>2, <2>3, FaultTyped
<1> QED BY <1>4, <1>5 DEF Acknowledge

Good == CoreOK /\ ShiftsOK /\ QueuesOK /\ DriversOK /\ CycleOK /\ RestOK

LEMMA TickTyped ==
    ASSUME Good, NEW dying \in SUBSET alive, Tick(dying), stall' \in 0..MaxStall + 1,
           faults' \in 0..MaxFaults
    PROVE  Good'
<1>1. employers \in [Pip -> Employer] /\ intents \in Seq(Intent) /\ alive \in SUBSET Pip
  BY DEF Good, CoreOK
<1> DEFINE hired == FoldLeft(Applied, employers, intents)
<1>2. hired \in [Pip -> Employer]
  <2>1. PICK h \in [0..Len(intents) -> [Pip -> Employer]] : hired = h[Len(intents)]
    BY <1>1, TickTrace
  <2>2. Len(intents) \in 0..Len(intents)  BY <1>1
  <2> HIDE DEF hired
  <2> QED BY <2>1, <2>2
<1>3. employers' = [p \in Pip |-> IF p \in dying THEN None ELSE hired[p]]
  BY DEF Tick
<1> HIDE DEF hired
<1>4. CoreOK'
  <2>1. employers' \in [Pip -> Employer]  BY <1>2, <1>3 DEF Employer
  <2>2. intents' = << >> /\ alive' \in SUBSET Pip  BY <1>1 DEF Tick
  <2>3. << >> \in Seq(Intent)  OBVIOUS
  <2> QED BY <2>1, <2>2, <2>3 DEF CoreOK
<1>5. RestOK'  BY DEF Good, RestOK, Tick, history
<1> QED BY <1>4, <1>5, Frames DEF Good, Tick

LEMMA CoreTickTyped ==
    ASSUME Good, NEW dying \in SUBSET alive, CoreTick(dying) PROVE Good'
BY TickTyped DEF Good, CoreOK, RestOK, CoreTick

LEMMA SlowTickTyped ==
    ASSUME Good, NEW dying \in SUBSET alive, SlowTick(dying) PROVE Good'
<1>1. stall' \in 0..MaxStall + 1  BY Numbers DEF SlowTick
<1>2. faults' \in 0..MaxFaults  BY FaultTyped DEF Good, RestOK, SlowTick
<1> QED BY <1>1, <1>2, TickTyped DEF SlowTick

LEMMA DeliveredTyped == ASSUME Good, Delivered PROVE Good'
<1>1. CoreOK'  BY Numbers DEF Good, CoreOK, Delivered
<1> QED BY <1>1, Frames DEF Good, Delivered

LEMMA WorldRestartsTyped == ASSUME Good, WorldRestarts PROVE Good'
<1>1. CoreOK'
  <2>1. << >> \in Seq(Intent)  OBVIOUS
  <2> QED BY <2>1, Numbers DEF CoreOK, WorldRestarts, Employer
<1>2. RestOK'  BY FaultTyped DEF Good, RestOK, WorldRestarts, history
<1> QED BY <1>1, <1>2, Frames DEF Good, WorldRestarts

LEMMA TakeOfferTyped == ASSUME Good, NEW k \in Kinds, TakeOffer(k) PROVE Good'
<1>1. /\ offers \in [Kinds -> Seq(OfferType)] /\ taken \in [Kinds -> Seq(OfferType)]
      /\ offers[k] \in Seq(OfferType) /\ taken[k] \in Seq(OfferType)
      /\ offers[k] # << >>
  BY DEF Good, QueuesOK, TakeOffer
<1>2. /\ Tail(offers[k]) \in Seq(OfferType)
      /\ Append(taken[k], Head(offers[k])) \in Seq(OfferType)
  <2> DEFINE o == offers[k]
             t == taken[k]
  <2> HIDE DEF o, t
  <2>1. o \in Seq(OfferType) /\ t \in Seq(OfferType) /\ o # << >>  BY <1>1 DEF o, t
  <2>2. Tail(o) \in Seq(OfferType) /\ Append(t, Head(o)) \in Seq(OfferType)  BY <2>1
  <2> QED BY <2>2 DEF o, t
<1>3. /\ taken' = [taken EXCEPT ![k] = Append(taken[k], Head(offers[k]))]
      /\ offers' = [offers EXCEPT ![k] = Tail(offers[k])]
      /\ UNCHANGED <<outcomes, hiring>>
  BY DEF TakeOffer
<1>4. QueuesOK'  BY <1>1, <1>2, <1>3 DEF Good, QueuesOK
<1> QED BY <1>4, Frames DEF Good, TakeOffer

LEMMA ConsiderTyped == ASSUME Good, NEW k \in Kinds, Consider(k) PROVE Good'
<1>1. taken[k] # << >> /\ Acknowledge(k)  BY DEF Consider
<1>2. /\ offers' \in [Kinds -> Seq(OfferType)] /\ taken' \in [Kinds -> Seq(OfferType)]
      /\ faults' \in 0..MaxFaults
  BY <1>1, AcknowledgeTyped DEF Good
<1>3. Offered(k) \in Pip  BY <1>1, InHandTyped DEF Good
<1>4. outcomes \in Seq(OutcomeType)  BY DEF Good, QueuesOK
<1>5. ShiftsOK' /\ outcomes' \in Seq(OutcomeType)
  <2>1. ASSUME NEW w \in Workplace, Accept(k, w), Publish(k, w)
        PROVE  ShiftsOK' /\ outcomes' \in Seq(OutcomeType)
    <3>1. ShiftsOK'  BY <1>3, <2>1, AcceptTyped DEF Good
    <3>2. [pip |-> Offered(k), workplace |-> w] \in OutcomeType  BY <1>3 DEF OutcomeType
    <3>3. outcomes' \in Seq(OutcomeType)  BY <1>4, <2>1, <3>2 DEF Publish
    <3> QED BY <3>1, <3>3
  <2>2. ASSUME Refuse(k), UNCHANGED outcomes
        PROVE  ShiftsOK' /\ outcomes' \in Seq(OutcomeType)
    BY <1>4, <2>2, RefuseTyped DEF Good
  <2> QED BY <2>1, <2>2 DEF Consider
<1>6. QueuesOK' /\ RestOK'
  BY <1>2, <1>5 DEF Good, QueuesOK, RestOK, Consider, history
<1> QED BY <1>5, <1>6, Frames DEF Good, Consider

LEMMA ConsiderUnansweredTyped ==
    ASSUME Good, NEW k \in Kinds, ConsiderUnanswered(k) PROVE Good'
<1>1. taken[k] # << >>  BY DEF ConsiderUnanswered
<1>2. offers \in [Kinds -> Seq(OfferType)] /\ taken \in [Kinds -> Seq(OfferType)]
  BY DEF Good, QueuesOK
<1>3. offers' \in [Kinds -> Seq(OfferType)] /\ taken' \in [Kinds -> Seq(OfferType)]
  <2>1. /\ taken' = [taken EXCEPT ![k] = Tail(taken[k])]
        /\ offers' = [offers EXCEPT ![k] = <<Head(taken[k])>> \o offers[k]]
    BY DEF ConsiderUnanswered
  <2>2. /\ Tail(taken[k]) \in Seq(OfferType)
        /\ <<Head(taken[k])>> \o offers[k] \in Seq(OfferType)
    BY <1>1, InHandTyped DEF Good
  <2> QED BY <1>2, <2>1, <2>2
<1>4. ShiftsOK'
  <2>1. Offered(k) \in Pip  BY <1>1, InHandTyped DEF Good
  <2> QED BY <2>1, AcceptTyped, RefuseTyped DEF Good, ConsiderUnanswered
<1>5. QueuesOK' /\ RestOK'
  BY <1>3, FaultTyped DEF Good, QueuesOK, RestOK, ConsiderUnanswered, history
<1> QED BY <1>4, <1>5, Frames DEF Good, ConsiderUnanswered

LEMMA ConsiderBlindTyped ==
    ASSUME Good, NEW k \in Kinds, ConsiderBlind(k) PROVE Good'
<1>1. taken[k] # << >>  BY DEF ConsiderBlind
<1>2. taken \in [Kinds -> Seq(OfferType)]  BY DEF Good, QueuesOK
<1>3. Tail(taken[k]) \in Seq(OfferType) /\ Offered(k) \in Pip
  BY <1>1, InHandTyped DEF Good
<1>4. taken' \in [Kinds -> Seq(OfferType)]  BY <1>2, <1>3 DEF ConsiderBlind
<1>5. ShiftsOK'  BY <1>3, AcceptTyped, Frames DEF Good, ConsiderBlind
<1>6. QueuesOK' /\ RestOK'
  BY <1>4, FaultTyped DEF Good, QueuesOK, RestOK, ConsiderBlind, history
<1> QED BY <1>5, <1>6, Frames DEF Good, ConsiderBlind

LEMMA WorkplaceForgetsTyped ==
    ASSUME Good, NEW w \in Workplace, WorkplaceForgets(w) PROVE Good'
<1>1. << >> \in Timers(Pip, ShiftLease)  BY NoTimers
<1>2. ShiftsOK'
  <2> DEFINE S == Timers(Pip, ShiftLease)
  <2>1. shifts \in [Workplace -> S] /\ << >> \in S  BY <1>1 DEF Good, ShiftsOK
  <2> HIDE DEF S
  <2>2. shifts' \in [Workplace -> S]  BY <2>1 DEF WorkplaceForgets
  <2> QED BY <2>2 DEF ShiftsOK, S
<1>3. RestOK'  BY FaultTyped DEF Good, RestOK, WorkplaceForgets, history
<1> QED BY <1>2, <1>3, Frames DEF Good, WorkplaceForgets

LEMMA BrokerRestartsTyped == ASSUME Good, BrokerRestarts PROVE Good'
<1>1. << >> \in Seq(OfferType) /\ << >> \in Seq(OutcomeType)  OBVIOUS
<1>2. QueuesOK'  BY <1>1 DEF Good, QueuesOK, BrokerRestarts
<1>3. DriversOK'  BY DEF Good, DriversOK, BrokerRestarts
<1>4. RestOK'  BY FaultTyped DEF Good, RestOK, BrokerRestarts, history
<1> QED BY <1>2, <1>3, <1>4, Frames DEF Good, BrokerRestarts

LEMMA OnHiredTyped == ASSUME Good, OnHired PROVE Good'
<1> DEFINE o == Head(outcomes)
<1>1. outcomes \in Seq(OutcomeType) /\ outcomes # << >> /\ outcomes' \in {Tail(outcomes), outcomes}
  BY DEF Good, QueuesOK, OnHired
<1>2. o \in OutcomeType /\ outcomes' \in Seq(OutcomeType)  BY <1>1
<1> HIDE DEF o
<1>3. o.pip \in Pip /\ o.workplace \in Workplace  BY <1>2 DEF OutcomeType
<1>4. Hire(o.pip, o.workplace) \in Intent  BY <1>3, Intents
<1>5. /\ UNCHANGED delayed
      /\ \/ Submit(Hire(o.pip, o.workplace)) /\ hiring' = o /\ UNCHANGED <<unheard, faults>>
         \/ Fault /\ UNCHANGED <<core, hiring, unheard>>
         \/ /\ Fault
            /\ Submit(Hire(o.pip, o.workplace))
            /\ unheard' = unheard \union {<<o.workplace, o.pip>>}
            /\ UNCHANGED hiring
  BY DEF OnHired, o
<1>6. CoreOK'  BY <1>4, <1>5, SubmitTyped, Frames DEF Good, core
<1>7. hiring' \in OutcomeType \union {None}  BY <1>2, <1>5 DEF Good, QueuesOK
<1>8. QueuesOK'  BY <1>2, <1>7 DEF Good, QueuesOK, OnHired
<1>9. RestOK'  BY <1>3, <1>5, FaultTyped DEF Good, RestOK
<1> QED BY <1>6, <1>8, <1>9, Frames DEF Good, OnHired

LEMMA RecordHireTyped == ASSUME Good, RecordHire PROVE Good'
<1> DEFINE p == hiring.pip
           w == hiring.workplace
<1>1. hiring \in OutcomeType /\ outcomes \in Seq(OutcomeType)
  BY DEF Good, QueuesOK, RecordHire
<1>2. p \in Pip /\ w \in Workplace  BY <1>1 DEF OutcomeType
<1> HIDE DEF p, w
<1>3. /\ employed' = [employed EXCEPT ![w] = employed[w] \union {p}]
      /\ hiredAt' = [hiredAt EXCEPT ![w] = Put(hiredAt[w], p, HireGrace)]
      /\ pending' = [pending EXCEPT ![w] = Drop(pending[w], p)]
  BY DEF RecordHire, p, w
<1>4. /\ hiredAt[w] \in Timers(Pip, HireGrace) /\ pending[w] \in Timers(Pip, PendingTTL)
      /\ HireGrace \in 0..HireGrace /\ HireGrace \in Nat /\ PendingTTL \in Nat
  BY <1>2, Numbers DEF Good, DriversOK
<1>5. /\ Put(hiredAt[w], p, HireGrace) \in Timers(Pip, HireGrace)
      /\ Drop(pending[w], p) \in Timers(Pip, PendingTTL)
  BY <1>2, <1>4, TimersKept
<1>6. DriversOK'
  <2>1. /\ employed' \in [Workplace -> SUBSET Pip]
        /\ hiredAt' \in [Workplace -> Timers(Pip, HireGrace)]
        /\ pending' \in [Workplace -> Timers(Pip, PendingTTL)]
    BY <1>2, <1>3, <1>5 DEF Good, DriversOK
  <2>2. UNCHANGED connected  BY DEF RecordHire
  <2> QED BY <2>1, <2>2 DEF Good, DriversOK
<1>7. QueuesOK'
  <2>1. <<hiring>> \in Seq(OutcomeType)  BY <1>1
  <2>2. <<hiring>> \o outcomes \in Seq(OutcomeType)  BY <1>1, <2>1
  <2>3. outcomes' \in Seq(OutcomeType) /\ hiring' = None
    BY <1>1, <2>2 DEF RecordHire, AcknowledgeOutcome
  <2> QED BY <2>3 DEF Good, QueuesOK, RecordHire
<1>8. RestOK'
  BY FaultTyped DEF Good, RestOK, RecordHire, AcknowledgeOutcome, history
<1> QED BY <1>6, <1>7, <1>8, Frames DEF Good, RecordHire

LEMMA AssignWorkTyped ==
    ASSUME Good, NEW p \in Pip, NEW w \in Workplace, AssignWork(p, w) PROVE Good'
<1>1. CoreOK'  BY SubmitTyped, Intents DEF Good, AssignWork
<1>2. RestOK'  BY FaultTyped DEF Good, RestOK, AssignWork
<1> QED BY <1>1, <1>2, Frames DEF Good, AssignWork

LEMMA SnapshotTyped == ASSUME Good, Snapshot PROVE Good'
<1>1. CycleOK'
  <2>1. /\ snap' = [p \in alive |-> employers[p]] /\ alive \in SUBSET Pip
        /\ employers \in [Pip -> Employer]
    BY DEF Good, CoreOK, Snapshot
  <2>2. DOMAIN snap' = alive /\ snap' \in [alive -> Employer]  BY <2>1
  <2>3. CycleDeadline \in 0..CycleDeadline  BY Numbers
  <2> QED BY <2>1, <2>2, <2>3 DEF Good, CycleOK, Snapshot
<1>2. RestOK'  BY DEF Good, RestOK, Snapshot
<1> QED BY <1>1, <1>2, Frames DEF Good, Snapshot

LEMMA BelievedTyped == ASSUME Good, NEW w \in Workplace PROVE Believed(w) \in SUBSET Pip
<1>1. hiredAt[w] \in Timers(Pip, HireGrace)  BY DEF Good, DriversOK
<1>2. Running(hiredAt[w]) \in SUBSET Pip  BY <1>1, TimersAre DEF Running
<1> QED BY <1>2 DEF Believed, Good, CycleOK

LEMMA SyncTyped == ASSUME Good, NEW w \in Workplace, Sync(w) PROVE Good'
<1>1. Believed(w) \in SUBSET Pip  BY BelievedTyped
<1>2. /\ hiredAt' = [hiredAt EXCEPT ![w] = [p \in Running(hiredAt[w]) |-> hiredAt[w][p]]]
      /\ employed' = [employed EXCEPT ![w] = Believed(w)]
  BY DEF Sync
<1>3. hiredAt[w] \in Timers(Pip, HireGrace) /\ HireGrace \in Nat
  BY Numbers DEF Good, DriversOK
<1>4. [p \in Running(hiredAt[w]) |-> hiredAt[w][p]] \in Timers(Pip, HireGrace)
  BY <1>3, TimersKept
<1>5. DriversOK'  BY <1>1, <1>2, <1>4 DEF Good, DriversOK, Sync
<1>6. CycleOK'
  <2>1. employed[w] \in SUBSET Pip  BY DEF Good, DriversOK
  <2>2. ending' \in SUBSET (Workplace \X Pip)  BY <2>1 DEF Sync
  <2> QED BY <2>2 DEF Good, CycleOK, Sync
<1> QED BY <1>5, <1>6, Frames DEF Good, Sync

LEMMA TellWorkplaceTyped ==
    ASSUME Good, NEW w \in Workplace, NEW p \in Pip, TellWorkplace(w, p) PROVE Good'
<1>1. shifts[w] \in Timers(Pip, ShiftLease)  BY DEF Good, ShiftsOK
<1>2. Drop(shifts[w], p) \in Timers(Pip, ShiftLease)  BY <1>1, Numbers, TimersKept
<1>3. ShiftsOK'  BY <1>2 DEF Good, ShiftsOK, TellWorkplace
<1>4. CycleOK'  BY DEF Good, CycleOK, TellWorkplace
<1>5. RestOK'  BY FaultTyped DEF Good, RestOK, TellWorkplace, history
<1> QED BY <1>3, <1>4, <1>5, Frames DEF Good, TellWorkplace

LEMMA TellWorldTyped == ASSUME Good, TellWorld PROVE Good'
<1> DEFINE w == told[1]
           p == told[2]
<1>1. told \in Workplace \X Pip  BY DEF Good, CycleOK, TellWorld
<1>2. w \in Workplace /\ p \in Pip  BY <1>1
<1>3. EndEmployment(p) \in Intent  BY <1>2, Intents
<1> HIDE DEF w, p
<1>4. /\ \/ Submit(EndEmployment(p)) /\ UNCHANGED faults
         \/ Fault /\ UNCHANGED core
      /\ employed' = [employed EXCEPT ![w] = employed[w] \ {p}]
      /\ pending' = [pending EXCEPT ![w] = Drop(pending[w], p)]
  BY DEF TellWorld, w, p
<1>5. CoreOK'  BY <1>3, <1>4, SubmitTyped, Frames DEF Good
<1>6. RestOK'  BY <1>4, FaultTyped DEF Good, RestOK, TellWorld, history
<1>7. pending[w] \in Timers(Pip, PendingTTL)  BY <1>2 DEF Good, DriversOK
<1>8. Drop(pending[w], p) \in Timers(Pip, PendingTTL)  BY <1>7, Numbers, TimersKept
<1>9. DriversOK'  BY <1>2, <1>4, <1>8 DEF Good, DriversOK, TellWorld
<1>10. CycleOK'  BY DEF Good, CycleOK, TellWorld
<1> QED BY <1>5, <1>6, <1>9, <1>10, Frames DEF Good, TellWorld

LEMMA ServeTyped ==
    ASSUME CycleOK, NEW p \in Pip, Serve(p), ending' \in SUBSET (Workplace \X Pip)
    PROVE  CycleOK'
<1>1. snap' = [q \in DOMAIN snap \ {p} |-> snap[q]]  BY DEF Serve, Drop
<1>2. DOMAIN snap' \in SUBSET Pip /\ snap' \in [DOMAIN snap' -> Employer]
  BY <1>1 DEF CycleOK
<1> QED BY <1>2 DEF CycleOK, Serve

LEMMA WorkTyped ==
    ASSUME Good, NEW p \in Pip, NEW w \in Workplace, Work(p, w) PROVE Good'
<1>1. shifts[w] \in Timers(Pip, ShiftLease) /\ ShiftLease \in 0..ShiftLease
  BY Numbers DEF Good, ShiftsOK
<1>2. Put(shifts[w], p, ShiftLease) \in Timers(Pip, ShiftLease)
  BY <1>1, Numbers, TimersKept
<1>3. ShiftsOK'  BY <1>2 DEF Good, ShiftsOK, Work
<1>4. ending' \in SUBSET (Workplace \X Pip)  BY DEF Good, CycleOK, Work
<1>5. CycleOK'  BY <1>4, ServeTyped DEF Good, Work
<1>6. faults' \in 0..MaxFaults  BY FaultTyped DEF Good, RestOK, Work
<1>7. RestOK'  BY <1>6 DEF Good, RestOK, Work, Serve, history
<1>8. UNCHANGED core /\ QueuesOK' /\ DriversOK'
  BY DEF Good, QueuesOK, DriversOK, Work, Serve
<1> QED BY <1>3, <1>5, <1>7, <1>8, Frames DEF Good

LEMMA OfferTyped == ASSUME Good, NEW p \in Pip, Offer(p) PROVE Good'
<1> DEFINE P == Timers(Pip, PendingTTL)
           Open == {w \in Workplace : p \notin Running(pending[w])}
           untracked(unreached) == [w \in Workplace |-> IF w \in unreached
                                      THEN Drop(pending[w], p) ELSE pending[w]]
<1>1. PICK unreached \in SUBSET Open :
        /\ \/ faults' = faults + Cardinality(unreached) /\ faults' <= MaxFaults
           \/ UNCHANGED faults
        /\ \/ \E w \in Open \ unreached :
                 /\ offers' = [offers EXCEPT ![Kind[w]] =
                                 Append(offers[Kind[w]], NewOffer(p))]
                 /\ pending' = [untracked(unreached) EXCEPT ![w] =
                                  Put(untracked(unreached)[w], p, PendingTTL)]
           \/ pending' = untracked(unreached) /\ UNCHANGED offers
  BY DEF Offer
<1>2. IsFiniteSet(unreached)  BY FS_Subset, WorkplaceAssumption
<1>3. faults' \in 0..MaxFaults
  <2>1. Cardinality(unreached) \in Nat  BY <1>2, FS_CardinalityType
  <2> QED BY <1>1, <2>1, Numbers DEF Good, RestOK
<1>4. pending \in [Workplace -> P]  BY DEF Good, DriversOK
<1>5. untracked(unreached) \in [Workplace -> P]
  <2>1. \A w \in Workplace : Drop(pending[w], p) \in P  BY <1>4, Numbers, TimersKept
  <2> HIDE DEF P
  <2> QED BY <1>4, <2>1
<1>6. \A w \in Workplace : Put(untracked(unreached)[w], p, PendingTTL) \in P
  <2>1. PendingTTL \in 0..PendingTTL /\ PendingTTL \in Nat  BY Numbers
  <2>2. \A w \in Workplace : untracked(unreached)[w] \in P  BY <1>5
  <2> HIDE DEF untracked
  <2> QED BY <2>1, <2>2, TimersKept
<1>7. NewOffer(p) \in OfferType  BY Numbers DEF NewOffer, OfferType
<1>8. offers \in [Kinds -> Seq(OfferType)]  BY DEF Good, QueuesOK
<1>9. \A w \in Workplace : Append(offers[Kind[w]], NewOffer(p)) \in Seq(OfferType)
  <2>1. \A w \in Workplace : Kind[w] \in Kinds  BY DEF Kinds
  <2>2. \A w \in Workplace : offers[Kind[w]] \in Seq(OfferType)  BY <1>8, <2>1
  <2> QED BY <1>7, <2>2
<1> HIDE DEF untracked, P
<1>10. pending' \in [Workplace -> P]  BY <1>1, <1>4, <1>5, <1>6
<1>11. offers' \in [Kinds -> Seq(OfferType)]  BY <1>1, <1>8, <1>9
<1>12. DriversOK'  BY <1>10 DEF Good, DriversOK, Offer, Serve, P
<1>13. QueuesOK'  BY <1>11 DEF Good, QueuesOK, Offer, Serve
<1>14. RestOK'  BY <1>3 DEF Good, RestOK, Offer, Serve, history
<1>15. CycleOK'
  <2>1. ending' \in SUBSET (Workplace \X Pip)  BY DEF Good, CycleOK, Offer
  <2> QED BY <2>1, ServeTyped DEF Good, Offer
<1>16. UNCHANGED core /\ UNCHANGED shifts  BY DEF Offer, Serve
<1> QED BY <1>12, <1>13, <1>14, <1>15, <1>16, Frames DEF Good

LEMMA GatewayRestartsTyped == ASSUME Good, GatewayRestarts PROVE Good'
<1>1. << >> \in Timers(Pip, HireGrace) /\ << >> \in Timers(Pip, PendingTTL)  BY NoTimers
<1>2. DriversOK'
  <2> DEFINE H == Timers(Pip, HireGrace)
             P == Timers(Pip, PendingTTL)
  <2>1. << >> \in H /\ << >> \in P  BY <1>1
  <2> HIDE DEF H, P
  <2>2. /\ hiredAt' \in [Workplace -> H] /\ pending' \in [Workplace -> P]
        /\ employed' \in [Workplace -> SUBSET Pip] /\ connected' = TRUE
    BY <2>1 DEF GatewayRestarts
  <2> QED BY <2>2 DEF DriversOK, H, P
<1>3. QueuesOK'
  <2>1. outcomes \in Seq(OutcomeType) /\ hiring \in OutcomeType \union {None}
    BY DEF Good, QueuesOK
  <2>2. hiring # None => <<hiring>> \o outcomes \in Seq(OutcomeType)
    <3>1. SUFFICES ASSUME hiring \in OutcomeType
                   PROVE  <<hiring>> \o outcomes \in Seq(OutcomeType)
      BY <2>1
    <3>2. <<hiring>> \in Seq(OutcomeType)  BY <3>1
    <3> QED BY <2>1, <3>2
  <2>3. outcomes' \in Seq(OutcomeType)  BY <2>1, <2>2 DEF GatewayRestarts
  <2> QED BY <2>3 DEF Good, QueuesOK, GatewayRestarts
<1>4. CycleOK'
  <2>1. DOMAIN snap' = {} /\ snap' \in [{} -> Employer]  BY DEF GatewayRestarts
  <2> QED BY <2>1 DEF Good, CycleOK, GatewayRestarts
<1>5. RestOK'  BY FaultTyped DEF Good, RestOK, GatewayRestarts, history
<1> QED BY <1>2, <1>3, <1>4, <1>5, Frames DEF Good, GatewayRestarts

LEMMA TimePassesTyped == ASSUME Good, TimePasses PROVE Good'
<1>1. ShiftsOK'
  <2> DEFINE S == Timers(Pip, ShiftLease)
  <2>1. \A w \in Workplace : Aged(shifts[w]) \in S
    BY Numbers, TimersKept DEF Good, ShiftsOK
  <2> HIDE DEF S
  <2>2. shifts' \in [Workplace -> S]  BY <2>1 DEF TimePasses
  <2> QED BY <2>2 DEF ShiftsOK, S
<1>2. DriversOK'
  <2> DEFINE H == Timers(Pip, HireGrace)
             P == Timers(Pip, PendingTTL)
  <2>1. \A w \in Workplace : Aged(hiredAt[w]) \in H /\ Aged(pending[w]) \in P
    BY Numbers, TimersKept DEF Good, DriversOK
  <2> HIDE DEF H, P
  <2>2. /\ hiredAt' \in [Workplace -> H] /\ pending' \in [Workplace -> P]
        /\ UNCHANGED <<employed, connected>>
    BY <2>1 DEF TimePasses
  <2> QED BY <2>2 DEF Good, DriversOK, H, P
<1>3. QueuesOK'
  <2>1. /\ \A k \in Kinds : offers[k] \in Seq(OfferType) /\ taken[k] \in Seq(OfferType)
    BY DEF Good, QueuesOK
  <2>2. offers' \in [Kinds -> Seq(OfferType)]
    <3>1. offers' = [k \in Kinds |-> FoldLeft(OlderOrExpired, << >>, offers[k])]
      BY DEF TimePasses
    <3>2. \A k \in Kinds : FoldLeft(OlderOrExpired, << >>, offers[k]) \in Seq(OfferType)
      BY <2>1, WaitingOffers
    <3> QED BY <3>1, <3>2
  <2>3. taken' \in [Kinds -> Seq(OfferType)]
    <3>1. ASSUME NEW k \in Kinds
          PROVE  [n \in DOMAIN taken[k] |-> Older(taken[k][n])] \in Seq(OfferType)
      <4> DEFINE t == taken[k]
                 aged == [n \in DOMAIN t |-> Older(t[n])]
      <4>1. t \in Seq(OfferType)  BY <2>1
      <4> HIDE DEF t
      <4>2. DOMAIN t = 1..Len(t) /\ Len(t) \in Nat /\ \A n \in DOMAIN t : t[n] \in OfferType
        BY <4>1
      <4>3. \A n \in DOMAIN t : Older(t[n]) \in OfferType  BY <4>2, OlderOffer
      <4>4. aged \in [1..Len(t) -> OfferType]  BY <4>2, <4>3
      <4>5. aged \in Seq(OfferType)  BY <4>2, <4>4, SeqDef
      <4> QED BY <4>5 DEF t
    <3>2. taken' = [k \in Kinds |-> [n \in DOMAIN taken[k] |-> Older(taken[k][n])]]
      BY DEF TimePasses
    <3> QED BY <3>1, <3>2
  <2> QED BY <2>2, <2>3 DEF Good, QueuesOK, TimePasses
<1>4. CycleOK'
  <2>1. left' \in 0..CycleDeadline
    BY Numbers DEF Good, CycleOK, TimePasses
  <2> QED BY <2>1 DEF Good, CycleOK, TimePasses
<1>5. CoreOK'
  <2>1. stall \in 0..MaxStall + 1 /\ stall <= MaxStall
    BY DEF Good, CoreOK, TimePasses
  <2>2. stall' \in 0..MaxStall + 1
    BY <2>1, Numbers DEF TimePasses
  <2> QED BY <2>2 DEF Good, CoreOK, TimePasses
<1>6. RestOK'  BY DEF Good, RestOK, TimePasses
<1> QED BY <1>1, <1>2, <1>3, <1>4, <1>5, <1>6 DEF Good

LEMMA GoodInit == Init => Good
<1> SUFFICES ASSUME Init PROVE Good  OBVIOUS
<1>1. CoreOK
  <2>1. << >> \in Seq(Intent)  OBVIOUS
  <2> QED BY <2>1, Numbers DEF Init, CoreOK, Employer
<1>2. \A n : << >> \in Timers(Pip, n)  BY NoTimers
<1>3. ShiftsOK
  <2> DEFINE S == Timers(Pip, ShiftLease)
  <2>1. << >> \in S  BY <1>2
  <2> HIDE DEF S
  <2>2. shifts \in [Workplace -> S]  BY <2>1 DEF Init
  <2> QED BY <2>2 DEF ShiftsOK, S
<1>4. DriversOK
  <2> DEFINE H == Timers(Pip, HireGrace)
             P == Timers(Pip, PendingTTL)
  <2>1. << >> \in H /\ << >> \in P  BY <1>2
  <2> HIDE DEF H, P
  <2>2. /\ hiredAt \in [Workplace -> H] /\ pending \in [Workplace -> P]
        /\ employed \in [Workplace -> SUBSET Pip] /\ connected = TRUE
    BY <2>1 DEF Init
  <2> QED BY <2>2 DEF DriversOK, H, P
<1>5. QueuesOK
  <2>1. << >> \in Seq(OfferType) /\ << >> \in Seq(OutcomeType)  OBVIOUS
  <2> QED BY <2>1 DEF Init, QueuesOK
<1>6. CycleOK
  <2>1. DOMAIN snap = {} /\ snap \in [{} -> Employer]  BY DEF Init
  <2> QED BY <2>1, Numbers DEF Init, CycleOK
<1>7. RestOK  BY Numbers DEF Init, RestOK
<1> QED BY <1>1, <1>3, <1>4, <1>5, <1>6, <1>7 DEF Good

LEMMA GoodStep == ASSUME Good, [Next]_vars PROVE Good'
<1>1. ASSUME NEW dying \in SUBSET alive, CoreTick(dying) \/ SlowTick(dying) PROVE Good'
  BY <1>1, CoreTickTyped, SlowTickTyped
<1>2. CASE Delivered  BY <1>2, DeliveredTyped
<1>3. CASE WorldRestarts  BY <1>3, WorldRestartsTyped
<1>4. ASSUME NEW k \in Kinds, TakeOffer(k) PROVE Good'  BY <1>4, TakeOfferTyped
<1>5. ASSUME NEW k \in Kinds, Consider(k) PROVE Good'  BY <1>5, ConsiderTyped
<1>6. ASSUME NEW k \in Kinds, ConsiderUnanswered(k) PROVE Good'
  BY <1>6, ConsiderUnansweredTyped
<1>7. ASSUME NEW k \in Kinds, ConsiderBlind(k) PROVE Good'  BY <1>7, ConsiderBlindTyped
<1>8. ASSUME NEW w \in Workplace, WorkplaceForgets(w) PROVE Good'
  BY <1>8, WorkplaceForgetsTyped
<1>9. CASE BrokerRestarts  BY <1>9, BrokerRestartsTyped
<1>10. CASE OnHired  BY <1>10, OnHiredTyped
<1>11. CASE RecordHire  BY <1>11, RecordHireTyped
<1>12. ASSUME NEW p \in Pip, NEW w \in Workplace, AssignWork(p, w) PROVE Good'
  BY <1>12, AssignWorkTyped
<1>13. CASE Snapshot  BY <1>13, SnapshotTyped
<1>14. ASSUME NEW w \in Workplace, Sync(w) PROVE Good'  BY <1>14, SyncTyped
<1>15. CASE TellWorld  BY <1>15, TellWorldTyped
<1>16. ASSUME NEW w \in Workplace, NEW p \in Pip, TellWorkplace(w, p) PROVE Good'
  BY <1>16, TellWorkplaceTyped
<1>17. ASSUME NEW p \in Pip, NEW w \in Workplace, Work(p, w) PROVE Good'
  BY <1>17, WorkTyped
<1>18. ASSUME NEW p \in Pip, Offer(p) PROVE Good'  BY <1>18, OfferTyped
<1>19. CASE GatewayRestarts  BY <1>19, GatewayRestartsTyped
<1>20. CASE TimePasses  BY <1>20, TimePassesTyped
<1>21. CASE UNCHANGED vars
  BY <1>21, Frames DEF Good, vars
<1> QED
  BY <1>1, <1>2, <1>3, <1>4, <1>5, <1>6, <1>7, <1>8, <1>9, <1>10, <1>11, <1>12,
     <1>13, <1>14, <1>15, <1>16, <1>17, <1>18, <1>19, <1>20, <1>21
  DEF Next, Cycle, EndShift

\* Every step of cycle, syncEmployment, work, offer and a tick keeps the types, the
\* freshness of what a cycle knows and the deadlines of its calls.
THEOREM GoodInv == Spec => []Good
BY GoodInit, GoodStep, PTL DEF Spec

\* Timers, queues, the cycle's snapshot and the employment the core records stay
\* well formed through every fault: what CoreTick, the consumers, OnHired,
\* syncEmployment, endShift, work and offer leave behind.
THEOREM EmploymentTypeCorrect == Spec => []TypeOK
<1>1. Good => TypeOK  BY TypeParts DEF Good
<1> QED BY <1>1, GoodInv, PTL

-----------------------------------------------------------------------------
(* What the grace after a hire buys. *)

\* The driver has still to record the hire, or never heard that it succeeded, or a
\* tick that waited for Kafka kept the hire from the core for too long.
Excused(w, p) ==
    hiring = [pip |-> p, workplace |-> w] \/ <<w, p>> \in unheard \union delayed

SawIt(w, p) == p \in DOMAIN snap /\ snap[p] = w

\* The driver recorded the hire and n units of its grace are left.
Recorded(w, p, n) == p \in DOMAIN hiredAt[w] /\ hiredAt[w][p] >= n

\* The driver recorded the hire no longer ago than the tick has waited, and its
\* grace still covers a whole cycle.
Young(w, p) ==
    /\ Recorded(w, p, CycleDeadline + 1)
    /\ stall > 0 => Recorded(w, p, HireGrace - (stall - 1))

\* A hire the core has not carried out waits for a tick that waits for Kafka, or no
\* time has passed since.
FreshAt(w, p) ==
    /\ Asked(w, p)
    /\ p \in employed[w] \/ (w \in unsynced /\ SawIt(w, p)) \/ p \in Running(hiredAt[w])
    => Excused(w, p) \/ employers[p] = w \/ Young(w, p)

\* A hire the snapshot does not show has enough of its grace left for what is left
\* of the cycle.
InTimeAt(w, p) ==
    /\ w \in unsynced /\ p \in employed[w]
    /\ employers[p] = w \/ Asked(w, p)
    => Excused(w, p) \/ SawIt(w, p) \/ Recorded(w, p, left + 1)

Graced == \A w \in Workplace, p \in alive : FreshAt(w, p) /\ InTimeAt(w, p)

trail == <<alive, employers, intents, stall, hiring, unheard, delayed, employed, hiredAt,
           unsynced, snap, left>>

LEMMA GracedFrame == ASSUME Graced, UNCHANGED trail PROVE Graced'
<1> SUFFICES ASSUME NEW w \in Workplace, NEW p \in alive' PROVE FreshAt(w, p)' /\ InTimeAt(w, p)'
  BY DEF Graced
<1>1. FreshAt(w, p) /\ InTimeAt(w, p)  BY DEF Graced, trail
<1>2. /\ Asked(w, p)' <=> Asked(w, p)
      /\ Excused(w, p)' <=> Excused(w, p)
      /\ SawIt(w, p)' <=> SawIt(w, p)
      /\ Young(w, p)' <=> Young(w, p)
      /\ Recorded(w, p, left + 1)' <=> Recorded(w, p, left + 1)
  BY DEF Asked, Excused, SawIt, Recorded, Young, trail
<1> QED BY <1>1, <1>2 DEF FreshAt, InTimeAt, Running, trail

LEMMA SubmitAsks ==
    ASSUME CoreOK, NEW i \in Intent, Submit(i)
    PROVE  \A w, p : Asked(w, p)' <=> Asked(w, p) \/ i = Hire(p, w)
<1>1. intents \in Seq(Intent) /\ intents' = Append(intents, i)  BY DEF CoreOK, Submit
<1>2. /\ DOMAIN intents = 1..Len(intents) /\ Len(intents) \in Nat
      /\ DOMAIN intents' = 1..Len(intents) + 1
      /\ \A n \in 1..Len(intents) : intents'[n] = intents[n]
      /\ intents'[Len(intents) + 1] = i
  BY <1>1
<1> SUFFICES ASSUME NEW w, NEW p
             PROVE  Asked(w, p)' <=> Asked(w, p) \/ i = Hire(p, w)
  OBVIOUS
<1>3. Asked(w, p)' <=> \E n \in DOMAIN intents' : intents'[n] = Hire(p, w)
  BY DEF Asked, Hire
<1>4. ASSUME NEW n \in DOMAIN intents', intents'[n] = Hire(p, w)
      PROVE  Asked(w, p) \/ i = Hire(p, w)
  <2>1. n \in DOMAIN intents \/ n = Len(intents) + 1  BY <1>2
  <2> QED BY <1>2, <1>4, <2>1 DEF Asked
<1>5. ASSUME NEW n \in DOMAIN intents, intents[n] = Hire(p, w)
      PROVE  \E m \in DOMAIN intents' : intents'[m] = Hire(p, w)
  <2>1. n \in DOMAIN intents' /\ intents'[n] = intents[n]  BY <1>2
  <2> QED BY <1>5, <2>1
<1>6. i = Hire(p, w) => \E m \in DOMAIN intents' : intents'[m] = Hire(p, w)
  <2>1. Len(intents) + 1 \in DOMAIN intents'  BY <1>2
  <2> QED BY <1>2, <2>1
<1> QED BY <1>3, <1>4, <1>5, <1>6 DEF Asked

LEMMA HireNames ==
    \A p, q, v, w : Hire(p, w) = Hire(q, v) => p = q /\ w = v
BY DEF Hire

LEMMA NotAsked == ASSUME intents = << >> PROVE \A w, p : ~Asked(w, p)
BY DEF Asked

\* Whoever a tick makes an employee was asked for, and a tick leaves nobody asked for.
LEMMA TickGraced ==
    ASSUME Good, Graced, NEW dying \in SUBSET alive, Tick(dying) PROVE Graced'
<1> SUFFICES ASSUME NEW w \in Workplace, NEW p \in alive' PROVE FreshAt(w, p)' /\ InTimeAt(w, p)'
  BY DEF Graced
<1>1. FreshAt(w, p) /\ InTimeAt(w, p) /\ p \in Pip /\ p \notin dying
  BY DEF Graced, Tick, Good, CoreOK
<1>2. ~Asked(w, p)'  BY DEF Asked, Tick
<1>3. employers'[p] = w => employers[p] = w \/ Asked(w, p)
  <2>1. employers'[p] = FoldLeft(Applied, employers, intents)[p]  BY <1>1 DEF Tick
  <2> QED BY <1>1, <2>1, TickHires DEF Good
<1>4. UNCHANGED <<hiring, unheard, delayed, employed, hiredAt, unsynced, snap, left>>
  BY DEF Tick, queues, drivers, cycle, history
<1>5. FreshAt(w, p)'  BY <1>2 DEF FreshAt
<1>6. InTimeAt(w, p)'
  BY <1>1, <1>2, <1>3, <1>4 DEF InTimeAt, Excused, SawIt, Recorded
<1> QED BY <1>5, <1>6

LEMMA DeliveredGraced == ASSUME Good, Graced, Delivered PROVE Graced'
<1> SUFFICES ASSUME NEW w \in Workplace, NEW p \in alive' PROVE FreshAt(w, p)' /\ InTimeAt(w, p)'
  BY DEF Graced
<1>1. /\ UNCHANGED <<alive, employers, intents, hiring, unheard, delayed, employed, hiredAt,
                     unsynced, snap, left>>
      /\ stall' = 0
  BY DEF Delivered, queues, drivers, cycle, history
<1>2. FreshAt(w, p) /\ InTimeAt(w, p)  BY <1>1 DEF Graced
<1>3. Young(w, p) => Young(w, p)'  BY <1>1 DEF Young, Recorded
<1> QED BY <1>1, <1>2, <1>3
        DEF FreshAt, InTimeAt, Asked, Excused, SawIt, Recorded

LEMMA WorldRestartsGraced == ASSUME Good, Graced, WorldRestarts PROVE Graced'
<1> SUFFICES ASSUME NEW w \in Workplace, NEW p \in alive' PROVE FreshAt(w, p)' /\ InTimeAt(w, p)'
  BY DEF Graced
<1>1. ~Asked(w, p)'  BY DEF Asked, WorldRestarts
<1>2. p \in Pip  BY DEF WorldRestarts
<1>3. employers'[p] # w  BY <1>2, WorkplaceAssumption DEF WorldRestarts
<1> QED BY <1>1, <1>3 DEF FreshAt, InTimeAt

\* A hire that is submitted is in the gateway's hands or went unheard.
LEMMA HireGraced ==
    ASSUME Good, Graced, NEW q \in Pip, NEW v \in Workplace, Submit(Hire(q, v)),
           hiring' = [pip |-> q, workplace |-> v] \/ <<v, q>> \in unheard',
           hiring = None \/ hiring' = hiring, unheard \subseteq unheard',
           UNCHANGED <<delayed, employed, hiredAt, unsynced, snap, left>>
    PROVE  Graced'
<1> SUFFICES ASSUME NEW w \in Workplace, NEW p \in alive' PROVE FreshAt(w, p)' /\ InTimeAt(w, p)'
  BY DEF Graced
<1>1. UNCHANGED <<alive, employers, stall>>  BY DEF Submit
<1>2. p \in Pip /\ FreshAt(w, p) /\ InTimeAt(w, p)
  BY <1>1 DEF Graced, Good, CoreOK
<1>3. Asked(w, p)' <=> Asked(w, p) \/ (p = q /\ w = v)
  <2>1. Asked(w, p)' <=> Asked(w, p) \/ Hire(q, v) = Hire(p, w)
    BY SubmitAsks, Intents DEF Good
  <2> QED BY <2>1, HireNames
<1>4. p = q /\ w = v => Excused(w, p)'  BY DEF Excused
<1>5. Excused(w, p) => Excused(w, p)'
  <2>1. [pip |-> p, workplace |-> w] # None
    BY <1>2, WorkplaceAssumption DEF OutcomeType
  <2> QED BY <2>1 DEF Excused
<1> QED BY <1>1, <1>2, <1>3, <1>4, <1>5 DEF FreshAt, InTimeAt, SawIt, Recorded, Young

LEMMA OnHiredGraced == ASSUME Good, Graced, OnHired PROVE Graced'
<1> DEFINE o == Head(outcomes)
<1>1. outcomes \in Seq(OutcomeType) /\ outcomes # << >> /\ hiring = None
  BY DEF Good, QueuesOK, OnHired
<1>2. o \in OutcomeType  BY <1>1
<1>3. \/ Submit(Hire(o.pip, o.workplace)) /\ hiring' = o /\ UNCHANGED <<unheard, faults>>
      \/ Fault /\ UNCHANGED <<core, hiring, unheard>>
      \/ /\ Fault
         /\ Submit(Hire(o.pip, o.workplace))
         /\ unheard' = unheard \union {<<o.workplace, o.pip>>}
         /\ UNCHANGED hiring
  BY DEF OnHired
<1>4. UNCHANGED <<delayed, employed, hiredAt, unsynced, snap, left>>
  BY DEF OnHired, drivers, cycle
<1> HIDE DEF o
<1>5. /\ o.pip \in Pip /\ o.workplace \in Workplace
      /\ o = [pip |-> o.pip, workplace |-> o.workplace]
  BY <1>2 DEF OutcomeType
<1>6. CASE Submit(Hire(o.pip, o.workplace)) /\ hiring' = o /\ UNCHANGED <<unheard, faults>>
  BY <1>1, <1>4, <1>5, <1>6, HireGraced
<1>7. CASE Fault /\ UNCHANGED <<core, hiring, unheard>>
  BY <1>4, <1>7, GracedFrame DEF trail, core
<1>8. CASE /\ Fault
           /\ Submit(Hire(o.pip, o.workplace))
           /\ unheard' = unheard \union {<<o.workplace, o.pip>>}
           /\ UNCHANGED hiring
  BY <1>4, <1>5, <1>8, HireGraced
<1> QED BY <1>3, <1>6, <1>7, <1>8

LEMMA AssignWorkGraced ==
    ASSUME Good, Graced, NEW p \in Pip, NEW w \in Workplace, AssignWork(p, w)
    PROVE  Graced'
BY HireGraced DEF AssignWork, queues, drivers, cycle

\* What the driver records has its whole grace left.
LEMMA RecordHireGraced == ASSUME Good, Graced, RecordHire PROVE Graced'
<1> DEFINE q == hiring.pip
           v == hiring.workplace
<1>1. hiring \in OutcomeType  BY DEF Good, QueuesOK, RecordHire
<1>2. q \in Pip /\ v \in Workplace /\ hiring = [pip |-> q, workplace |-> v]
  BY <1>1 DEF OutcomeType
<1> HIDE DEF q, v
<1>3. /\ employed' = [employed EXCEPT ![v] = employed[v] \union {q}]
      /\ hiredAt' = [hiredAt EXCEPT ![v] = Put(hiredAt[v], q, HireGrace)]
      /\ UNCHANGED <<alive, employers, intents, stall, unheard, delayed, unsynced, snap,
                     left>>
  BY DEF RecordHire, q, v, core, cycle, history
<1> SUFFICES ASSUME NEW w \in Workplace, NEW p \in alive' PROVE FreshAt(w, p)' /\ InTimeAt(w, p)'
  BY DEF Graced
<1>4. FreshAt(w, p) /\ InTimeAt(w, p)  BY <1>3 DEF Graced
<1>5. Asked(w, p)' <=> Asked(w, p)  BY <1>3 DEF Asked
<1>6. /\ employed \in [Workplace -> SUBSET Pip]
      /\ hiredAt \in [Workplace -> Timers(Pip, HireGrace)]
      /\ left \in 0..CycleDeadline /\ stall \in 0..MaxStall + 1
  BY DEF Good, DriversOK, CycleOK, CoreOK
<1>7. CASE w = v /\ p = q
  <2>1. hiredAt'[v] = Put(hiredAt[v], q, HireGrace)  BY <1>2, <1>3, <1>6
  <2>2. q \in DOMAIN hiredAt'[v] /\ hiredAt'[v][q] = HireGrace  BY <2>1 DEF Put
  <2>3. Young(w, p)'  BY <1>3, <1>6, <1>7, <2>2, Numbers DEF Recorded, Young
  <2>4. Recorded(w, p, left + 1)'  BY <1>3, <1>6, <1>7, <2>2, Numbers DEF Recorded
  <2> QED BY <2>3, <2>4 DEF FreshAt, InTimeAt
<1>8. CASE ~(w = v /\ p = q)
  <2>1. p \in employed'[w] <=> p \in employed[w]  BY <1>2, <1>3, <1>6, <1>8
  <2>2. /\ p \in DOMAIN hiredAt'[w] <=> p \in DOMAIN hiredAt[w]
        /\ p \in DOMAIN hiredAt[w] => hiredAt'[w][p] = hiredAt[w][p]
    BY <1>2, <1>3, <1>6, <1>8 DEF Put
  <2>3. Excused(w, p) => <<w, p>> \in unheard \union delayed  BY <1>2, <1>8 DEF Excused
  <2>4. Excused(w, p) => Excused(w, p)'  BY <1>3, <2>3 DEF Excused
  <2>5. p \in Running(hiredAt[w])' <=> p \in Running(hiredAt[w])
    BY <2>2 DEF Running
  <2>6. SawIt(w, p)' <=> SawIt(w, p)  BY <1>3 DEF SawIt
  <2>7. Young(w, p) => Young(w, p)'  BY <1>3, <2>2 DEF Recorded, Young
  <2>8. Recorded(w, p, left + 1) => Recorded(w, p, left + 1)'
    BY <1>3, <2>2 DEF Recorded
  <2>9. FreshAt(w, p)'
    BY <1>3, <1>4, <1>5, <2>1, <2>4, <2>5, <2>6, <2>7 DEF FreshAt
  <2>10. InTimeAt(w, p)'
    BY <1>3, <1>4, <1>5, <2>1, <2>4, <2>6, <2>8 DEF InTimeAt
  <2> QED BY <2>9, <2>10
<1> QED BY <1>7, <1>8

LEMMA SnapshotGraced == ASSUME Good, Graced, Snapshot PROVE Graced'
<1> SUFFICES ASSUME NEW w \in Workplace, NEW p \in alive' PROVE FreshAt(w, p)' /\ InTimeAt(w, p)'
  BY DEF Graced
<1>1. /\ UNCHANGED <<alive, employers, intents, stall, hiring, employed, hiredAt>>
      /\ snap' = [q \in alive |-> employers[q]]
      /\ left' = CycleDeadline
      /\ unheard' = {h \in unheard : employers[h[2]] # h[1]}
      /\ delayed' = {h \in delayed : Asked(h[1], h[2])}
  BY DEF Snapshot, core, queues, drivers
<1>2. FreshAt(w, p) /\ p \in alive  BY <1>1 DEF Graced
<1>3. Asked(w, p)' <=> Asked(w, p)  BY <1>1 DEF Asked
<1>4. SawIt(w, p)' <=> employers[p] = w  BY <1>1, <1>2 DEF SawIt
<1>5. Excused(w, p) /\ employers[p] # w /\ Asked(w, p) => Excused(w, p)'
  <2>1. <<w, p>> \in unheard /\ employers[p] # w => <<w, p>> \in unheard'  BY <1>1
  <2>2. <<w, p>> \in delayed /\ Asked(w, p) => <<w, p>> \in delayed'  BY <1>1
  <2> QED BY <1>1, <2>1, <2>2 DEF Excused
<1>6. FreshAt(w, p)'
  BY <1>1, <1>2, <1>3, <1>4, <1>5 DEF FreshAt, Recorded, Young
<1>7. InTimeAt(w, p)'
  <2>1. Young(w, p) => Recorded(w, p, left + 1)'  BY <1>1 DEF Recorded, Young
  <2> QED BY <1>1, <1>2, <1>3, <1>4, <1>5, <2>1 DEF InTimeAt, FreshAt
<1> QED BY <1>6, <1>7

LEMMA SyncGraced == ASSUME Good, Graced, NEW v \in Workplace, Sync(v) PROVE Graced'
<1> SUFFICES ASSUME NEW w \in Workplace, NEW p \in alive' PROVE FreshAt(w, p)' /\ InTimeAt(w, p)'
  BY DEF Graced
<1>1. /\ UNCHANGED <<alive, employers, intents, stall, hiring, unheard, delayed, snap, left>>
      /\ v \in unsynced /\ unsynced' = unsynced \ {v}
      /\ hiredAt' = [hiredAt EXCEPT ![v] = [q \in Running(hiredAt[v]) |-> hiredAt[v][q]]]
      /\ employed' = [employed EXCEPT ![v] = Believed(v)]
  BY DEF Sync, core, queues, history
<1>2. FreshAt(w, p) /\ InTimeAt(w, p) /\ p \in Pip
  BY <1>1 DEF Graced, Good, CoreOK
<1>3. /\ employed \in [Workplace -> SUBSET Pip]
      /\ hiredAt \in [Workplace -> Timers(Pip, HireGrace)]
  BY DEF Good, DriversOK
<1>4. /\ Asked(w, p)' <=> Asked(w, p)
      /\ Excused(w, p)' <=> Excused(w, p)
      /\ SawIt(w, p)' <=> SawIt(w, p)
  BY <1>1 DEF Asked, Excused, SawIt
<1>5. CASE w # v
  <2>1. employed'[w] = employed[w] /\ hiredAt'[w] = hiredAt[w]  BY <1>1, <1>3, <1>5
  <2>2. w \in unsynced' <=> w \in unsynced  BY <1>1, <1>5
  <2>3. Running(hiredAt[w])' = Running(hiredAt[w])  BY <2>1 DEF Running
  <2>4. Young(w, p)' <=> Young(w, p)  BY <1>1, <2>1 DEF Recorded, Young
  <2>5. Recorded(w, p, left + 1)' <=> Recorded(w, p, left + 1)
    BY <1>1, <2>1 DEF Recorded
  <2> QED BY <1>1, <1>2, <1>4, <2>1, <2>2, <2>3, <2>4, <2>5 DEF FreshAt, InTimeAt
<1>6. CASE w = v
  <2>1. w \notin unsynced'  BY <1>1, <1>6
  <2>2. /\ employed'[w] = Believed(w)
        /\ hiredAt'[w] = [q \in Running(hiredAt[w]) |-> hiredAt[w][q]]
    BY <1>1, <1>3, <1>6
  <2>3. p \in Running(hiredAt[w])' => p \in Running(hiredAt[w])  BY <2>2 DEF Running
  <2>4. p \in employed'[w] => SawIt(w, p) \/ p \in Running(hiredAt[w])
    BY <2>2 DEF Believed, SawIt
  <2>5. hiredAt[w] \in Timers(Pip, HireGrace)  BY <1>3
  <2>6. hiredAt[w] \in [DOMAIN hiredAt[w] -> 0..HireGrace]  BY <2>5, TimersAre
  <2>7. Young(w, p) => Young(w, p)'
    <3>1. ASSUME Young(w, p)
          PROVE  p \in DOMAIN hiredAt'[w] /\ hiredAt'[w][p] = hiredAt[w][p]
      BY <2>2, <2>6, <3>1, Numbers DEF Recorded, Young, Running
    <3> QED BY <1>1, <3>1 DEF Recorded, Young
  <2>8. FreshAt(w, p)'
    BY <1>1, <1>2, <1>4, <1>6, <2>1, <2>3, <2>4, <2>7 DEF FreshAt
  <2> QED BY <2>1, <2>8 DEF InTimeAt
<1> QED BY <1>5, <1>6

LEMMA TellWorldGraced == ASSUME Good, Graced, TellWorld PROVE Graced'
<1> DEFINE v == told[1]
           q == told[2]
<1>1. told \in Workplace \X Pip  BY DEF Good, CycleOK, TellWorld
<1>2. v \in Workplace /\ q \in Pip  BY <1>1
<1> HIDE DEF v, q
<1>3. /\ Submit(EndEmployment(q)) \/ UNCHANGED core
      /\ employed' = [employed EXCEPT ![v] = employed[v] \ {q}]
      /\ UNCHANGED <<hiring, unheard, delayed, hiredAt, unsynced, snap, left>>
  BY DEF TellWorld, v, q, queues, history
<1> SUFFICES ASSUME NEW w \in Workplace, NEW p \in alive' PROVE FreshAt(w, p)' /\ InTimeAt(w, p)'
  BY DEF Graced
<1>4. UNCHANGED <<alive, employers, stall>>  BY <1>3 DEF Submit, core
<1>5. FreshAt(w, p) /\ InTimeAt(w, p)  BY <1>4 DEF Graced
<1>6. Asked(w, p)' <=> Asked(w, p)
  <2>1. CASE Submit(EndEmployment(q))
    <3>1. EndEmployment(q) # Hire(p, w)
      BY WorkplaceAssumption DEF EndEmployment, Hire
    <3>2. EndEmployment(q) \in Intent  BY <1>2, Intents
    <3> QED BY <2>1, <3>1, <3>2, SubmitAsks DEF Good
  <2>2. CASE UNCHANGED core  BY <2>2 DEF core, Asked
  <2> QED BY <1>3, <2>1, <2>2
<1>7. p \in employed'[w] => p \in employed[w]  BY <1>2, <1>3 DEF Good, DriversOK
<1> QED BY <1>3, <1>4, <1>5, <1>6, <1>7 DEF FreshAt, InTimeAt, Excused, SawIt, Recorded, Young

\* Once the drivers are synchronised the snapshot matters no more.
LEMMA ServeGraced ==
    ASSUME Good, Graced, NEW q \in Pip, Serve(q) PROVE Graced'
<1>1. /\ UNCHANGED <<alive, employers, intents, stall, hiring, unheard, delayed, employed,
                     hiredAt, unsynced, left>>
      /\ unsynced = {}
  BY DEF Serve, Serving, core, history
<1> SUFFICES ASSUME NEW w \in Workplace, NEW p \in alive' PROVE FreshAt(w, p)' /\ InTimeAt(w, p)'
  BY DEF Graced
<1>2. FreshAt(w, p)  BY <1>1 DEF Graced
<1>3. /\ Asked(w, p)' <=> Asked(w, p)
      /\ Excused(w, p)' <=> Excused(w, p)
      /\ Young(w, p)' <=> Young(w, p)
  BY <1>1 DEF Asked, Excused, Recorded, Young
<1> QED BY <1>1, <1>2, <1>3 DEF FreshAt, InTimeAt, Running

LEMMA GatewayRestartsGraced == ASSUME Good, Graced, GatewayRestarts PROVE Graced'
<1> SUFFICES ASSUME NEW w \in Workplace, NEW p \in alive' PROVE FreshAt(w, p)' /\ InTimeAt(w, p)'
  BY DEF Graced
<1>1. p \notin employed'[w] /\ w \notin unsynced'  BY DEF GatewayRestarts
<1>2. hiredAt'[w] = << >>  BY DEF GatewayRestarts
<1>3. p \notin Running(hiredAt[w])'  BY <1>2 DEF Running
<1> QED BY <1>1, <1>3 DEF FreshAt, InTimeAt

\* Grace and deadline run out together, and what a wait for Kafka takes of the grace
\* still leaves a deadline of it.
LEMMA TimePassesGraced == ASSUME Good, Graced, TimePasses PROVE Graced'
<1> SUFFICES ASSUME NEW w \in Workplace, NEW p \in alive' PROVE FreshAt(w, p)' /\ InTimeAt(w, p)'
  BY DEF Graced
<1>1. UNCHANGED <<alive, employers, intents, hiring, unheard, employed, unsynced, snap>>
  BY DEF TimePasses
<1>2. FreshAt(w, p) /\ InTimeAt(w, p) /\ p \in Pip  BY <1>1 DEF Graced, Good, CoreOK
<1>3. Asked(w, p)' <=> Asked(w, p)  BY <1>1 DEF Asked
<1>4. /\ hiredAt[w] \in Timers(Pip, HireGrace) /\ left \in 0..CycleDeadline
      /\ stall \in 0..MaxStall + 1
  BY DEF Good, DriversOK, CycleOK, CoreOK
<1>5. hiredAt[w] \in [DOMAIN hiredAt[w] -> 0..HireGrace]  BY <1>4, TimersAre
<1>6. hiredAt'[w] = [x \in DOMAIN hiredAt[w] |->
                       IF hiredAt[w][x] = 0 THEN 0 ELSE hiredAt[w][x] - 1]
  BY DEF TimePasses, Aged
<1>7. \A m \in Nat : Recorded(w, p, m + 1) => Recorded(w, p, m)'
  BY <1>5, <1>6, Numbers DEF Recorded
<1>8. delayed \subseteq delayed'  BY DEF TimePasses
<1>9. Excused(w, p) => Excused(w, p)'  BY <1>1, <1>8 DEF Excused
<1>10. FreshAt(w, p)'
  <2> SUFFICES ASSUME Asked(w, p)', ~Excused(w, p)', employers'[p] # w,
                      \/ p \in employed'[w]
                      \/ (w \in unsynced /\ SawIt(w, p))'
                      \/ p \in Running(hiredAt[w])'
               PROVE  Young(w, p)'
    BY DEF FreshAt
  <2>1. p \in Running(hiredAt[w])' => p \in Running(hiredAt[w])
    BY <1>5, <1>6, Numbers DEF Running
  <2>2. Asked(w, p) /\ Young(w, p)
    BY <1>1, <1>2, <1>3, <1>9, <2>1 DEF FreshAt, SawIt
  <2>3. intents # << >>  BY <2>2, NotAsked
  <2>4. stall > 0 /\ stall' = stall + 1  BY <2>3 DEF TimePasses
  <2>5. stall < Patience
    <3>1. SUFFICES ASSUME ~(stall < Patience) PROVE FALSE  OBVIOUS
    <3>2. delayed' = delayed \union {h \in Workplace \X Pip : Asked(h[1], h[2])}
      BY <3>1 DEF TimePasses
    <3>3. <<w, p>> \in delayed'  BY <1>2, <2>2, <3>2
    <3> QED BY <3>3 DEF Excused
  <2>6. PICK n \in Nat : /\ n >= CycleDeadline + 1
                         /\ HireGrace - (stall - 1) = n + 1
                         /\ HireGrace - (stall' - 1) = n
    BY <1>4, <2>4, <2>5, Numbers DEF Patience
  <2>7. Recorded(w, p, n + 1)  BY <2>2, <2>4, <2>6 DEF Young
  <2>8. Recorded(w, p, n)'  BY <1>7, <2>6, <2>7
  <2>9. Recorded(w, p, CycleDeadline + 1)'
    <3>1. \A x \in DOMAIN hiredAt[w] : hiredAt[w][x] \in Nat  BY <1>5, Numbers
    <3>2. \A x \in DOMAIN hiredAt[w] : hiredAt'[w][x] \in Int  BY <1>6, <3>1
    <3>3. p \in DOMAIN hiredAt'[w] /\ hiredAt'[w][p] >= n  BY <2>8 DEF Recorded
    <3>4. hiredAt'[w][p] \in Int  BY <1>6, <3>2, <3>3
    <3>5. hiredAt'[w][p] >= CycleDeadline + 1  BY <2>6, <3>3, <3>4, Numbers
    <3> QED BY <3>3, <3>5 DEF Recorded
  <2> QED BY <2>6, <2>8, <2>9 DEF Young, Recorded
<1>11. InTimeAt(w, p)'
  <2>1. CASE w \notin unsynced  BY <1>1, <2>1 DEF InTimeAt
  <2>2. CASE w \in unsynced
    <3>1. left > 0 /\ left' = left - 1
      BY <2>2 DEF TimePasses, CycleOver, Serving
    <3>2. left \in Nat /\ left' + 1 = left  BY <1>4, <3>1
    <3>3. Recorded(w, p, left + 1) => Recorded(w, p, left + 1)'
      <4>1. Recorded(w, p, left + 1) => p \in DOMAIN hiredAt'[w] /\ hiredAt'[w][p] >= left
        BY <1>5, <1>6, <1>4, Numbers DEF Recorded
      <4> QED BY <3>2, <4>1 DEF Recorded
    <3> QED BY <1>1, <1>2, <1>3, <1>9, <3>3 DEF InTimeAt, SawIt
  <2> QED BY <2>1, <2>2
<1> QED BY <1>10, <1>11

LEMMA GracedStep == ASSUME Good, Graced, [Next]_vars PROVE Graced'
<1> USE DEF trail
<1>1. ASSUME NEW dying \in SUBSET alive, CoreTick(dying) \/ SlowTick(dying) PROVE Graced'
  BY <1>1, TickGraced DEF CoreTick, SlowTick
<1>2. CASE Delivered  BY <1>2, DeliveredGraced
<1>3. CASE WorldRestarts  BY <1>3, WorldRestartsGraced
<1>4. ASSUME NEW k \in Kinds, TakeOffer(k) PROVE Graced'
  BY <1>4, GracedFrame DEF TakeOffer, core, drivers, cycle, history
<1>5. ASSUME NEW k \in Kinds, Consider(k) PROVE Graced'
  BY <1>5, GracedFrame DEF Consider, core, drivers, cycle, history
<1>6. ASSUME NEW k \in Kinds, ConsiderUnanswered(k) PROVE Graced'
  BY <1>6, GracedFrame DEF ConsiderUnanswered, core, drivers, cycle, history
<1>7. ASSUME NEW k \in Kinds, ConsiderBlind(k) PROVE Graced'
  BY <1>7, GracedFrame DEF ConsiderBlind, core, drivers, cycle, history
<1>8. ASSUME NEW w \in Workplace, WorkplaceForgets(w) PROVE Graced'
  BY <1>8, GracedFrame DEF WorkplaceForgets, core, queues, drivers, cycle, history
<1>9. CASE BrokerRestarts
  BY <1>9, GracedFrame DEF BrokerRestarts, core, cycle, history
<1>10. CASE OnHired  BY <1>10, OnHiredGraced
<1>11. CASE RecordHire  BY <1>11, RecordHireGraced
<1>12. ASSUME NEW p \in Pip, NEW w \in Workplace, AssignWork(p, w) PROVE Graced'
  BY <1>12, AssignWorkGraced
<1>13. CASE Snapshot  BY <1>13, SnapshotGraced
<1>14. ASSUME NEW w \in Workplace, Sync(w) PROVE Graced'  BY <1>14, SyncGraced
<1>15. CASE TellWorld  BY <1>15, TellWorldGraced
<1>16. ASSUME NEW w \in Workplace, NEW p \in Pip, TellWorkplace(w, p) PROVE Graced'
  BY <1>16, GracedFrame DEF TellWorkplace, core, queues, drivers, history
<1>17. ASSUME NEW p \in Pip, NEW w \in Workplace, Work(p, w) PROVE Graced'
  BY <1>17, ServeGraced DEF Work
<1>18. ASSUME NEW p \in Pip, Offer(p) PROVE Graced'  BY <1>18, ServeGraced DEF Offer
<1>19. CASE GatewayRestarts  BY <1>19, GatewayRestartsGraced
<1>20. CASE TimePasses  BY <1>20, TimePassesGraced
<1>21. CASE UNCHANGED vars
  BY <1>21, GracedFrame DEF vars, core, queues, drivers, cycle, history
<1> QED
  BY <1>1, <1>2, <1>3, <1>4, <1>5, <1>6, <1>7, <1>8, <1>9, <1>10, <1>11, <1>12,
     <1>13, <1>14, <1>15, <1>16, <1>17, <1>18, <1>19, <1>20, <1>21
  DEF Next, Cycle, EndShift

LEMMA GracedInit == Init => Graced
BY DEF Init, Graced, FreshAt, InTimeAt, Asked, Running

\* The inductive invariant of the cycle.
THEOREM CycleInv == Spec => [](Good /\ Graced)
<1>1. Init => Good /\ Graced  BY GoodInit, GracedInit
<1>2. Good /\ Graced /\ [Next]_vars => (Good /\ Graced)'  BY GoodStep, GracedStep
<1> QED BY <1>1, <1>2, PTL DEF Spec

\* A pip the cycle is about to end the shift of was not hired there: either the
\* driver's memory of its hire would still be running, or the snapshot is younger
\* than the hire and shows it.
LEMMA SyncEndsNoHire ==
    ASSUME Good, Graced, NEW w \in Workplace, NEW p \in alive, Sync(w), <<w, p>> \in ending'
    PROVE  \/ hiring = [pip |-> p, workplace |-> w]
           \/ <<w, p>> \in unheard \union delayed
           \/ employers[p] # w /\ ~Asked(w, p)
<1>1. w \in unsynced /\ p \in employed[w] /\ p \notin Believed(w)
  BY DEF Sync
<1>2. ~SawIt(w, p) /\ p \notin Running(hiredAt[w])  BY <1>1 DEF Believed, SawIt
<1>3. InTimeAt(w, p)  BY DEF Graced
<1>4. ~Recorded(w, p, left + 1)
  <2>1. left \in 0..CycleDeadline /\ hiredAt[w] \in Timers(Pip, HireGrace)
    BY DEF Good, CycleOK, DriversOK
  <2>2. hiredAt[w] \in [DOMAIN hiredAt[w] -> 0..HireGrace]  BY <2>1, TimersAre
  <2> QED BY <1>2, <2>1, <2>2, Numbers DEF Recorded, Running
<1> QED BY <1>1, <1>2, <1>3, <1>4 DEF InTimeAt, Excused

\* How far hireGrace reaches, for every grace, deadline and wait for Kafka: a stale
\* snapshot makes syncEmployment end the shift of a pip the core employs there, or is
\* about to, only if the driver does not know of the hire, or the hire was in the
\* core's queue when a tick had waited for Kafka for as long as the grace is longer
\* than the deadline.
THEOREM GraceCoversTheCycle == Spec => StaleSnapshotsEndNoHire
<1> DEFINE Kept == \A w \in Workplace, p \in alive :
                     Sync(w) /\ <<w, p>> \in ending' =>
                       \/ hiring = [pip |-> p, workplace |-> w]
                       \/ <<w, p>> \in unheard \union delayed
                       \/ employers[p] # w /\ ~Asked(w, p)
<1>1. Good /\ Graced => Kept  BY SyncEndsNoHire
<1>2. [](Good /\ Graced) => [][Kept]_vars
  <2> HIDE DEF Kept
  <2> QED BY <1>1, PTL
<1> QED BY <1>2, CycleInv DEF StaleSnapshotsEndNoHire
=============================================================================
