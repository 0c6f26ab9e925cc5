----------------------------- MODULE WorldProofs -----------------------------
(***************************************************************************)
(* The simulation core's guarantees for every number of pips, buildings,   *)
(* prices and needs, and those of the map it keeps of them (Registration,  *)
(* the second half) for every set of buildings, addresses and structures   *)
(* and any number of restarts, outages and failed calls.                   *)
(***************************************************************************)
EXTENDS World, Registration, SumTheorems, SequenceTheorems

\* Whoever does not live has no job, no errand and no place.
DeadAreBlank ==
    \A p \in Pip \ pips : employers[p] = None /\ inside[p] = None /\ errands[p] = None

\* Food is negative only while its pip waits for burial.
StarvedAreBuried ==
    \A p \in pips : food[p] >= 0 \/ (phase = "bury" /\ p \in todo)

\* A pip inside works there, unless it has an errand: then it came for that,
\* in this tick, and is still to be served.
InsideInv ==
    \A p \in Pip : inside[p] # None =>
        IF errands[p] = None THEN inside[p] = employers[p]
        ELSE /\ inside[p] = errands[p]
             /\ \/ phase = "enter" /\ p \notin todo
                \/ phase = "shop" /\ p \in todo

PlaceInv == DeadAreBlank /\ InsideInv

IInv ==
    /\ TypeOK /\ StarvedAreBuried
    /\ PlaceInv
    /\ OccupantsCounted
    /\ SupplyClosed /\ PursesNeverNegative

-----------------------------------------------------------------------------
(* Helpers. *)

LEMMA AccountsFinite == IsFiniteSet(Pip) /\ IsFiniteSet(Account)
<1>1. IsFiniteSet(Pip)  BY WorldAssumption, FS_Interval DEF Pip
<1>2. IsFiniteSet(Pip \union Workplace)  BY <1>1, WorldAssumption, FS_Union
<1>3. IsFiniteSet({Treasury})  BY FS_Singleton
<1>4. IsFiniteSet((Pip \union Workplace) \union {Treasury})  BY <1>2, <1>3, FS_Union
<1> QED BY <1>1, <1>4 DEF Account

\* The pip whose turn it is is one that has not had it.
LEMMA MinIn ==
    ASSUME NEW S \in SUBSET Pip, S # {}
    PROVE  Min(S) \in S
<1> DEFINE G == {T \in SUBSET S : T # {} => \E m \in T : \A y \in T : m =< y}
<1>1. ASSUME NEW T \in SUBSET S, \A U \in SUBSET T : U # T => U \in G
      PROVE  T \in G
  <2> SUFFICES ASSUME T # {} PROVE \E m \in T : \A y \in T : m =< y  OBVIOUS
  <2>1. PICK x \in T : TRUE  OBVIOUS
  <2>2. CASE T \ {x} = {}  BY <2>1, <2>2 DEF Pip
  <2>3. CASE T \ {x} # {}
    <3>1. T \ {x} \in G  BY <1>1, <2>1
    <3>2. PICK m \in T \ {x} : \A y \in T \ {x} : m =< y  BY <2>3, <3>1
    <3>3. \A y \in T : y \in Int  BY DEF Pip
    <3>4. CASE m =< x  BY <3>2, <3>4
    <3>5. CASE ~(m =< x)
      <4>1. \A y \in T : x =< y  BY <2>1, <3>2, <3>3, <3>5
      <4> QED BY <2>1, <4>1
    <3> QED BY <3>4, <3>5
  <2> QED BY <2>2, <2>3
<1>2. IsFiniteSet(S)  BY AccountsFinite, FS_Subset
<1>3. S \in G
  <2> HIDE DEF G
  <2> QED BY <1>1, <1>2, SubsetInduction
<1> QED BY <1>3 DEF Min

LEMMA MinOfTwo ==
    ASSUME NEW a \in Int, NEW b \in Int
    PROVE  Min({a, b}) = IF a =< b THEN a ELSE b
<1> DEFINE m == IF a =< b THEN a ELSE b
<1>1. m \in {a, b} /\ \A y \in {a, b} : m =< y  OBVIOUS
<1>2. \A x \in {a, b} : (\A y \in {a, b} : x =< y) => x = m  OBVIOUS
<1> HIDE DEF m
<1> QED BY <1>1, <1>2 DEF Min, m

LEMMA MaxOfTwo ==
    ASSUME NEW a \in Int, NEW b \in Int
    PROVE  Max({a, b}) = IF a >= b THEN a ELSE b
<1> DEFINE m == IF a >= b THEN a ELSE b
<1>1. m \in {a, b} /\ \A y \in {a, b} : m >= y  OBVIOUS
<1>2. \A x \in {a, b} : (\A y \in {a, b} : x >= y) => x = m  OBVIOUS
<1> HIDE DEF m
<1> QED BY <1>1, <1>2 DEF Max, m

\* A need stays in range whatever is added to it.
LEMMA ClampInRange == ASSUME NEW n \in Int PROVE Clamp(n) \in 0..NeedMax
<1>1. NeedMax \in Nat  BY WorldAssumption
<1>2. Min({n, NeedMax}) = IF n =< NeedMax THEN n ELSE NeedMax  BY <1>1, MinOfTwo
<1>3. Min({n, NeedMax}) \in Int /\ Min({n, NeedMax}) =< NeedMax  BY <1>1, <1>2
<1>4. Max({0, Min({n, NeedMax})}) =
        IF 0 >= Min({n, NeedMax}) THEN 0 ELSE Min({n, NeedMax})
  BY <1>3, MaxOfTwo
<1> QED BY <1>1, <1>3, <1>4 DEF Clamp

\* A step towards a place is a place.
LEMMA StepInPlace ==
    ASSUME NEW x \in Place, NEW y \in Place
    PROVE  StepTowards(x, y) \in Place
<1>1. x \in Int /\ y \in Int /\ Width \in Nat /\ Speed \in Nat
  BY WorldAssumption DEF Place
<1>2. Min({x + Speed, y}) = IF x + Speed =< y THEN x + Speed ELSE y  BY <1>1, MinOfTwo
<1>3. Max({x - Speed, y}) = IF x - Speed >= y THEN x - Speed ELSE y  BY <1>1, MaxOfTwo
<1> QED BY <1>1, <1>2, <1>3 DEF StepTowards, Place

-----------------------------------------------------------------------------
(* Types. *)

LEMMA LeaveType ==
    ASSUME TypeOK, NEW p \in Pip
    PROVE  /\ Outside({p}) \in [Pip -> Maybe(Workplace)]
           /\ Vacated(p) \in [Workplace -> Nat]
<1>1. Outside({p}) \in [Pip -> Maybe(Workplace)]  BY DEF TypeOK, Outside, Maybe
<1>2. Vacated(p) \in [Workplace -> Nat]  BY DEF TypeOK, Vacated
<1> QED BY <1>1, <1>2

LEMMA MovedType ==
    ASSUME TypeOK, NEW a, NEW b, NEW n \in Int
    PROVE  Moved(a, b, n) \in [Account -> Int]
BY DEF TypeOK, Moved

LEMMA FedType ==
    ASSUME TypeOK, NEW p \in Pip
    PROVE  Fed(p) \in [Pip -> (-2)..NeedMax] /\ Fed(p)[p] >= 0
<1>1. food[p] + Meal \in Int /\ NeedMax \in Nat  BY WorldAssumption DEF TypeOK
<1>2. Clamp(food[p] + Meal) \in 0..NeedMax  BY <1>1, ClampInRange
<1>3. Clamp(food[p] + Meal) \in (-2)..NeedMax /\ Clamp(food[p] + Meal) >= 0
  BY <1>1, <1>2
<1> HIDE DEF Clamp
<1> QED BY <1>1, <1>3 DEF TypeOK, Fed

LEMMA PricesAreInts ==
    ASSUME TypeOK, NEW w \in Workplace, sells[w] # None
    PROVE  sells[w] \in Int
<1>1. sells[w] \in Price  BY DEF TypeOK, Offer
<1>2. Price \subseteq Nat  BY WorldAssumption
<1>3. sells[w] \in Nat  BY <1>1, <1>2
<1> QED BY <1>3

\* What an intent does to the types.
LEMMA IntentTypes ==
    ASSUME TypeOK, Intents
    PROVE  TypeOK'
<1> USE DEF step, walk, room, job, population, buildings
<1>1. ASSUME NEW at \in Place, NEW start \in Newborn, Spawn(at, start)
      PROVE  TypeOK'
  <2>1. next_pip_id \in Pip /\ next_pip_id' \in 1..(MaxPips + 1)
    BY <1>1, WorldAssumption DEF TypeOK, Spawn, Pip
  <2>2. start \in (-2)..NeedMax  BY WorldAssumption
  <2>3. pips' \in SUBSET Pip /\ \A q \in pips' : q < next_pip_id'
    BY <1>1, <2>1 DEF TypeOK, Spawn, Pip
  <2>4. positions' \in [Pip -> Place] /\ food' \in [Pip -> (-2)..NeedMax]
    BY <1>1, <2>1, <2>2 DEF TypeOK, Spawn
  <2> QED BY <1>1, <2>1, <2>3, <2>4 DEF TypeOK, Spawn
<1>2. ASSUME NEW p \in Pip, NEW to \in Place, Move(p, to)
      PROVE  TypeOK'
  BY <1>2 DEF TypeOK, Move, Maybe, Activities
<1>3. ASSUME NEW p \in Pip, NEW w \in Workplace, Hire(p, w)
      PROVE  TypeOK'
  <2>1. employers' \in [Pip -> Maybe(Workplace)]  BY <1>3 DEF TypeOK, Hire, Maybe
  <2>2. inside' \in [Pip -> Maybe(Workplace)] /\ occupants' \in [Workplace -> Nat]
    BY <1>3, LeaveType DEF TypeOK, Hire, LeaveBuilding
  <2> QED BY <1>3, <2>1, <2>2 DEF TypeOK, Hire
<1>4. ASSUME NEW p \in Pip, EndEmployment(p)
      PROVE  TypeOK'
  <2>1. inside' \in [Pip -> Maybe(Workplace)] /\ occupants' \in [Workplace -> Nat]
    BY <1>4, LeaveType DEF EndEmployment, LeaveBuilding
  <2> QED BY <1>4, <2>1 DEF TypeOK, EndEmployment, Maybe, Activities
<1>5. ASSUME NEW p \in Pip, NEW delta \in NeedDelta, ApplyNeeds(p, delta)
      PROVE  TypeOK'
  <2>1. food[p] + delta \in Int /\ NeedMax \in Nat  BY WorldAssumption DEF TypeOK
  <2>2. Clamp(food[p] + delta) \in 0..NeedMax  BY <2>1, ClampInRange
  <2>3. Clamp(food[p] + delta) \in (-2)..NeedMax  BY <2>1, <2>2
  <2>4. food' \in [Pip -> (-2)..NeedMax]  BY <1>5, <2>3 DEF TypeOK, ApplyNeeds
  <2> QED BY <1>5, <2>4 DEF TypeOK, ApplyNeeds
<1>6. ASSUME NEW p \in Pip, NEW w \in Workplace, NEW amount \in Amount, Buy(p, w, amount)
      PROVE  TypeOK'
  <2>1. amount \in Int  BY WorldAssumption
  <2> QED BY <1>6, <2>1, MovedType, FedType DEF TypeOK, Buy
<1>7. ASSUME NEW w \in Workplace, NEW at \in Place, NEW capacity \in Capacity,
             NEW offer \in Offer, RegisterWorkplace(w, at, capacity, offer)
      PROVE  TypeOK'
  <2>1. capacity \in Nat  BY WorldAssumption
  <2> QED BY <1>7, <2>1 DEF TypeOK, RegisterWorkplace
<1>8. ASSUME NEW payer \in Account, NEW payee \in Account, NEW amount \in Amount,
             NEW kind \in {"Issuance", "Wage"}, Transfer(payer, payee, amount, kind)
      PROVE  TypeOK'
  <2>1. amount \in Int  BY WorldAssumption
  <2> QED BY <1>8, <2>1, MovedType DEF TypeOK, Transfer
<1>9. ASSUME NEW w \in Workplace, NEW S \in SUBSET Pip, NEW amount \in Amount,
             CreditBalances(w, [p \in S |-> amount])
      PROVE  TypeOK'
  <2> DEFINE credits == [p \in S |-> amount]
             payable == S \intersect pips
             total == SumOver(credits, payable)
  <2>1. amount \in Int  BY WorldAssumption
  <2>2. total \in Int
    <3>1. IsFiniteSet(payable)  BY AccountsFinite, FS_Subset
    <3>2. \A p \in payable : credits[p] \in Int  BY <2>1
    <3> HIDE DEF payable, credits
    <3> QED BY <3>1, <3>2, SumInt
  <2>3. balances' = [a \in Account |->
                       CASE a = w -> balances[a] - total
                         [] a \in payable -> balances[a] + credits[a]
                         [] OTHER -> balances[a]]
    BY <1>9 DEF CreditBalances
  <2>4. \A a \in payable : credits[a] = amount  OBVIOUS
  <2> HIDE DEF total, credits
  <2>5. balances' \in [Account -> Int]
    <3>1. \A a \in Account : balances'[a] \in Int
      BY <2>1, <2>2, <2>3, <2>4 DEF TypeOK
    <3> QED BY <2>3, <3>1
  <2> QED BY <1>9, <2>5 DEF TypeOK, CreditBalances
<1> QED BY <1>1, <1>2, <1>3, <1>4, <1>5, <1>6, <1>7, <1>8, <1>9 DEF Intents

\* ... and a pass.
LEMMA PassTypes ==
    ASSUME TypeOK, StarvedAreBuried, Passes
    PROVE  TypeOK'
<1> USE DEF step, walk, room, job, population, buildings
<1> NeedMax \in Nat  BY WorldAssumption
<1>1. ASSUME NextPass PROVE TypeOK'
  BY <1>1 DEF TypeOK, NextPass, After, Phases
<1>2. ASSUME DecayNeeds PROVE TypeOK'
  <2>1. \A p \in pips : food[p] \in 0..NeedMax
    BY <1>2 DEF TypeOK, StarvedAreBuried, DecayNeeds
  <2>2. food' \in [Pip -> (-2)..NeedMax]  BY <1>2, <2>1 DEF TypeOK, DecayNeeds
  <2>3. phase' \in Phases /\ todo' \in SUBSET pips'
    BY <1>2 DEF TypeOK, DecayNeeds, Phases, After
  <2> QED BY <1>2, <2>2, <2>3 DEF TypeOK, DecayNeeds
<1>3. ASSUME NEW p \in Pip, Bury(p) PROVE TypeOK'
  <2>1. inside' \in [Pip -> Maybe(Workplace)] /\ occupants' \in [Workplace -> Nat]
    BY <1>3, LeaveType DEF Bury, LeaveBuilding
  <2>2. balances[p] \in Int  BY DEF TypeOK, Account
  <2>3. balances' \in [Account -> Int]  BY <1>3, <2>2, MovedType DEF Bury
  <2>4. 0 \in Place /\ 0 \in (-2)..NeedMax  BY WorldAssumption DEF Place
  <2>5. /\ positions' \in [Pip -> Place] /\ destinations' \in [Pip -> Maybe(Place)]
        /\ activities' \in [Pip -> Activities] /\ food' \in [Pip -> (-2)..NeedMax]
        /\ employers' \in [Pip -> Maybe(Workplace)]
        /\ errands' \in [Pip -> Maybe(Workplace)]
    BY <1>3, <2>4 DEF TypeOK, Bury, Forget, Maybe, Activities
  <2>6. phase' \in Phases /\ todo' \in SUBSET pips' /\ pips' \in SUBSET pips
    BY <1>3 DEF TypeOK, Bury, Forget, Goes
  <2> QED BY <1>3, <2>1, <2>3, <2>5, <2>6 DEF TypeOK, Bury
<1>4. ASSUME NEW p \in Pip, DecideErrand(p) PROVE TypeOK'
  <2>1. inside' \in [Pip -> Maybe(Workplace)] /\ occupants' \in [Workplace -> Nat]
    BY <1>4, LeaveType DEF DecideErrand, LeaveBuilding, TypeOK
  <2>2. errands' \in [Pip -> Maybe(Workplace)]
    BY <1>4 DEF TypeOK, DecideErrand, Maybe, BestOffers, Affordable
  <2>3. phase' \in Phases /\ todo' \in SUBSET pips'
    BY <1>4 DEF TypeOK, DecideErrand, Goes
  <2> QED BY <1>4, <2>1, <2>2, <2>3 DEF TypeOK, DecideErrand
<1>5. ASSUME NEW p \in Pip, Enter(p) PROVE TypeOK'
  <2>1. phase' \in Phases /\ todo' \in SUBSET pips'
    BY <1>5 DEF TypeOK, Enter, Goes
  <2>2. CASE AtOpenDoor(p)
    <3>1. Bound(p) \in Workplace  BY <2>2 DEF AtOpenDoor, TypeOK
    <3>2. occupants' = [occupants EXCEPT ![Bound(p)] = @ + 1]
          /\ inside' = [inside EXCEPT ![p] = Bound(p)]
          /\ destinations' = [destinations EXCEPT ![p] = None]
          /\ activities' = [activities EXCEPT ![p] =
                              IF errands[p] # None THEN "Eating" ELSE "Working"]
      BY <1>5, <2>2 DEF Enter
    <3> HIDE DEF Bound
    <3>3. /\ occupants' \in [Workplace -> Nat] /\ inside' \in [Pip -> Maybe(Workplace)]
          /\ destinations' \in [Pip -> Maybe(Place)] /\ activities' \in [Pip -> Activities]
      BY <3>1, <3>2 DEF TypeOK, Maybe, Activities
    <3> QED BY <1>5, <2>1, <3>3 DEF TypeOK, Enter
  <2>3. CASE ~AtOpenDoor(p)  BY <1>5, <2>1, <2>3 DEF TypeOK, Enter
  <2> QED BY <2>2, <2>3
<1>6. ASSUME NEW p \in Pip, Shop(p) PROVE TypeOK'
  <2>1. phase' \in Phases /\ todo' \in SUBSET pips'
    BY <1>6 DEF TypeOK, Shop, Goes
  <2>2. inside' \in [Pip -> Maybe(Workplace)] /\ occupants' \in [Workplace -> Nat]
    BY <1>6, LeaveType DEF Shop, LeaveBuilding, TypeOK
  <2>3. errands' \in [Pip -> Maybe(Workplace)] /\ activities' \in [Pip -> Activities]
    BY <1>6 DEF TypeOK, Shop, Maybe, Activities
  <2>4. balances' \in [Account -> Int] /\ food' \in [Pip -> (-2)..NeedMax]
    <3>1. CASE UNCHANGED <<balances, food>>  BY <3>1 DEF TypeOK
    <3>2. CASE Charged(p, errands[p]) /\ inside[p] = errands[p] /\ errands[p] # None
               /\ ~UNCHANGED <<balances, food>>
      <4>1. errands[p] \in Workplace  BY <3>2 DEF TypeOK, Maybe
      <4>2. sells[errands[p]] # None  BY <3>2 DEF Charged
      <4>3. sells[errands[p]] \in Int  BY <4>1, <4>2, PricesAreInts
      <4> QED BY <3>2, <4>3, MovedType, FedType DEF Charged
    <3> QED BY <1>6, <3>1, <3>2 DEF Shop
  <2> QED BY <1>6, <2>1, <2>2, <2>3, <2>4 DEF TypeOK, Shop
<1>7. ASSUME Wander PROVE TypeOK'
  <2>1. phase' \in Phases  BY <1>7 DEF Wander, After, Phases
  <2>2. destinations' \in [Pip -> Maybe(Place)] /\ activities' \in [Pip -> Activities]
    BY <1>7 DEF TypeOK, Wander, Maybe, Activities
  <2> QED BY <1>7, <2>1, <2>2 DEF TypeOK, Wander
<1>8. ASSUME Commute PROVE TypeOK'
  <2>1. phase' \in Phases  BY <1>8 DEF Commute, After, Phases
  <2>2. \A p \in Commuters : doors[Bound(p)] \in Place  BY DEF Commuters, TypeOK
  <2>3. destinations' \in [Pip -> Maybe(Place)] /\ activities' \in [Pip -> Activities]
    <3> HIDE DEF Bound, Commuters
    <3> QED BY <1>8, <2>2 DEF TypeOK, Commute, Maybe, Activities
  <2> QED BY <1>8, <2>1, <2>3 DEF TypeOK, Commute
<1>9. ASSUME MoveWalkers PROVE TypeOK'
  <2>1. phase' \in Phases  BY <1>9 DEF MoveWalkers, After, Phases
  <2>2. \A p \in pips : destinations[p] # None =>
           StepTowards(positions[p], destinations[p]) \in Place
    BY StepInPlace DEF TypeOK, Maybe
  <2>3. positions' \in [Pip -> Place]  BY <1>9, <2>2 DEF TypeOK, MoveWalkers
  <2>4. destinations' \in [Pip -> Maybe(Place)] /\ activities' \in [Pip -> Activities]
    BY <1>9 DEF TypeOK, MoveWalkers, Maybe, Activities
  <2> QED BY <1>9, <2>1, <2>3, <2>4 DEF TypeOK, MoveWalkers
<1> QED BY <1>1, <1>2, <1>3, <1>4, <1>5, <1>6, <1>7, <1>8, <1>9 DEF Passes

-----------------------------------------------------------------------------
(* Hunger. *)

\* Whatever an intent or a pass does, a living pip with negative food is one
\* that waits for burial.
LEMMA StarvedStep ==
    ASSUME TypeOK, StarvedAreBuried, Next
    PROVE  StarvedAreBuried'
<1> USE DEF step, walk, room, job, population, buildings
<1> NeedMax \in Nat  BY WorldAssumption
<1>1. ASSUME NEW at \in Place, NEW start \in Newborn, Spawn(at, start)
      PROVE  StarvedAreBuried'
  <2>1. start >= 0 /\ next_pip_id \in Pip
    BY <1>1, WorldAssumption DEF TypeOK, Spawn, Pip
  <2> QED BY <1>1, <2>1 DEF TypeOK, StarvedAreBuried, Spawn
<1>2. ASSUME NEW p \in Pip, NEW delta \in NeedDelta, ApplyNeeds(p, delta)
      PROVE  StarvedAreBuried'
  <2>1. food[p] + delta \in Int  BY WorldAssumption DEF TypeOK
  <2>2. Clamp(food[p] + delta) \in 0..NeedMax  BY <2>1, ClampInRange
  <2>3. Clamp(food[p] + delta) >= 0  BY <2>2
  <2> QED BY <1>2, <2>3 DEF TypeOK, StarvedAreBuried, ApplyNeeds
<1>3. ASSUME NEW p \in Pip, NEW w \in Workplace, NEW amount \in Amount, Buy(p, w, amount)
      PROVE  StarvedAreBuried'
  <2>1. Fed(p)[p] >= 0 /\ \A q \in Pip \ {p} : Fed(p)[q] = food[q]
    BY FedType DEF Fed, TypeOK
  <2> HIDE DEF Fed
  <2> QED BY <1>3, <2>1 DEF TypeOK, StarvedAreBuried, Buy
<1>4. ASSUME UNCHANGED <<step, population, food>> PROVE StarvedAreBuried'
  BY <1>4 DEF StarvedAreBuried
<1>5. CASE Intents
  BY <1>1, <1>2, <1>3, <1>4, <1>5
     DEF Intents, Move, Hire, EndEmployment, RegisterWorkplace, Transfer, CreditBalances
<1>6. ASSUME UNCHANGED <<population, food>>, phase # "bury" \/ todo = {}
      PROVE  StarvedAreBuried'
  BY <1>6 DEF StarvedAreBuried
<1>7. ASSUME DecayNeeds PROVE StarvedAreBuried'
  BY <1>7 DEF TypeOK, StarvedAreBuried, DecayNeeds
<1>8. ASSUME NEW p \in Pip, Bury(p) PROVE StarvedAreBuried'
  BY <1>8 DEF TypeOK, StarvedAreBuried, Bury, Goes, Forget
<1>9. ASSUME NEW p \in Pip, Shop(p) PROVE StarvedAreBuried'
  <2>1. food' = food \/ food' = Fed(p)  BY <1>9 DEF Shop, Charged
  <2>2. Fed(p)[p] >= 0 /\ \A q \in Pip \ {p} : Fed(p)[q] = food[q]
    BY FedType DEF Fed, TypeOK
  <2> HIDE DEF Fed
  <2> QED BY <1>9, <2>1, <2>2 DEF TypeOK, StarvedAreBuried, Shop
<1>10. CASE Passes
  BY <1>6, <1>7, <1>8, <1>9, <1>10
     DEF Passes, NextPass, DecideErrand, Enter, Wander, Commute, MoveWalkers
<1> QED BY <1>5, <1>10 DEF Next

-----------------------------------------------------------------------------
(* Places. *)

\* Every intent and every pass leaves each pip where it has business to be.
LEMMA PlaceStep ==
    ASSUME TypeOK, PlaceInv, Next
    PROVE  PlaceInv'
<1> USE DEF step, walk, room, job, population, buildings, PlaceInv
<1> None \notin Workplace  BY AccountsApart
<1>1. ASSUME UNCHANGED <<step, room, job>>, pips \subseteq pips' PROVE PlaceInv'
  BY <1>1 DEF DeadAreBlank, InsideInv
<1>2. ASSUME NEW p \in Pip, NEW w \in Workplace, Hire(p, w) PROVE PlaceInv'
  BY <1>2 DEF TypeOK, DeadAreBlank, InsideInv, Hire, LeaveBuilding, Outside
<1>3. ASSUME NEW p \in Pip, EndEmployment(p) PROVE PlaceInv'
  BY <1>3 DEF TypeOK, DeadAreBlank, InsideInv, EndEmployment, LeaveBuilding, Outside
<1>4. CASE Intents
  BY <1>1, <1>2, <1>3, <1>4
     DEF Intents, Spawn, Move, ApplyNeeds, RegisterWorkplace, Transfer, Buy, CreditBalances
<1>5. ASSUME NextPass PROVE PlaceInv'
  BY <1>5 DEF TypeOK, DeadAreBlank, InsideInv, NextPass, After
<1>6. ASSUME UNCHANGED <<room, job, pips>>, phase \notin {"enter", "shop"} PROVE PlaceInv'
  BY <1>6 DEF DeadAreBlank, InsideInv
<1>7. ASSUME NEW p \in Pip, Bury(p) PROVE PlaceInv'
  BY <1>7 DEF TypeOK, DeadAreBlank, InsideInv, Bury, Goes, Forget, LeaveBuilding, Outside
<1>8. ASSUME NEW p \in Pip, DecideErrand(p) PROVE PlaceInv'
  <2>1. p \in pips /\ todo \in SUBSET Pip
    BY <1>8, MinIn DEF TypeOK, DecideErrand
  <2>2. \A w \in BestOffers(p) : w \in Workplace  BY DEF BestOffers, Affordable, TypeOK
  <2> HIDE DEF BestOffers
  <2> QED BY <1>8, <2>1, <2>2
          DEF TypeOK, DeadAreBlank, InsideInv, DecideErrand, Goes, LeaveBuilding, Outside
<1>9. ASSUME NEW p \in Pip, Enter(p) PROVE PlaceInv'
  <2>1. p \in pips /\ p \in todo  BY <1>9, MinIn DEF TypeOK, Enter
  <2> QED BY <1>9, <2>1
          DEF TypeOK, DeadAreBlank, InsideInv, Enter, Goes, AtOpenDoor, Bound
<1>10. ASSUME NEW p \in Pip, Shop(p) PROVE PlaceInv'
  BY <1>10 DEF TypeOK, DeadAreBlank, InsideInv, Shop, Goes, LeaveBuilding, Outside
<1>11. CASE Passes
  BY <1>5, <1>6, <1>7, <1>8, <1>9, <1>10, <1>11
     DEF Passes, DecayNeeds, Wander, Commute, MoveWalkers
<1> QED BY <1>4, <1>11 DEF Next

-----------------------------------------------------------------------------
(* Room. *)

\* The places of buildings change in two ways only.
LEMMA RoomMoves ==
    ASSUME Next
    PROVE  \/ UNCHANGED room
           \/ \E p \in Pip : LeaveBuilding(p)
           \/ \E p \in Pip : Enter(p) /\ AtOpenDoor(p)
<1> USE DEF room
<1>1. CASE Intents
  BY <1>1 DEF Intents, Spawn, Move, Hire, EndEmployment, ApplyNeeds, RegisterWorkplace,
              Transfer, Buy, CreditBalances
<1>2. CASE Passes
  BY <1>2 DEF Passes, NextPass, DecayNeeds, Bury, DecideErrand, Enter, Shop, Wander,
              Commute, MoveWalkers
<1> QED BY <1>1, <1>2 DEF Next

\* The pips inside w.
Guests(w) == {p \in Pip : inside[p] = w}

\* Leaving a building keeps the count of its guests.
LEMMA LeaveCounts ==
    ASSUME TypeOK, OccupantsCounted, NEW p \in Pip, LeaveBuilding(p)
    PROVE  OccupantsCounted'
<1> SUFFICES ASSUME NEW w \in Workplace
             PROVE  occupants'[w] = Cardinality(Guests(w)')
  BY DEF OccupantsCounted, Guests
<1>1. w # None  BY AccountsApart
<1>2. IsFiniteSet(Guests(w))  BY AccountsFinite, FS_Subset DEF Guests
<1>3. occupants[w] = Cardinality(Guests(w)) /\ occupants[w] \in Nat
  BY DEF OccupantsCounted, Guests, TypeOK
<1>4. CASE inside[p] = w
  <2>1. Guests(w)' = Guests(w) \ {p}
    BY <1>1, <1>4 DEF Guests, LeaveBuilding, Outside
  <2>2. p \in Guests(w)  BY <1>4 DEF Guests
  <2>3. Cardinality(Guests(w) \ {p}) = Cardinality(Guests(w)) - 1
    BY <1>2, <2>2, FS_RemoveElement
  <2>4. occupants[w] > 0  BY <1>2, <1>3, <2>2, FS_EmptySet
  <2>5. occupants'[w] = occupants[w] - 1  BY <1>4, <2>4 DEF LeaveBuilding, Vacated
  <2> QED BY <1>3, <2>1, <2>3, <2>5
<1>5. CASE inside[p] # w
  <2>1. Guests(w)' = Guests(w)
    BY <1>1, <1>5 DEF Guests, LeaveBuilding, Outside, TypeOK
  <2>2. occupants'[w] = occupants[w]  BY <1>5 DEF LeaveBuilding, Vacated
  <2> QED BY <1>3, <2>1, <2>2
<1> QED BY <1>4, <1>5

\* ... and so does going in.
LEMMA EnterCounts ==
    ASSUME TypeOK, OccupantsCounted, NEW p \in Pip, Enter(p), AtOpenDoor(p)
    PROVE  OccupantsCounted'
<1> SUFFICES ASSUME NEW w \in Workplace
             PROVE  occupants'[w] = Cardinality(Guests(w)')
  BY DEF OccupantsCounted, Guests
<1>1. w # None /\ inside[p] = None  BY AccountsApart DEF AtOpenDoor
<1>2. IsFiniteSet(Guests(w))  BY AccountsFinite, FS_Subset DEF Guests
<1>3. occupants[w] = Cardinality(Guests(w)) /\ occupants[w] \in Nat
  BY DEF OccupantsCounted, Guests, TypeOK
<1>4. /\ occupants' = [occupants EXCEPT ![Bound(p)] = @ + 1]
      /\ inside' = [inside EXCEPT ![p] = Bound(p)]
  BY DEF Enter
<1>5. p \notin Guests(w)  BY <1>1 DEF Guests
<1> HIDE DEF Bound
<1>6. CASE Bound(p) = w
  <2>1. Guests(w)' = Guests(w) \union {p}  BY <1>4, <1>6 DEF Guests, TypeOK
  <2>2. Cardinality(Guests(w) \union {p}) = Cardinality(Guests(w)) + 1
    BY <1>2, <1>5, FS_AddElement
  <2>3. occupants'[w] = occupants[w] + 1  BY <1>4, <1>6 DEF TypeOK
  <2> QED BY <1>3, <2>1, <2>2, <2>3
<1>7. CASE Bound(p) # w
  <2>1. Guests(w)' = Guests(w)  BY <1>1, <1>4, <1>7 DEF Guests, TypeOK
  <2>2. occupants'[w] = occupants[w]  BY <1>4, <1>7 DEF TypeOK
  <2> QED BY <1>3, <2>1, <2>2
<1> QED BY <1>6, <1>7

LEMMA CountStep ==
    ASSUME TypeOK, OccupantsCounted, Next
    PROVE  OccupantsCounted'
<1>1. CASE UNCHANGED room  BY <1>1 DEF room, OccupantsCounted
<1> QED BY <1>1, RoomMoves, LeaveCounts, EnterCounts

-----------------------------------------------------------------------------
(* Money. *)

\* What n moves from a to b, and a can afford it or is the treasury.
Payment(a, b, n) ==
    /\ a = Treasury \/ balances[a] >= n
    /\ balances' = Moved(a, b, n)

Payroll(w, S, n) == CreditBalances(w, [p \in S |-> n])

\* Money changes hands in two ways only.
LEMMA MoneyMoves ==
    ASSUME TypeOK, PursesNeverNegative, Next
    PROVE  \/ UNCHANGED balances
           \/ \E a, b \in Account, n \in Nat : Payment(a, b, n)
           \/ \E w \in Workplace, S \in SUBSET Pip, n \in Amount : Payroll(w, S, n)
<1> DEFINE Goal == \/ UNCHANGED balances
                   \/ \E a, b \in Account, n \in Nat : Payment(a, b, n)
                   \/ \E w \in Workplace, S \in SUBSET Pip, n \in Amount : Payroll(w, S, n)
<1> SUFFICES Goal  OBVIOUS
<1> HIDE DEF Goal
<1>1. ASSUME UNCHANGED balances PROVE Goal  BY <1>1 DEF Goal
<1>2. ASSUME NEW a \in Account, NEW b \in Account, NEW n \in Nat, Payment(a, b, n)
      PROVE  Goal
  BY <1>2 DEF Goal
<1>3. ASSUME NEW w \in Workplace, NEW S \in SUBSET Pip, NEW n \in Amount, Payroll(w, S, n)
      PROVE  Goal
  BY <1>3 DEF Goal
<1>4. Amount \subseteq Nat /\ Price \subseteq Nat  BY WorldAssumption
<1>5. ASSUME NEW p \in Pip, NEW w \in Workplace, NEW n \in Amount, Buy(p, w, n)
      PROVE  Goal
  <2>1. n \in Nat /\ p \in Account /\ w \in Account  BY <1>4 DEF Account
  <2>2. Payment(p, w, n)
    BY <1>5 DEF Buy, Covered, Payment
  <2> QED BY <1>2, <2>1, <2>2
<1>6. ASSUME NEW a \in Account, NEW b \in Account, NEW n \in Amount,
             NEW kind \in {"Issuance", "Wage"}, Transfer(a, b, n, kind)
      PROVE  Goal
  <2>1. n \in Nat  BY <1>4
  <2>2. Payment(a, b, n)  BY <1>6 DEF Transfer, Covered, Payment
  <2> QED BY <1>2, <2>1, <2>2
<1>7. CASE Intents
  BY <1>1, <1>3, <1>5, <1>6, <1>7
     DEF Intents, Spawn, Move, Hire, EndEmployment, ApplyNeeds, RegisterWorkplace, Payroll
<1>8. ASSUME NEW p \in Pip, Bury(p) PROVE Goal
  <2>1. p \in Account /\ p # Treasury /\ Treasury \in Account
    BY AccountsApart DEF Account
  <2>2. balances[p] \in Nat  BY <2>1 DEF TypeOK, PursesNeverNegative
  <2>3. Payment(p, Treasury, balances[p])  BY <1>8, <2>2 DEF Bury, Payment
  <2> QED BY <1>2, <2>1, <2>2, <2>3
<1>9. ASSUME NEW p \in Pip, Shop(p), ~UNCHANGED balances PROVE Goal
  <2>1. errands[p] # None /\ Charged(p, errands[p])  BY <1>9 DEF Shop
  <2>2. errands[p] \in Workplace  BY <2>1 DEF TypeOK, Maybe
  <2>3. /\ sells[errands[p]] # None /\ balances[p] >= sells[errands[p]]
        /\ balances' = Moved(p, errands[p], sells[errands[p]])
    BY <1>9, <2>1 DEF Charged
  <2>4. sells[errands[p]] \in Price  BY <2>2, <2>3 DEF TypeOK, Offer
  <2>5. sells[errands[p]] \in Nat  BY <1>4, <2>4
  <2>6. p \in Account /\ errands[p] \in Account  BY <2>2 DEF Account
  <2>7. Payment(p, errands[p], sells[errands[p]])  BY <2>3 DEF Payment
  <2> QED BY <1>2, <2>5, <2>6, <2>7
<1>10. CASE Passes
  BY <1>1, <1>8, <1>9, <1>10
     DEF Passes, NextPass, DecayNeeds, DecideErrand, Enter, Wander, Commute, MoveWalkers
<1> QED BY <1>7, <1>10 DEF Next

\* What a payroll does to the balances.
LEMMA PayrollEffect ==
    ASSUME TypeOK, NEW w \in Workplace, NEW S \in SUBSET Pip, NEW n \in Amount,
           Payroll(w, S, n)
    PROVE  \E c, D, total :
             /\ D \in SUBSET Pip /\ \A x \in D : c[x] \in Nat
             /\ total = SumOver(c, D) /\ total \in Int /\ balances[w] >= total
             /\ balances' = [a \in Account |->
                               balances[a] + (IF a \in D THEN c[a] ELSE 0)
                                           - (IF a = w THEN total ELSE 0)]
<1> DEFINE c == [p \in S |-> n]
           D == S \intersect pips
           total == SumOver(c, D)
<1>1. n \in Nat  BY WorldAssumption
<1>2. D \in SUBSET Pip /\ \A x \in D : c[x] \in Nat  BY <1>1
<1>3. IsFiniteSet(D)  BY AccountsFinite, FS_Subset
<1>4. total \in Int
  <2>1. \A x \in D : c[x] \in Int  BY <1>2
  <2> HIDE DEF c, D
  <2> QED BY <1>3, <2>1, SumInt
<1>5. /\ balances[w] >= total
      /\ balances' = [a \in Account |->
                        CASE a = w -> balances[a] - total
                          [] a \in D -> balances[a] + c[a]
                          [] OTHER -> balances[a]]
  BY DEF Payroll, CreditBalances
<1>6. w \notin D  BY AccountsApart
<1> HIDE DEF c, D, total
<1>7. balances' = [a \in Account |->
                     balances[a] + (IF a \in D THEN c[a] ELSE 0)
                                 - (IF a = w THEN total ELSE 0)]
  <2>1. \A a \in Account : balances[a] \in Int  BY DEF TypeOK
  <2> QED BY <1>2, <1>4, <1>5, <1>6, <2>1
<1> QED BY <1>2, <1>4, <1>5, <1>7 DEF total

\* No step creates or destroys money.
LEMMA SupplyStep ==
    ASSUME TypeOK, PursesNeverNegative, SupplyClosed, Next
    PROVE  SupplyClosed'
<1>1. DOMAIN balances = Account /\ \A a \in Account : balances[a] \in Int  BY DEF TypeOK
<1>2. SumOver(balances, Account) = 0  BY <1>1 DEF SupplyClosed, SumOf
<1>3. IsFiniteSet(Account)  BY AccountsFinite
<1> SUFFICES DOMAIN balances' = Account /\ SumOver(balances', Account) = 0
  BY DEF SupplyClosed, SumOf
<1>4. CASE UNCHANGED balances  BY <1>1, <1>2, <1>4
<1>5. ASSUME NEW a \in Account, NEW b \in Account, NEW n \in Nat, Payment(a, b, n)
      PROVE  DOMAIN balances' = Account /\ SumOver(balances', Account) = 0
  <2>1. balances' = [x \in Account |-> balances[x] + (IF x = b THEN n ELSE 0)
                                                   - (IF x = a THEN n ELSE 0)]
    BY <1>5 DEF Payment, Moved
  <2>2. \A x \in Account : balances'[x] = balances[x] + (IF x = b THEN n ELSE 0)
                                                      - (IF x = a THEN n ELSE 0)
    BY <2>1
  <2>3. Giving(balances, balances', Account, a, b, n)
    BY <1>1, <1>3, <2>2 DEF Giving
  <2>4. SumOver(balances', Account) = SumOver(balances, Account)  BY <2>3, SumMoved
  <2> QED BY <1>2, <2>1, <2>4
<1>6. ASSUME NEW w \in Workplace, NEW S \in SUBSET Pip, NEW n \in Amount, Payroll(w, S, n)
      PROVE  DOMAIN balances' = Account /\ SumOver(balances', Account) = 0
  <2>1. PICK c, D, total :
             /\ D \in SUBSET Pip /\ \A x \in D : c[x] \in Nat
             /\ total = SumOver(c, D) /\ total \in Int /\ balances[w] >= total
             /\ balances' = [a \in Account |->
                               balances[a] + (IF a \in D THEN c[a] ELSE 0)
                                           - (IF a = w THEN total ELSE 0)]
    BY <1>6, PayrollEffect
  <2>2. D \subseteq Account /\ w \in Account  BY <2>1 DEF Account
  <2>3. \A x \in D : c[x] \in Int  BY <2>1
  <2>4. \A x \in Account : balances'[x] = balances[x] + (IF x \in D THEN c[x] ELSE 0)
                                                      - (IF x = w THEN total ELSE 0)
    BY <2>1
  <2>5. Paying(balances, balances', Account, w, c, D, total)
    BY <1>1, <1>3, <2>1, <2>2, <2>3, <2>4 DEF Paying
  <2>6. SumOver(balances', Account) = SumOver(balances, Account)  BY <2>5, SumPaid
  <2> QED BY <1>2, <2>1, <2>6
<1> QED BY <1>4, <1>5, <1>6, MoneyMoves

\* No step takes from a purse what is not in it.
LEMMA PursesStep ==
    ASSUME TypeOK, PursesNeverNegative, Next
    PROVE  PursesNeverNegative'
<1>1. \A a \in Account : balances[a] \in Int  BY DEF TypeOK
<1>2. CASE UNCHANGED balances  BY <1>2 DEF PursesNeverNegative
<1>3. ASSUME NEW a \in Account, NEW b \in Account, NEW n \in Nat, Payment(a, b, n)
      PROVE  PursesNeverNegative'
  BY <1>1, <1>3 DEF PursesNeverNegative, Payment, Moved
<1>4. ASSUME NEW w \in Workplace, NEW S \in SUBSET Pip, NEW n \in Amount, Payroll(w, S, n)
      PROVE  PursesNeverNegative'
  <2>1. PICK c, D, total :
             /\ D \in SUBSET Pip /\ \A x \in D : c[x] \in Nat
             /\ total = SumOver(c, D) /\ total \in Int /\ balances[w] >= total
             /\ balances' = [a \in Account |->
                               balances[a] + (IF a \in D THEN c[a] ELSE 0)
                                           - (IF a = w THEN total ELSE 0)]
    BY <1>4, PayrollEffect
  <2> QED BY <1>1, <2>1 DEF PursesNeverNegative
<1> QED BY <1>2, <1>3, <1>4, MoneyMoves

-----------------------------------------------------------------------------
(* The theorems. *)

LEMMA InitInv == Init => IInv
<1> SUFFICES ASSUME Init PROVE IInv  OBVIOUS
<1> USE DEF Init
<1>1. TypeOK
  BY WorldAssumption DEF TypeOK, Phases, Pip, Place, Maybe, Activities, Offer
<1>2. StarvedAreBuried /\ PlaceInv
  BY DEF StarvedAreBuried, PlaceInv, DeadAreBlank, InsideInv
<1>3. OccupantsCounted
  <2>1. ASSUME NEW w \in Workplace PROVE {p \in Pip : inside[p] = w} = {}
    BY AccountsApart
  <2> QED BY <2>1, FS_EmptySet DEF OccupantsCounted
<1>4. SupplyClosed
  <2>1. \A a \in Account : balances[a] = 0  OBVIOUS
  <2>2. DOMAIN balances = Account  OBVIOUS
  <2> QED BY <2>1, <2>2, AccountsFinite, SumZero DEF SupplyClosed, SumOf
<1>5. PursesNeverNegative  BY DEF PursesNeverNegative
<1> QED BY <1>1, <1>2, <1>3, <1>4, <1>5 DEF IInv

LEMMA NextInv == IInv /\ [Next]_vars => IInv'
<1> SUFFICES ASSUME IInv, [Next]_vars PROVE IInv'  OBVIOUS
<1>1. CASE Next
  <2>1. TypeOK'  BY <1>1, IntentTypes, PassTypes DEF IInv, Next
  <2>2. StarvedAreBuried' /\ PlaceInv'  BY <1>1, StarvedStep, PlaceStep DEF IInv
  <2>3. OccupantsCounted'  BY <1>1, CountStep DEF IInv
  <2>4. SupplyClosed' /\ PursesNeverNegative'  BY <1>1, SupplyStep, PursesStep DEF IInv
  <2> QED BY <2>1, <2>2, <2>3, <2>4 DEF IInv
<1>2. CASE UNCHANGED vars
  BY <1>2 DEF IInv, TypeOK, StarvedAreBuried, PlaceInv, DeadAreBlank, InsideInv,
              OccupantsCounted, SupplyClosed, PursesNeverNegative,
              vars, step, population, walk, room, job, buildings
<1> QED BY <1>1, <1>2

\* The inductive invariant of the simulation core holds in every state a tick
\* passes through (World::step).
THEOREM WorldInv == Spec => []IInv
BY InitInv, NextInv, PTL DEF Spec

\* Whatever the intents, every variable of the simulation core keeps its type;
\* food is never below -2, the hunger of one working tick (decay_needs).
THEOREM WorldTypeCorrect == Spec => []TypeOK
<1>1. IInv => TypeOK  BY DEF IInv
<1> QED BY <1>1, WorldInv, PTL

\* Wages, purchases, payrolls and deaths never create or destroy money
\* (adjust_balance is always called for both sides of a transfer).
THEOREM SupplyStaysClosed == Spec => []SupplyClosed
<1>1. IInv => SupplyClosed  BY DEF IInv
<1> QED BY <1>1, WorldInv, PTL

\* The cached workplace_occupants is the number of pips inside, whatever the
\* order of hires, errands, deaths and purchases.
THEOREM OccupantsStayCounted == Spec => []OccupantsCounted
<1>1. IInv => OccupantsCounted  BY DEF IInv
<1> QED BY <1>1, WorldInv, PTL

\* Only the living are inside, where they work or shop, and nobody is left in
\* a shop when a tick ends (enter_workplaces, shop, remove_at).
THEOREM InsideStaysForAReason == Spec => []InsideForAReason
<1>1. IInv => InsideForAReason
  BY DEF IInv, TypeOK, PlaceInv, DeadAreBlank, InsideInv, InsideForAReason
<1> QED BY <1>1, WorldInv, PTL

\* No sequence of wages, payrolls, purchases and deaths makes anybody but the
\* treasury owe money.
THEOREM PursesStayNonNegative == Spec => []PursesNeverNegative
<1>1. IInv => PursesNeverNegative  BY DEF IInv
<1> QED BY <1>1, WorldInv, PTL

\* The number of occupants grows only by a pip that finds room
\* (enter_workplaces): no step lets one more in than fit.
THEOREM NobodyEverSqueezesIn == Spec => NobodySqueezesIn
<1> DEFINE Fits == \A w \in Workplace : occupants'[w] > occupants[w] =>
                                           occupants'[w] <= capacities'[w]
<1>1. TypeOK /\ [Next]_vars => [Fits]_vars
  <2> SUFFICES ASSUME TypeOK, Next PROVE Fits  OBVIOUS
  <2>1. \A w \in Workplace : occupants[w] \in Nat /\ capacities[w] \in Nat
    BY DEF TypeOK
  <2>2. CASE UNCHANGED room  BY <2>1, <2>2 DEF room
  <2>3. ASSUME NEW p \in Pip, LeaveBuilding(p) PROVE Fits
    BY <2>1, <2>3 DEF LeaveBuilding, Vacated
  <2>4. ASSUME NEW p \in Pip, Enter(p), AtOpenDoor(p) PROVE Fits
    <3>1. /\ occupants' = [occupants EXCEPT ![Bound(p)] = @ + 1]
          /\ occupants[Bound(p)] < capacities[Bound(p)]
          /\ capacities' = capacities
      BY <2>4 DEF Enter, AtOpenDoor, buildings
    <3> HIDE DEF Bound
    <3> QED BY <2>1, <3>1 DEF TypeOK
  <2> QED BY <2>2, <2>3, <2>4, RoomMoves
<1> QED BY <1>1, WorldTypeCorrect, PTL DEF Spec, NobodySqueezesIn

-----------------------------------------------------------------------------
(* The map: what its theorems ask of the constants. *)

LEMMA Setting ==
    /\ IsFiniteSet(Building) /\ IsFiniteSet(Thing)
    /\ Structures \in Seq(Structure)
    /\ Structure \intersect Building = {}
    /\ Channel \in Nat \ {0} /\ MaxFaults \in Nat
<1>1. Structures \in Seq(Structure)  BY RegistrationAssumption
<1>2. Structures \in Surjection(1..Len(Structures), Structure)
  BY <1>1 DEF Surjection, Structure, Range
<1>3. IsFiniteSet(Structure)
  <2>1. IsFiniteSet(1..Len(Structures))  BY <1>1, FS_Interval
  <2> QED BY <1>2, <2>1, FS_Surjection
<1>4. IsFiniteSet(Thing)  BY <1>3, FS_Union, RegistrationAssumption DEF Thing
<1> QED BY <1>1, <1>4, RegistrationAssumption

-----------------------------------------------------------------------------
(* A tick of the core. *)

Maps == [Thing -> Look]

\* Nothing stands where it may not, no two workplaces too close to each other.
Apart(m) ==
    \A w \in Building : m[w] # "absent" =>
        /\ Plot[w] \notin {"none", "off_map"}
        /\ \A x \in Building : m[x] # "absent" /\ <<w, x>> \in TooClose => x = w

\* Only what has a configured position is ever registered.
Placed == \A w \in Building : pending[w] # "none" \/ w \in described => Plot[w] # "none"

\* One intent keeps the workplaces apart.
LEMMA AppliedApart ==
    ASSUME NEW m \in Maps, NEW t \in Thing, Placed, pending[t] \in {"dark", "lit"}
    PROVE  /\ Applied(m, t) \in Maps
           /\ Apart(m) => Apart(Applied(m, t))
<1>1. Applied(m, t) = m \/ Applied(m, t) = [m EXCEPT ![t] = pending[t]]  BY DEF Applied
<1>2. Applied(m, t) \in Maps  BY <1>1 DEF Maps, Look
<1>3. ASSUME Apart(m) PROVE Apart(Applied(m, t))
  <2>1. CASE Applied(m, t) = m  BY <1>3, <2>1
  <2>2. CASE Applied(m, t) # m
    <3>1. /\ Applied(m, t) = [m EXCEPT ![t] = pending[t]]
          /\ ~ /\ t \in Building
               /\ \/ Plot[t] = "off_map"
                  \/ \E w \in Building \ {t} : m[w] # "absent" /\ <<t, w>> \in TooClose
      BY <2>2 DEF Applied
    <3>2. \A w \in Building : w # t => Applied(m, t)[w] = m[w]
      BY <3>1 DEF Maps, Thing
    <3>3. t \in Building => Plot[t] \notin {"none", "off_map"}
      BY <3>1 DEF Placed
    <3>4. ASSUME NEW w \in Building, Applied(m, t)[w] # "absent"
          PROVE  /\ Plot[w] \notin {"none", "off_map"}
                 /\ \A x \in Building :
                       Applied(m, t)[x] # "absent" /\ <<w, x>> \in TooClose => x = w
      <4>1. CASE w = t  BY <3>1, <3>2, <3>3, <4>1
      <4>2. CASE w # t
        <5>1. m[w] # "absent"  BY <3>2, <3>4, <4>2
        <5>2. t \in Building => <<w, t>> \notin TooClose
          BY <3>1, <4>2, <5>1, RegistrationAssumption
        <5> QED BY <1>3, <3>2, <5>1, <5>2 DEF Apart
      <4> QED BY <4>1, <4>2
    <3> QED BY <3>4 DEF Apart
  <2> QED BY <2>1, <2>2
<1> QED BY <1>2, <1>3

\* The map after each of a tick's intents: the trace of the fold in Tick.
LEMMA TickTrace ==
    ASSUME NEW s \in Seq(Thing), Placed, map \in Maps, Apart(map),
           \A n \in DOMAIN s : pending[s[n]] \in {"dark", "lit"}
    PROVE  LET after == FoldLeft(Applied, map, s)
           IN  after \in Maps /\ Apart(after)
<1> DEFINE n == Len(s)
           A == {m \in Maps : Apart(m)}
           R == [i \in 1..n |-> [a \in A |-> Applied(a, s[i])]]
           Rec(g) == g = [T \in SUBSET (1..n) |->
                            IF T = {} THEN map
                            ELSE Applied(g[T \ {Max(T)}], s[Max(T)])]
           iter == CHOOSE g : Rec(g)
<1>1. n \in Nat /\ DOMAIN s = 1..n /\ \A i \in 1..n : s[i] \in Thing  OBVIOUS
<1>2. ASSUME NEW a \in A, NEW i \in 1..n PROVE Applied(a, s[i]) \in A
  BY <1>1, AppliedApart
<1>3. R \in [1..n -> [A -> A]]  BY <1>2
<1>4. ASSUME NEW T \in SUBSET (1..n), T # {}
      PROVE  Max(T) \in T
  BY <1>1, <1>4, MaxIn
<1>5. \E g \in [SUBSET (1..n) -> A] : Rec(g)
  <2>0. map \in A  OBVIOUS
  <2> HIDE DEF R, A, n
  <2>1. PICK g \in [SUBSET (1..n) -> A] : IsFold(g, map, R, n)
    BY <1>1, <1>3, <2>0, FoldExists
  <2>2. ASSUME NEW T \in SUBSET (1..n), T # {}
        PROVE  g[T] = Applied(g[T \ {Max(T)}], s[Max(T)])
    <3>1. Max(T) \in 1..n /\ T \ {Max(T)} \in SUBSET (1..n)  BY <1>4, <2>2
    <3>2. g[T \ {Max(T)}] \in A  BY <3>1
    <3> QED BY <2>1, <2>2, <3>1, <3>2 DEF R, IsFold
  <2>3. Rec(g)  BY <2>1, <2>2 DEF IsFold
  <2> HIDE DEF Rec
  <2> QED BY <2>3
<1>6. Rec(iter)
  <2> HIDE DEF Rec
  <2> QED BY <1>5
<1>7. FoldLeft(Applied, map, s) = iter[1..n]
  BY <1>1 DEF FoldLeft, MapThenFoldSet
<1> HIDE DEF iter, R
<1> DEFINE G == {T \in SUBSET (1..n) : iter[T] \in A}
<1>8. ASSUME NEW T \in SUBSET (1..n), \A U \in SUBSET T : U # T => U \in G
      PROVE  T \in G
  <2>1. CASE T = {}
    <3>1. iter[T] = map  BY <1>6, <2>1
    <3>2. map \in A  OBVIOUS
    <3> QED BY <3>1, <3>2
  <2>2. CASE T # {}
    <3>1. Max(T) \in T  BY <1>4, <2>2
    <3>2. T \ {Max(T)} \in G /\ Max(T) \in 1..n  BY <1>8, <3>1
    <3>3. iter[T] = Applied(iter[T \ {Max(T)}], s[Max(T)])  BY <1>6, <2>2
    <3> QED BY <1>2, <3>2, <3>3
  <2> QED BY <2>1, <2>2
<1>9. 1..n \in G
  <2> DEFINE S == 1..n
  <2> HIDE DEF G, S
  <2>1. IsFiniteSet(S)
    <3>1. 1 \in Int /\ n \in Int  BY <1>1
    <3> HIDE DEF n
    <3>2. IsFiniteSet(1..n)  BY ONLY <3>1, FS_Interval
    <3> QED BY <3>2 DEF S
  <2>2. \A T \in SUBSET S : (\A U \in SUBSET T : U # T => U \in G) => T \in G
    BY <1>8 DEF S
  <2>3. S \in G  BY <2>1, <2>2, SubsetInduction
  <2> QED BY <2>3 DEF S
<1> QED BY <1>7, <1>9

-----------------------------------------------------------------------------
(* Every step. *)

\* Without structures there is nothing to poll.
NothingToDraw == Structures = << >> => polled = "none"

MapInv == MapTypeOK /\ Placed /\ NothingToDraw /\ OnePerPlot

GatewayOK ==
    /\ up \in SUBSET Address /\ typo \in BOOLEAN
    /\ gateway \in {"off", "discovering", "running", "exited"}
    /\ unasked \in SUBSET Address
    /\ known \subseteq drivers /\ described \subseteq drivers
    /\ drivers \in SUBSET Building
    /\ turn \in {1} \union 1..Len(Structures) /\ polled \in {"none", "dark", "lit"}

CoreOK ==
    /\ pending \in [Thing -> {"none", "dark", "lit"}]
    /\ map \in Maps
    /\ OnePerPlot

WatcherOK ==
    /\ client \in {"out", "joined", "streaming"}
    /\ backlog \in Seq(Deltas) /\ Len(backlog) <= Channel
    /\ view \in [Thing -> Look]

Parts ==
    GatewayOK /\ CoreOK /\ WatcherOK /\ faults \in 0..MaxFaults /\ Placed /\ NothingToDraw

LEMMA IInvParts == MapInv <=> Parts
BY DEF MapInv, MapTypeOK, Parts, GatewayOK, CoreOK, WatcherOK, Maps

LEMMA ApartIs == /\ OnePerPlot <=> Apart(map)
                 /\ OnePerPlot' <=> Apart(map')
BY DEF OnePerPlot, Apart

LEMMA FaultTyped == ASSUME faults \in 0..MaxFaults, Fault PROVE faults' \in 0..MaxFaults
BY Setting DEF Fault

LEMMA Frames ==
    /\ CoreOK /\ UNCHANGED core => CoreOK'
    /\ WatcherOK /\ UNCHANGED watcher => WatcherOK'
    /\ GatewayOK /\ UNCHANGED <<up, typo, gateway, economy, registrar>> => GatewayOK'
    /\ Placed /\ UNCHANGED core /\ described' \subseteq described => Placed'
    /\ NothingToDraw /\ UNCHANGED registrar => NothingToDraw'
BY DEF CoreOK, core, WatcherOK, watcher, GatewayOK, economy, registrar, Placed,
       NothingToDraw, OnePerPlot

\* An empty map and no stream.
LEMMA EmptyTyped ==
    /\ EmptyMap \in Maps /\ Apart(EmptyMap)
    /\ NoIntents \in [Thing -> {"none", "dark", "lit"}]
    /\ << >> \in Seq(Deltas) /\ Len(<< >>) <= Channel
<1>1. << >> \in Seq(Deltas) /\ Len(<< >>) = 0  OBVIOUS
<1>2. EmptyMap \in Maps /\ NoIntents \in [Thing -> {"none", "dark", "lit"}]
  BY DEF EmptyMap, NoIntents, Maps, Look
<1>3. Apart(EmptyMap)  BY DEF EmptyMap, Apart, Thing
<1> QED BY <1>1, <1>2, <1>3, Setting

LEMMA GatewayStarts == ASSUME Parts, StartGateway PROVE Parts'
<1>1. GatewayOK'  BY DEF Parts, GatewayOK, StartGateway, registrar
<1> QED BY <1>1, Frames DEF Parts, StartGateway

LEMMA GatewayDiscovers == ASSUME Parts, NEW a \in Address, Discover(a) PROVE Parts'
<1>1. GatewayOK'  BY DEF Parts, GatewayOK, Discover, Hosted, registrar
<1>2. faults' \in 0..MaxFaults  BY FaultTyped DEF Parts, Discover
<1> QED BY <1>1, <1>2, Frames DEF Parts, Discover

LEMMA GatewayStops == ASSUME Parts, GatewayRestarts PROVE Parts'
<1>1. GatewayOK'  BY DEF Parts, GatewayOK, GatewayRestarts
<1>2. WatcherOK'  BY EmptyTyped DEF WatcherOK, GatewayRestarts, Maps
<1>3. faults' \in 0..MaxFaults  BY FaultTyped DEF Parts, GatewayRestarts
<1>4. NothingToDraw'  BY DEF NothingToDraw, GatewayRestarts
<1> QED BY <1>1, <1>2, <1>3, <1>4, Frames DEF Parts, GatewayRestarts

LEMMA WorkplaceDescribes == ASSUME Parts, NEW w \in Building, Describe(w) PROVE Parts'
<1>1. GatewayOK'  BY DEF Parts, GatewayOK, Describe, registrar
<1>2. Placed'  BY DEF Parts, Placed, Describe, core
<1> QED BY <1>1, <1>2, Frames DEF Parts, Describe

LEMMA WorkplaceRegisters == ASSUME Parts, NEW w \in Building, Register(w) PROVE Parts'
<1>1. GatewayOK'  BY DEF Parts, GatewayOK, Register, registrar
<1>2. w \in Thing  BY DEF Thing
<1>3. pending' = pending \/ pending' = [pending EXCEPT ![w] = "lit"]  BY DEF Register
<1>4. CoreOK'  BY <1>2, <1>3, ApartIs DEF Parts, CoreOK, Register
<1>5. Placed'
  <2>1. Plot[w] # "none"  BY DEF Parts, Placed, Register
  <2>2. \A x \in Building : x # w => pending'[x] = pending[x]
    BY <1>3 DEF Parts, CoreOK, Thing
  <2> QED BY <2>1, <2>2 DEF Parts, Placed, Register
<1>6. faults' \in 0..MaxFaults  BY FaultTyped DEF Parts, Register
<1> QED BY <1>1, <1>4, <1>5, <1>6, Frames DEF Parts, Register

LEMMA StructurePolled == ASSUME Parts, Poll PROVE Parts'
<1>1. GatewayOK'  BY DEF Parts, GatewayOK, Poll, economy, Lit
<1>2. NothingToDraw'  BY DEF NothingToDraw, Poll
<1>3. described' = described  BY DEF Poll, economy
<1> QED BY <1>1, <1>2, <1>3, Frames DEF Parts, Poll

LEMMA StructureDrawn == ASSUME Parts, Draw PROVE Parts'
<1>1. Structures \in Seq(Structure) /\ Structures # << >>
  BY Setting DEF Parts, NothingToDraw, Draw
<1>2. Len(Structures) \in Nat \ {0} /\ turn \in 1..Len(Structures)
  BY <1>1 DEF Parts, GatewayOK
<1>3. Structures[turn] \in Structure  BY <1>1, <1>2
<1>4. turn' \in 1..Len(Structures)  BY <1>2 DEF Draw
<1>5. GatewayOK'  BY <1>4 DEF Parts, GatewayOK, Draw, economy
<1>6. pending' = pending \/ pending' = [pending EXCEPT ![Structures[turn]] = polled]
  BY DEF Draw
<1>7. CoreOK'
  <2>1. polled \in {"dark", "lit"}  BY DEF Parts, GatewayOK, Draw
  <2>2. pending' \in [Thing -> {"none", "dark", "lit"}]
    BY <1>6, <2>1 DEF Parts, CoreOK
  <2> QED BY <2>2, ApartIs DEF Parts, CoreOK, Draw
<1>8. Placed'
  <2>1. \A w \in Building : w # Structures[turn]  BY <1>3, Setting
  <2>2. \A w \in Building : pending'[w] = pending[w]
    BY <1>6, <2>1 DEF Parts, CoreOK, Thing
  <2> QED BY <2>2 DEF Parts, Placed, Draw, economy
<1>9. faults' \in 0..MaxFaults  BY FaultTyped DEF Parts, Draw
<1>10. NothingToDraw'  BY DEF NothingToDraw, Draw
<1> QED BY <1>5, <1>7, <1>8, <1>9, <1>10, Frames DEF Parts, Draw

\* What a tick broadcasts is a part of the map, and a subscriber that lags is
\* owed no more deltas than the channel holds.
LEMMA BroadcastTyped ==
    ASSUME WatcherOK, NEW d \in Deltas
    PROVE  Broadcast(d) \in Seq(Deltas) /\ Len(Broadcast(d)) <= Channel
<1>1. backlog \in Seq(Deltas) /\ Len(backlog) <= Channel /\ Channel \in Nat \ {0}
  BY Setting DEF WatcherOK
<1>2. CASE Len(backlog) < Channel
  <2>1. Broadcast(d) = Append(backlog, d)  BY <1>2 DEF Broadcast
  <2> QED BY <1>1, <1>2, <2>1
<1>3. CASE ~(Len(backlog) < Channel)
  <2>1. Broadcast(d) = Append(Tail(backlog), d)  BY <1>3 DEF Broadcast
  <2>2. backlog # << >>  BY <1>1, <1>3
  <2>3. Tail(backlog) \in Seq(Deltas) /\ Len(Tail(backlog)) = Len(backlog) - 1
    BY <1>1, <2>2
  <2> QED BY <1>1, <2>1, <2>3
<1> QED BY <1>2, <1>3

LEMMA CoreTicks == ASSUME Parts, Tick PROVE Parts'
<1> DEFINE S == {t \in Thing : pending[t] # "none"}
<1>1. PICK order \in Arrivals : map' = FoldLeft(Applied, map, order)  BY DEF Tick
<1>2. order \in Seq(Thing) /\ \A n \in DOMAIN order : order[n] \in S
  <2>1. IsFiniteSet(S)  BY FS_Subset, Setting
  <2>2. Cardinality(S) \in Nat  BY <2>1, FS_CardinalityType
  <2>3. order \in [1..Cardinality(S) -> S]  BY <1>1 DEF Arrivals, SetToSeqs
  <2>4. order \in Seq(S)  BY <2>2, <2>3, SeqDef
  <2> QED BY <2>3, <2>4
<1>3. \A n \in DOMAIN order : pending[order[n]] \in {"dark", "lit"}
  BY <1>2 DEF Parts, CoreOK
<1>4. map' \in Maps /\ Apart(map')
  BY <1>1, <1>2, <1>3, TickTrace, ApartIs DEF Parts, CoreOK
<1>5. pending' = NoIntents  BY DEF Tick
<1>6. CoreOK'  BY <1>4, <1>5, ApartIs, EmptyTyped DEF CoreOK
<1>7. Placed'
  BY <1>5 DEF Parts, Placed, Tick, economy, NoIntents, Thing
<1>8. Delta(map, map') \in Deltas
  <2> DEFINE D == {x \in Thing : map'[x] # "absent"}
  <2>1. Delta(map, map') \in [D -> Look]  BY <1>4 DEF Delta, Maps
  <2> QED BY <2>1 DEF Deltas
<1>9. WatcherOK'
  <2>1. backlog' \in Seq(Deltas) /\ Len(backlog') <= Channel
    BY <1>8, BroadcastTyped DEF Parts, WatcherOK, Tick
  <2> QED BY <2>1 DEF Parts, WatcherOK, Tick
<1> QED BY <1>6, <1>7, <1>9, Frames DEF Parts, Tick

LEMMA CoreLosesTheMap == ASSUME Parts, CoreRestarts PROVE Parts'
<1>1. map' = EmptyMap /\ pending' = NoIntents  BY DEF CoreRestarts
<1>2. CoreOK'  BY <1>1, ApartIs, EmptyTyped DEF CoreOK
<1>3. WatcherOK'  BY EmptyTyped DEF Parts, WatcherOK, CoreRestarts, Maps
<1>4. Placed'  BY <1>1 DEF Parts, Placed, CoreRestarts, economy, NoIntents, Thing
<1>5. faults' \in 0..MaxFaults  BY FaultTyped DEF Parts, CoreRestarts
<1> QED BY <1>2, <1>3, <1>4, <1>5, Frames DEF Parts, CoreRestarts

LEMMA ClientReceives == ASSUME Parts, Receive PROVE Parts'
<1> DEFINE b == backlog
           d == Head(b)
<1>1. b \in Seq(Deltas) /\ Len(b) <= Channel /\ b # << >>  BY DEF Parts, WatcherOK, Receive
<1> HIDE DEF b
<1>2. d \in Deltas /\ Tail(b) \in Seq(Deltas) /\ Len(Tail(b)) <= Channel
  <2>1. Len(Tail(b)) = Len(b) - 1 /\ Len(b) \in Nat  BY <1>1
  <2> QED BY <1>1, <2>1, Setting
<1> HIDE DEF d
<1>3. view' = [t \in Thing |-> IF t \in DOMAIN d THEN d[t] ELSE view[t]]
  BY DEF Receive, d, b
<1>4. \A t \in DOMAIN d : d[t] \in Look  BY <1>2 DEF Deltas
<1>5. view' \in [Thing -> Look]  BY <1>3, <1>4 DEF Parts, WatcherOK
<1>6. WatcherOK'  BY <1>2, <1>5 DEF Parts, WatcherOK, Receive, b
<1>7. described' = described  BY DEF Receive, economy
<1> QED BY <1>6, <1>7, Frames DEF Parts, Receive

LEMMA ClientComesAndGoes == ASSUME Parts, JoinWorld \/ StreamWorld \/ HangUp PROVE Parts'
<1>1. WatcherOK'
  BY EmptyTyped DEF Parts, WatcherOK, CoreOK, Maps, JoinWorld, StreamWorld, HangUp
<1>2. /\ UNCHANGED <<up, typo, gateway, economy, registrar>> /\ UNCHANGED core
      /\ UNCHANGED faults /\ UNCHANGED registrar /\ described' = described
  BY DEF JoinWorld, StreamWorld, HangUp, economy
<1> QED BY <1>1, <1>2, Frames DEF Parts

LEMMA ServiceFailsOrReturns ==
    ASSUME Parts, NEW a \in Address, Fails(a) \/ Returns(a) PROVE Parts'
<1>1. GatewayOK'
  BY DEF Parts, GatewayOK, Fails, Returns, economy, registrar
<1>2. faults' \in 0..MaxFaults  BY FaultTyped DEF Parts, Fails, Returns
<1>3. /\ UNCHANGED core /\ UNCHANGED watcher /\ UNCHANGED registrar
      /\ described' = described
  BY DEF Fails, Returns, economy
<1> QED BY <1>1, <1>2, <1>3, Frames DEF Parts

LEMMA PartsStep == ASSUME Parts, [MapNext]_mvars PROVE Parts'
<1>1. CASE StartGateway  BY <1>1, GatewayStarts
<1>2. CASE GatewayRestarts  BY <1>2, GatewayStops
<1>3. ASSUME NEW a \in Address, Discover(a) \/ Fails(a) \/ Returns(a) PROVE Parts'
  BY <1>3, GatewayDiscovers, ServiceFailsOrReturns
<1>4. ASSUME NEW w \in Building, Describe(w) \/ Register(w) PROVE Parts'
  BY <1>4, WorkplaceDescribes, WorkplaceRegisters
<1>5. CASE Poll  BY <1>5, StructurePolled
<1>6. CASE Draw  BY <1>6, StructureDrawn
<1>7. CASE Tick  BY <1>7, CoreTicks
<1>8. CASE CoreRestarts  BY <1>8, CoreLosesTheMap
<1>9. CASE Receive  BY <1>9, ClientReceives
<1>10. CASE JoinWorld \/ StreamWorld \/ HangUp  BY <1>10, ClientComesAndGoes
<1>11. CASE UNCHANGED mvars
  <2>1. /\ UNCHANGED <<up, typo, gateway, economy, registrar>> /\ UNCHANGED core
        /\ UNCHANGED watcher /\ UNCHANGED registrar /\ UNCHANGED faults
        /\ described' = described
    BY <1>11 DEF mvars, economy
  <2> QED BY <2>1, Frames DEF Parts
<1> QED
  BY <1>1, <1>2, <1>3, <1>4, <1>5, <1>6, <1>7, <1>8, <1>9, <1>10, <1>11 DEF MapNext

LEMMA PartsInit == MapInit => Parts
<1> SUFFICES ASSUME MapInit PROVE Parts  OBVIOUS
<1>1. GatewayOK  BY DEF MapInit, GatewayOK
<1>2. CoreOK  BY EmptyTyped, ApartIs DEF MapInit, CoreOK
<1>3. WatcherOK  BY EmptyTyped DEF MapInit, WatcherOK, Maps
<1>4. Placed  BY DEF MapInit, Placed, NoIntents, Thing
<1>5. faults \in 0..MaxFaults  BY Setting DEF MapInit
<1>6. NothingToDraw  BY DEF MapInit, NothingToDraw
<1> QED BY <1>1, <1>2, <1>3, <1>4, <1>5, <1>6 DEF Parts

\* Whatever Register, the structure registrar, a tick and their failures do, the
\* intents they queue have a place on the map and the map keeps its plots apart.
THEOREM RegistrationInv == MapSpec => []MapInv
<1>1. MapInit => MapInv  BY PartsInit, IInvParts
<1>2. MapInv /\ [MapNext]_mvars => MapInv'
  <2>1. MapInv' <=> Parts'
    BY DEF MapInv, MapTypeOK, Parts, GatewayOK, CoreOK, WatcherOK, Maps
  <2> QED BY <2>1, PartsStep, IInvParts
<1> QED BY <1>1, <1>2, PTL DEF MapSpec

\* The map, the gateway's loops and the clients' streams stay well formed, and the
\* core owes a subscriber that lags no more deltas than its channel holds.
THEOREM RegistrationTypeCorrect == MapSpec => []MapTypeOK
<1>1. MapInv => MapTypeOK  BY DEF MapInv
<1> QED BY <1>1, RegistrationInv, PTL

\* RegisterWorkplace keeps the workplaces apart whatever order the intents of a
\* tick arrive in, and only Register's configured positions ever reach it.
THEOREM NoTwoOnOnePlot == MapSpec => []OnePerPlot
<1>1. MapInv => OnePerPlot  BY DEF MapInv
<1> QED BY <1>1, RegistrationInv, PTL
=============================================================================
