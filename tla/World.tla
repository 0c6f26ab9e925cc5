------------------------------- MODULE World --------------------------------
(***************************************************************************)
(* The simulation core (sim-core/crates/sim/src/lib.rs): pips that starve, *)
(* walk, work, shop and die, the buildings they go to, and the core's      *)
(* replica of everybody's balance.                                         *)
(*                                                                         *)
(* World::step is one tick: the queued intents, then a fixed order of      *)
(* passes over the pips.  phase is the pass under way; a pass whose pips   *)
(* compete for room or money takes them one by one in index order, which   *)
(* is the order of their ids (todo holds the ones still to come).  Nothing *)
(* outside the core sees a state whose phase is not "intents".             *)
(*                                                                         *)
(* Space is a line; needs are food, the only one anything depends on; the  *)
(* seeded random choices are arbitrary ones.  A pip that does not live has *)
(* the values of a pip that never did.                                     *)
(***************************************************************************)
EXTENDS Integers, FiniteSets, FiniteSetsExt, Sums

CONSTANTS
    MaxPips,                  \* bound: pips spawned in all
    Workplace, Treasury, None,
    Width,                    \* the world is 0..Width
    Speed,                    \* WALK_SPEED_MILLI
    MinSpacing,               \* WORKPLACE_MIN_SPACING_MILLI
    NeedMax, Hungry, Meal,    \* NEED_MAX, FOOD_HUNGRY_THRESHOLD, need_effects(Food)
    Newborn,                  \* food a pip may start with
    Capacity, Price, Amount,  \* values services send
    NeedDelta,                \* food effects services send
    MaxIssued                 \* bound: money issued in all

Pip == 1..MaxPips
Account == Pip \union Workplace \union {Treasury}
Place == 0..Width
Offer == Price \union {None}  \* the price of food, if it is sold
Maybe(S) == S \union {None}

ASSUME WorldAssumption ==
    /\ MaxPips \in Nat /\ Width \in Nat /\ Speed \in Nat /\ MinSpacing \in Nat
    /\ NeedMax \in Nat /\ Hungry \in Nat /\ Meal \in Nat
    /\ Newborn \subseteq 1..NeedMax
    /\ Capacity \subseteq Nat /\ Price \subseteq Nat /\ Amount \subseteq Nat
    /\ NeedDelta \subseteq Int /\ MaxIssued \in Nat
    /\ IsFiniteSet(Workplace)

ASSUME AccountsApart ==
    /\ Pip \intersect Workplace = {}
    /\ Treasury \notin Pip \union Workplace
    /\ None \notin Workplace \union Price \union Place

VARIABLES
    phase, todo,
    next_pip_id,
    pips,                                  \* ids
    positions, destinations, activities,
    food,                                  \* needs
    employers, inside, errands,
    balances,                              \* balances, workplace_balances, treasury_balance
    built,                                 \* workplace_ids
    doors,                                 \* workplace_positions
    capacities, occupants,                 \* workplace_capacities, workplace_occupants
    sells                                  \* workplace_sells

step == <<phase, todo>>
walk == <<positions, destinations, activities>>
room == <<inside, occupants>>
job == <<employers, errands>>
population == <<next_pip_id, pips>>
buildings == <<built, doors, capacities, sells>>
vars == <<step, population, walk, food, room, job, balances, buildings>>

Activities == {"Idle", "Walking", "Working", "Eating", "Commuting"}

\* The passes of a tick in their order.
After == [bury |-> "errands", errands |-> "wander", wander |-> "commute",
          commute |-> "move", move |-> "enter", enter |-> "shop",
          shop |-> "intents"]
Phases == {"intents"} \union DOMAIN After

Clamp(n) == Max({0, Min({n, NeedMax})})

-----------------------------------------------------------------------------
(* Helpers of World. *)

\* leave_building, for the pips in S: each frees its place.
Outside(S) == [p \in Pip |-> IF p \in S THEN None ELSE inside[p]]
Vacated(p) ==
    [w \in Workplace |->
        IF inside[p] = w /\ occupants[w] > 0 THEN occupants[w] - 1 ELSE occupants[w]]
LeaveBuilding(p) ==
    /\ inside' = Outside({p})
    /\ occupants' = Vacated(p)

\* The core knows an account while its pip lives or its building stands.
Known(a) == a \in pips \union built \union {Treasury}

\* adjust_balance twice: the payer's loss is the payee's gain.
Moved(payer, payee, amount) ==
    [a \in Account |-> balances[a] + (IF a = payee THEN amount ELSE 0)
                                   - (IF a = payer THEN amount ELSE 0)]

\* consume, one unit of food.
Fed(p) == [food EXCEPT ![p] = Clamp(@ + Meal)]

Distance(x, y) == IF x > y THEN x - y ELSE y - x

StepTowards(x, y) ==
    IF y > x THEN Min({x + Speed, y}) ELSE Max({x - Speed, y})

-----------------------------------------------------------------------------
(* apply_intents, one action per intent that has an effect. *)

Spawn(at, start) ==
    /\ phase = "intents" /\ next_pip_id <= MaxPips
    /\ next_pip_id' = next_pip_id + 1
    /\ pips' = pips \union {next_pip_id}
    /\ positions' = [positions EXCEPT ![next_pip_id] = at]
    /\ food' = [food EXCEPT ![next_pip_id] = start]
    /\ UNCHANGED <<step, destinations, activities, room, job, balances, buildings>>

Move(p, to) ==
    /\ phase = "intents" /\ p \in pips
    /\ destinations' = [destinations EXCEPT ![p] = to]
    /\ activities' = [activities EXCEPT ![p] = "Walking"]
    /\ UNCHANGED <<step, population, positions, food, room, job, balances, buildings>>

\* Hires without taking the pip out of the building it is in.
HireInPlace(p, w) ==
    /\ phase = "intents" /\ p \in pips
    /\ employers' = [employers EXCEPT ![p] = w]
    /\ UNCHANGED <<step, population, walk, food, room, errands, balances, buildings>>

Hire(p, w) ==
    /\ phase = "intents" /\ p \in pips
    /\ IF employers[p] # w THEN LeaveBuilding(p) ELSE UNCHANGED <<inside, occupants>>
    /\ employers' = [employers EXCEPT ![p] = w]
    /\ UNCHANGED <<step, population, walk, food, errands, balances, buildings>>

EndEmployment(p) ==
    /\ phase = "intents" /\ p \in pips
    /\ LeaveBuilding(p)
    /\ employers' = [employers EXCEPT ![p] = None]
    /\ destinations' = [destinations EXCEPT ![p] = None]
    /\ activities' = [activities EXCEPT ![p] = "Idle"]
    /\ UNCHANGED <<step, population, positions, food, errands, balances, buildings>>

\* Off the map, or too close to another building: refused.
RegisterWorkplace(w, at, capacity, offer) ==
    /\ phase = "intents"
    /\ at \in Place
    /\ \A o \in built \ {w} : Distance(at, doors[o]) >= MinSpacing
    /\ built' = built \union {w}
    /\ doors' = [doors EXCEPT ![w] = at]
    /\ capacities' = [capacities EXCEPT ![w] = capacity]
    /\ sells' = [sells EXCEPT ![w] = offer]
    /\ UNCHANGED <<step, population, walk, food, room, job, balances>>

\* Trusts the workplace's number.
ApplyNeedsUnclamped(p, delta) ==
    /\ phase = "intents" /\ p \in pips
    /\ food' = [food EXCEPT ![p] = @ + delta]
    /\ UNCHANGED <<step, population, walk, room, job, balances, buildings>>

ApplyNeeds(p, delta) ==
    /\ phase = "intents" /\ p \in pips
    /\ food' = [food EXCEPT ![p] = Clamp(@ + delta)]
    /\ UNCHANGED <<step, population, walk, room, job, balances, buildings>>

\* A transfer is covered by the payer's balance, unless it issues money.
Covered(payer, amount, kind) ==
    \/ payer = Treasury /\ kind = "Issuance"
    \/ balances[payer] >= amount

Transfer(payer, payee, amount, kind) ==
    /\ phase = "intents"
    /\ Known(payer) /\ Known(payee)
    /\ Covered(payer, amount, kind)
    /\ payer = Treasury => amount - balances[Treasury] <= MaxIssued
    /\ balances' = Moved(payer, payee, amount)
    /\ UNCHANGED <<step, population, walk, food, room, job, buildings>>

\* A Transfer that names a resource: the pip must be inside the seller.
Buy(p, w, amount) ==
    /\ phase = "intents" /\ p \in pips /\ w \in built
    /\ Covered(p, amount, "Purchase")
    /\ inside[p] = w
    /\ balances' = Moved(p, w, amount)
    /\ food' = Fed(p)
    /\ UNCHANGED <<step, population, walk, room, job, buildings>>

\* Payroll.  Only the living are paid, and the payer pays only for them.
CreditBalances(w, credits) ==
    LET payable == DOMAIN credits \intersect pips
        total == SumOver(credits, payable)
    IN  /\ phase = "intents" /\ w \in built
        /\ balances[w] >= total
        /\ balances' = [a \in Account |->
                          CASE a = w -> balances[a] - total
                            [] a \in payable -> balances[a] + credits[a]
                            [] OTHER -> balances[a]]
        /\ UNCHANGED <<step, population, walk, food, room, job, buildings>>

-----------------------------------------------------------------------------
(* The passes. *)

\* A pass is over when it has taken every pip; the next one starts with all.
NextPass ==
    /\ phase \in {"bury", "errands", "enter", "shop"} /\ todo = {}
    /\ phase' = After[phase]
    /\ todo' = IF phase = "shop" THEN {} ELSE pips
    /\ UNCHANGED <<population, walk, food, room, job, balances, buildings>>

Goes(p) == todo' = todo \ {p} /\ UNCHANGED phase

\* decay_needs: everybody gets hungrier, whoever is at zero dies.
DecayNeeds ==
    LET left(p) == food[p] - (IF activities[p] = "Working" THEN 2 ELSE 1) IN
    /\ phase = "intents"
    /\ phase' = "bury"
    /\ food' = [p \in Pip |-> IF p \in pips THEN left(p) ELSE food[p]]
    /\ todo' = {p \in pips : left(p) <= 0}
    /\ UNCHANGED <<population, walk, room, job, balances, buildings>>

\* remove_at, back to front.  What it resets on every removal.
Forget(p) ==
    /\ pips' = pips \ {p}
    /\ positions' = [positions EXCEPT ![p] = 0]
    /\ destinations' = [destinations EXCEPT ![p] = None]
    /\ activities' = [activities EXCEPT ![p] = "Idle"]
    /\ food' = [food EXCEPT ![p] = 0]
    /\ employers' = [employers EXCEPT ![p] = None]
    /\ errands' = [errands EXCEPT ![p] = None]

\* The purse is dropped with the pip.
BuryWithPurse(p) ==
    /\ phase = "bury" /\ todo # {} /\ p = Max(todo)
    /\ Goes(p)
    /\ LeaveBuilding(p)
    /\ Forget(p)
    /\ balances' = [balances EXCEPT ![p] = 0]
    /\ UNCHANGED <<next_pip_id, buildings>>

\* The arrays shift before the building is told.
BuryInside(p) ==
    /\ phase = "bury" /\ todo # {} /\ p = Max(todo)
    /\ Goes(p)
    /\ inside' = Outside({p})
    /\ Forget(p)
    /\ balances' = Moved(p, Treasury, balances[p])
    /\ UNCHANGED <<next_pip_id, occupants, buildings>>

Bury(p) ==
    /\ phase = "bury" /\ todo # {} /\ p = Max(todo)
    /\ Goes(p)
    /\ LeaveBuilding(p)
    /\ Forget(p)
    /\ balances' = Moved(p, Treasury, balances[p])
    /\ UNCHANGED <<next_pip_id, buildings>>

\* best_offer: cheapest, then nearest; which of several such is arbitrary.
Affordable(p) == {w \in built : sells[w] # None /\ sells[w] <= balances[p]}
BestOffers(p) ==
    {w \in Affordable(p) : \A o \in Affordable(p) :
        \/ sells[w] < sells[o]
        \/ /\ sells[w] = sells[o]
           /\ Distance(doors[w], positions[p]) <= Distance(doors[o], positions[p])}

\* decide_errands for one pip: done when fed, otherwise it keeps the errand
\* it has, or leaves for the best offer if there is one.
DecideErrand(p) ==
    /\ phase = "errands" /\ todo # {} /\ p = Min(todo)
    /\ Goes(p)
    /\ \/ /\ food[p] > Hungry
          /\ errands' = [errands EXCEPT ![p] = None]
          /\ UNCHANGED <<inside, occupants>>
       \/ /\ food[p] <= Hungry
          /\ errands[p] # None \/ BestOffers(p) = {}
          /\ UNCHANGED <<errands, inside, occupants>>
       \/ /\ food[p] <= Hungry /\ errands[p] = None
          /\ \E w \in BestOffers(p) : errands' = [errands EXCEPT ![p] = w]
          /\ LeaveBuilding(p)
    /\ UNCHANGED <<population, walk, food, employers, balances, buildings>>

\* The idle and unemployed may set off for anywhere.
Wander ==
    /\ phase = "wander"
    /\ phase' = After[phase]
    /\ \E S \in SUBSET {p \in pips : activities[p] = "Idle" /\ employers[p] = None} :
          /\ \E to \in [S -> Place] :
                destinations' = [p \in Pip |-> IF p \in S THEN to[p] ELSE destinations[p]]
          /\ activities' = [p \in Pip |-> IF p \in S THEN "Walking" ELSE activities[p]]
    /\ UNCHANGED <<todo, population, positions, food, room, job, balances, buildings>>

\* Where a pip outside is bound for: an errand outranks the job.
Bound(p) == IF errands[p] # None THEN errands[p] ELSE employers[p]
Commuters == {p \in pips : inside[p] = None /\ Bound(p) \in built}

Commute ==
    /\ phase = "commute"
    /\ phase' = After[phase]
    /\ activities' = [p \in Pip |->
          IF p \notin Commuters THEN activities[p]
          ELSE IF errands[p] # None THEN "Walking" ELSE "Commuting"]
    /\ destinations' = [p \in Pip |->
          IF p \notin Commuters THEN destinations[p]
          ELSE IF positions[p] = doors[Bound(p)] THEN None ELSE doors[Bound(p)]]
    /\ UNCHANGED <<todo, population, positions, food, room, job, balances, buildings>>

MoveWalkers ==
    LET going == {p \in pips : destinations[p] # None}
        there(p) == StepTowards(positions[p], destinations[p])
        arrived == {p \in going : there(p) = destinations[p]}
    IN  /\ phase = "move"
        /\ phase' = After[phase]
        /\ positions' = [p \in Pip |-> IF p \in going THEN there(p) ELSE positions[p]]
        /\ destinations' = [p \in Pip |->
                              IF p \in arrived THEN None ELSE destinations[p]]
        /\ activities' = [p \in Pip |->
              IF p \in arrived /\ activities[p] = "Walking" THEN "Idle"
                                                           ELSE activities[p]]
        /\ UNCHANGED <<todo, population, food, room, job, balances, buildings>>

\* Lets one more in than fit.
AtAnyDoor(p) ==
    /\ inside[p] = None /\ Bound(p) \in built
    /\ positions[p] = doors[Bound(p)]
    /\ occupants[Bound(p)] <= capacities[Bound(p)]

\* A pip at its door, with room behind it, goes in.
AtOpenDoor(p) ==
    /\ inside[p] = None /\ Bound(p) \in built
    /\ positions[p] = doors[Bound(p)]
    /\ occupants[Bound(p)] < capacities[Bound(p)]

\* enter_workplaces for one pip, as a customer or as a worker.
Enter(p) ==
    /\ phase = "enter" /\ todo # {} /\ p = Min(todo)
    /\ Goes(p)
    /\ \/ /\ AtOpenDoor(p)
          /\ occupants' = [occupants EXCEPT ![Bound(p)] = @ + 1]
          /\ inside' = [inside EXCEPT ![p] = Bound(p)]
          /\ destinations' = [destinations EXCEPT ![p] = None]
          /\ activities' = [activities EXCEPT ![p] =
                              IF errands[p] # None THEN "Eating" ELSE "Working"]
       \/ /\ ~AtOpenDoor(p)
          /\ UNCHANGED <<room, destinations, activities>>
    /\ UNCHANGED <<population, positions, food, job, balances, buildings>>

\* The till does not look into the purse.
ChargedBlindly(p, w) ==
    IF sells[w] # None
    THEN /\ balances' = Moved(p, w, sells[w])
         /\ food' = Fed(p)
    ELSE UNCHANGED <<balances, food>>

\* What the pip came for, if it is still sold and the pip can still pay.
Charged(p, w) ==
    IF sells[w] # None /\ balances[p] >= sells[w]
    THEN /\ balances' = Moved(p, w, sells[w])
         /\ food' = Fed(p)
    ELSE UNCHANGED <<balances, food>>

\* shop for one pip: inside the shop it walked to, it buys and goes.
Shop(p) ==
    /\ phase = "shop" /\ todo # {} /\ p = Min(todo)
    /\ Goes(p)
    /\ \/ /\ errands[p] # None /\ inside[p] = errands[p]
          /\ Charged(p, errands[p])
          /\ errands' = [errands EXCEPT ![p] = None]
          /\ LeaveBuilding(p)
          /\ activities' = [activities EXCEPT ![p] = "Idle"]
       \/ /\ errands[p] = None \/ inside[p] # errands[p]
          /\ UNCHANGED <<balances, food, errands, inside, occupants, activities>>
    /\ UNCHANGED <<population, positions, destinations, employers, buildings>>

-----------------------------------------------------------------------------
Init ==
    /\ phase = "intents" /\ todo = {}
    /\ next_pip_id = 1 /\ pips = {}
    /\ positions = [p \in Pip |-> 0]
    /\ destinations = [p \in Pip |-> None]
    /\ activities = [p \in Pip |-> "Idle"]
    /\ food = [p \in Pip |-> 0]
    /\ employers = [p \in Pip |-> None]
    /\ inside = [p \in Pip |-> None]
    /\ errands = [p \in Pip |-> None]
    /\ balances = [a \in Account |-> 0]
    /\ built = {}
    /\ doors = [w \in Workplace |-> 0]
    /\ capacities = [w \in Workplace |-> 0]
    /\ occupants = [w \in Workplace |-> 0]
    /\ sells = [w \in Workplace |-> None]

Intents ==
    \/ \E at \in Place, start \in Newborn : Spawn(at, start)
    \/ \E p \in Pip :
          \/ \E to \in Place : Move(p, to)
          \/ \E w \in Workplace : Hire(p, w)
          \/ EndEmployment(p)
          \/ \E delta \in NeedDelta : ApplyNeeds(p, delta)
          \/ \E w \in Workplace, amount \in Amount : Buy(p, w, amount)
    \/ \E w \in Workplace, at \in Place, capacity \in Capacity, offer \in Offer :
          RegisterWorkplace(w, at, capacity, offer)
    \/ \E payer, payee \in Account, amount \in Amount, kind \in {"Issuance", "Wage"} :
          Transfer(payer, payee, amount, kind)
    \/ \E w \in Workplace, S \in SUBSET Pip, amount \in Amount :
          CreditBalances(w, [p \in S |-> amount])

Passes ==
    \/ NextPass
    \/ DecayNeeds
    \/ \E p \in Pip : Bury(p) \/ DecideErrand(p) \/ Enter(p) \/ Shop(p)
    \/ Wander
    \/ Commute
    \/ MoveWalkers

Next == Intents \/ Passes

Spec == Init /\ [][Next]_vars

-----------------------------------------------------------------------------
(* Properties. *)

\* Every variable keeps its type.  Food stays in range (a pip that starved in
\* this tick is waiting for burial), whatever effect a workplace reports.
TypeOK ==
    /\ phase \in Phases /\ todo \in SUBSET pips
    /\ next_pip_id \in 1..(MaxPips + 1)
    /\ pips \in SUBSET Pip /\ \A p \in pips : p < next_pip_id
    /\ positions \in [Pip -> Place]
    /\ destinations \in [Pip -> Maybe(Place)]
    /\ activities \in [Pip -> Activities]
    /\ food \in [Pip -> (-2)..NeedMax]
    /\ employers \in [Pip -> Maybe(Workplace)]
    /\ inside \in [Pip -> Maybe(Workplace)]
    /\ errands \in [Pip -> Maybe(Workplace)]
    /\ balances \in [Account -> Int]
    /\ built \in SUBSET Workplace
    /\ doors \in [Workplace -> Place]
    /\ capacities \in [Workplace -> Nat]
    /\ occupants \in [Workplace -> Nat]
    /\ sells \in [Workplace -> Offer]

\* The money supply of the replica is closed: what the treasury owes is what
\* everybody else holds, through wages, purchases and deaths (remove_at,
\* CreditBalances, shop).
SupplyClosed == SumOf(balances) = 0

\* workplace_occupants is a cached count: it always equals the number of pips
\* inside, through hires elsewhere, errands, deaths and shopping.
OccupantsCounted ==
    \A w \in Workplace : occupants[w] = Cardinality({p \in Pip : inside[p] = w})

\* Only the living are inside, and only where they are employed or shopping;
\* between ticks everyone inside works there and has no errand to run.
InsideForAReason ==
    \A p \in Pip : inside[p] # None =>
        /\ p \in pips
        /\ inside[p] \in {employers[p], errands[p]}
        /\ phase = "intents" => inside[p] = employers[p] /\ errands[p] = None

\* Apart from the treasury nobody owes money, although every purchase and
\* wage is settled by the replica alone (Transfer, CreditBalances, shop).
PursesNeverNegative == \A a \in Account \ {Treasury} : balances[a] >= 0

\* A building admits nobody beyond its capacity.  It may be over-full only
\* because it shrank, and then it only drains (enter_workplaces).
NobodySqueezesIn ==
    [][\A w \in Workplace : occupants'[w] > occupants[w] =>
                                occupants'[w] <= capacities'[w]]_vars
=============================================================================
