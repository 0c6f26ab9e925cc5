-------------------------------- MODULE Money -------------------------------
(***************************************************************************)
(* The two books of the economy.  The bank keeps every balance; the        *)
(* simulation core keeps a replica that a tick can ask without a call.     *)
(* Wages and endowments are decided by the bank and mirrored to the core   *)
(* by intents (gateway, payroll.go); purchases and deaths are decided by   *)
(* the core and reach the bank as facts on two Kafka topics (bankapi,      *)
(* purchases.go and escheat.go).                                           *)
(*                                                                         *)
(* The bank's books are those of its Postgres ledger: a call is answered   *)
(* from its key when it is repeated, a fact is booked whenever it is       *)
(* delivered.  There is one workplace; who is inside it, and who dies, is  *)
(* arbitrary.  Each topic is its uncommitted part: the facts the           *)
(* consumer's next commit can cover.  A fault is a call or its answer      *)
(* lost, a fact that is not delivered, a booking or a commit that fails, a *)
(* core that restarts; a restart of the bank is not counted.               *)
(***************************************************************************)
EXTENDS Integers, Sequences, SequencesExt, FiniteSets, Sums

CONSTANTS
    Pip, Farm, Treasury,
    Price,            \* foodPrice
    Capital,          \* WORKPLACE_CAPITAL
    MaxTicksPerWork,  \* ticks one Work call is paid for at most, one coin each
    Idle,             \* nothing under way
    MaxTick,          \* bound: ticks of all worlds together
    MaxQueue,         \* bound: intents waiting, facts in a topic
    MaxFaults         \* bound: faults in all

Account == Pip \union {Farm, Treasury}
Topic == {"lifecycle", "purchases"}

\* A tick's wages; what an intent may ask for; a fact; the calls under way.
Wages == UNION {[S -> 1..MaxTicksPerWork] : S \in SUBSET Pip}
Intent == [op : {"credit"}, credits : Wages] \union [op : {"issue"}, amount : Nat]
            \union [op : {"buy"}, pip : Pip] \union [op : {"register"}]
Fact == [topic : Topic, pip : Pip, tick : Nat, done : BOOLEAN]
Stage == {"bank", "mirror"}
Payroll == [stage : Stage, tick : Nat, credits : Wages]
Endowment == [stage : Stage, tick : Nat, amount : Nat]
Inheritance == [pip : Pip, tick : Nat, amount : Nat \ {0}]

ASSUME MoneyAssumption ==
    /\ IsFiniteSet(Pip) /\ Farm \notin Pip /\ Treasury \notin Pip \union {Farm}
    /\ Price \in Nat \ {0} /\ Capital \in Nat /\ MaxTicksPerWork \in Nat
    /\ MaxTick \in Nat /\ MaxQueue \in Nat \ {0} /\ MaxFaults \in Nat
    /\ Idle \notin Payroll \union Endowment \union Inheritance

VARIABLES
    tick, alive, built, replica,  \* the core: its clock, pips, building, balances
    intents,                      \* intents waiting for the next tick
    outbox,                       \* facts of the last tick still to be published
    log, ahead,                   \* topic -> uncommitted facts; how many were fetched
    balance, keys,                \* the bank: balances, idempotency keys
    worked,                       \* the farm: pip -> tick it was last paid up to
    payroll, endowment, escheat,  \* calls under way: gateway, gateway, bank
    lived,                        \* history: ticks of the worlds before this one
    faults,                       \* history: how many
    twice,                        \* history: pip -> what purchases booked again cost it
    upsets                        \* history: what keeps the books apart

core == <<tick, alive, built, replica, lived>>
kafka == <<log, ahead>>
bank == <<balance, keys, twice>>
calls == <<payroll, endowment, escheat>>
vars == <<core, intents, outbox, kafka, bank, worked, calls, faults, upsets>>

-----------------------------------------------------------------------------
(* Books: the core's and the bank's alike. *)

\* What a book shows once payer has paid the credits.
Paid(book, payer, credits) ==
    [a \in Account |-> book[a] + (IF a \in DOMAIN credits THEN credits[a] ELSE 0)
                               - (IF a = payer THEN SumOf(credits) ELSE 0)]

One(payee, amount) == [a \in {payee} |-> amount]

\* Transfer and BatchTransfer of the ledger: what the call answers.
Answer(key, payer, credits) ==
    IF key \in keys THEN "replayed"
    ELSE IF payer = Treasury \/ balance[payer] >= SumOf(credits) THEN "paid"
    ELSE "refused"

\* ... and does: only a new key with funds behind it moves money.
Move(key, payer, credits) ==
    IF Answer(key, payer, credits) = "paid"
    THEN /\ balance' = Paid(balance, payer, credits)
         /\ keys' = keys \union {key}
         /\ UNCHANGED twice
    ELSE UNCHANGED bank

Fault == faults < MaxFaults /\ faults' = faults + 1
NoFault == UNCHANGED faults

Upset(S) == upsets' = upsets \union S
NoUpset == UNCHANGED upsets

-----------------------------------------------------------------------------
(* The core.  During a tick the world is a record: balances, pips, whether *)
(* the farm stands, facts, upsets.                                         *)

Purchase(p) == [topic |-> "purchases", pip |-> p, tick |-> tick + 1, done |-> FALSE]
Death(p) == [topic |-> "lifecycle", pip |-> p, tick |-> tick + 1, done |-> FALSE]

\* One pip buys a meal: the core gates it on its own books.
Sale(w, p) ==
    IF w.built /\ p \in w.alive /\ w.book[p] >= Price
    THEN [w EXCEPT !.book = Paid(@, p, One(Farm, Price)),
                   !.facts = Append(@, Purchase(p))]
    ELSE w

\* Charges the payer for the whole list, the dead included.
CreditedWholeList(w, credits) ==
    LET payable == [p \in DOMAIN credits \intersect w.alive |-> credits[p]]
    IN  IF w.built /\ w.book[Farm] >= SumOf(credits)
        THEN [w EXCEPT !.book = [Paid(@, Farm, payable) EXCEPT ![Farm] =
                                    w.book[Farm] - SumOf(credits)],
                       !.upsets = @ \union
                           IF payable = credits THEN {} ELSE {"late_wage"}]
        ELSE [w EXCEPT !.upsets = @ \union {"credit_refused"}]

\* CreditBalances: only pips that still exist are paid, and only for them is
\* the payer charged; a payer that cannot cover it pays nobody.
Credited(w, credits) ==
    LET payable == [p \in DOMAIN credits \intersect w.alive |-> credits[p]]
    IN  IF w.built /\ w.book[Farm] >= SumOf(payable)
        THEN [w EXCEPT !.book = Paid(@, Farm, payable),
                       !.upsets = @ \union
                           IF payable = credits THEN {} ELSE {"late_wage"}]
        ELSE [w EXCEPT !.upsets = @ \union {"credit_refused"}]

\* Transfer with kind ISSUANCE: the treasury may run negative.
Issued(w, amount) ==
    IF w.built THEN [w EXCEPT !.book = Paid(@, Treasury, One(Farm, amount))] ELSE w

\* apply_intents; here are the pips inside the farm.
Apply(w, i, here) ==
    CASE i.op = "credit" -> Credited(w, i.credits)
      [] i.op = "issue" -> Issued(w, i.amount)
      [] i.op = "buy" -> IF i.pip \in here THEN Sale(w, i.pip) ELSE w
      [] i.op = "register" -> [w EXCEPT !.built = TRUE]

\* decay_needs and remove_at: the purse goes back to the treasury.
Buried(w, p) ==
    [w EXCEPT !.book = Paid(@, p, One(Treasury, w.book[p])),
              !.alive = @ \ {p}, !.facts = Append(@, Death(p))]

\* World::step: the waiting intents, the deaths, the errands.  The next tick
\* waits until every fact of this one was published or given up.
Tick(here, dying, hungry) ==
    /\ lived + tick < MaxTick /\ outbox = <<>>
    /\ LET w0 == [book |-> replica, alive |-> alive, built |-> built,
                  facts |-> <<>>, upsets |-> upsets]
           w1 == FoldLeft(LAMBDA w, i : Apply(w, i, here), w0, intents)
           w2 == FoldLeft(Buried, w1, SetToSeq(dying))
           w3 == FoldLeft(Sale, w2, SetToSeq(hungry))
       IN  /\ replica' = w3.book /\ alive' = w3.alive /\ built' = w3.built
           /\ outbox' = w3.facts /\ upsets' = w3.upsets
    /\ tick' = tick + 1
    /\ intents' = <<>>
    /\ UNCHANGED <<lived, kafka, bank, worked, calls, faults>>

\* events::publish, one fact: appended to its topic, or given up after a while.
Publish ==
    /\ outbox # <<>>
    /\ outbox' = Tail(outbox)
    /\ LET f == Head(outbox)
       IN  \/ /\ Len(log[f.topic]) < MaxQueue
              /\ log' = [log EXCEPT ![f.topic] = Append(@, f)]
              /\ NoFault /\ NoUpset
           \/ Fault /\ Upset({"lost"}) /\ UNCHANGED log
    /\ UNCHANGED <<core, intents, ahead, bank, worked, calls>>

\* The core restarts: a fresh world, the same pip ids, ticks from zero, and
\* nothing of what was queued or about to be published.
CoreRestarts ==
    /\ Fault /\ Upset({"restart"})
    /\ tick' = 0 /\ alive' = Pip /\ built' = FALSE /\ lived' = lived + tick
    /\ replica' = [a \in Account |-> 0]
    /\ intents' = <<>> /\ outbox' = <<>>
    /\ UNCHANGED <<kafka, bank, worked, calls>>

-----------------------------------------------------------------------------
(* The gateway. *)

\* SubmitIntent: queued, or lost; an answer alone that is lost changes nothing.
Submit(i) ==
    \/ /\ Len(intents) < MaxQueue
       /\ intents' = Append(intents, i)
       /\ NoFault /\ NoUpset
    \/ /\ Fault /\ UNCHANGED intents
       /\ IF i.op = "buy" THEN NoUpset ELSE Upset({"lost"})

\* KeepRegistered puts the farm back on the map.
Register ==
    /\ ~built
    /\ intents = <<>>
    /\ intents' = <<[op |-> "register"]>>
    /\ UNCHANGED <<core, outbox, kafka, bank, worked, calls, faults, upsets>>

\* Ticks a Work call is paid for (touch).
Elapsed(p) ==
    IF tick > worked[p] THEN Min({tick - worked[p], MaxTicksPerWork}) ELSE 0

\* cycle: a snapshot, a Work call for every pip in S, the others are not
\* reached or not inside; what they are owed is collected.
Cycle(S) ==
    /\ payroll = Idle
    /\ worked' = [p \in Pip |-> IF p \in S THEN tick ELSE worked[p]]
    /\ LET owed == {p \in S : Elapsed(p) > 0}
       IN  payroll' = IF owed = {} THEN Idle
                      ELSE [stage |-> "bank", tick |-> tick,
                            credits |-> [p \in owed |-> Elapsed(p)]]
    /\ UNCHANGED <<core, intents, outbox, kafka, bank, endowment, escheat, faults, upsets>>

\* Does not look at what the bank answered.
PayWagesRegardless ==
    /\ payroll # Idle /\ payroll.stage = "bank"
    /\ \/ /\ Move(<<Farm, "batch", payroll.tick, "WAGE">>, Farm, payroll.credits)
          /\ NoFault /\ NoUpset
       \/ Fault /\ Upset({"lost"}) /\ UNCHANGED bank
    /\ payroll' = [payroll EXCEPT !.stage = "mirror"]
    /\ UNCHANGED <<core, intents, outbox, kafka, worked, endowment, escheat>>

\* payWages, first half: one BatchTransfer.  Rejected or failed, it is over,
\* and a failed call may have moved the money.
PayWages ==
    /\ payroll # Idle /\ payroll.stage = "bank"
    /\ LET key == <<Farm, "batch", payroll.tick, "WAGE">>
           credits == payroll.credits
           answer == Answer(key, Farm, credits)
       IN  \/ /\ answer = "refused"
              /\ payroll' = Idle
              /\ NoFault /\ NoUpset /\ UNCHANGED bank
           \/ /\ answer # "refused"
              /\ Move(key, Farm, credits)
              /\ payroll' = [payroll EXCEPT !.stage = "mirror"]
              /\ NoFault
              /\ IF answer = "replayed" THEN Upset({"replayed"}) ELSE NoUpset
           \/ /\ Fault /\ Upset({"lost"})
              /\ payroll' = Idle
              /\ Move(key, Farm, credits) \/ UNCHANGED bank
    /\ UNCHANGED <<core, intents, outbox, kafka, worked, endowment, escheat>>

\* payWages, second half: the replica is told, once.
MirrorWages ==
    /\ payroll # Idle /\ payroll.stage = "mirror"
    /\ Submit([op |-> "credit", credits |-> payroll.credits])
    /\ payroll' = Idle
    /\ UNCHANGED <<core, outbox, kafka, bank, worked, endowment, escheat>>

\* endowmentFor: top up to the capital once less than half of it is left.
EndowmentFor(held) == IF held >= Capital \div 2 THEN 0 ELSE Capital - held

\* Endow reads the world's tick and the farm's balance...
Endow ==
    /\ endowment = Idle
    /\ EndowmentFor(balance[Farm]) # 0
    /\ endowment' = [stage |-> "bank", tick |-> tick,
                     amount |-> EndowmentFor(balance[Farm])]
    /\ UNCHANGED <<core, intents, outbox, kafka, bank, worked, payroll, escheat, faults, upsets>>

\* ... issues the difference at the bank...
IssueEndowment ==
    /\ endowment # Idle /\ endowment.stage = "bank"
    /\ LET key == <<Treasury, Farm, endowment.tick, "ISSUANCE">>
           credits == One(Farm, endowment.amount)
       IN  \/ /\ Move(key, Treasury, credits)
              /\ endowment' = [endowment EXCEPT !.stage = "mirror"]
              /\ NoFault
              /\ IF key \in keys THEN Upset({"replayed"}) ELSE NoUpset
           \/ /\ Fault /\ Upset({"lost"})
              /\ endowment' = Idle
              /\ Move(key, Treasury, credits) \/ UNCHANGED bank
    /\ UNCHANGED <<core, intents, outbox, kafka, worked, payroll, escheat>>

\* ... and tells the core the same amount.
MirrorEndowment ==
    /\ endowment # Idle /\ endowment.stage = "mirror"
    /\ Submit([op |-> "issue", amount |-> endowment.amount])
    /\ endowment' = Idle
    /\ UNCHANGED <<core, outbox, kafka, bank, worked, payroll, escheat>>

\* Fleet.Buy: a player buys for a pip whose purse looked deep enough.
Buy(p) ==
    /\ p \in alive /\ replica[p] >= Price
    /\ Submit([op |-> "buy", pip |-> p])
    /\ UNCHANGED <<core, outbox, kafka, bank, worked, calls>>

PlayerBuys == \E p \in Pip : Buy(p)

-----------------------------------------------------------------------------
(* The bank's two consumers.  A fact that was handled is committed, and the *)
(* commit covers everything fetched before it; a fact that could not be     *)
(* handled is passed over, uncommitted.                                     *)

Waiting(t) == ahead[t] < Len(log[t])
NextFact(t) == log[t][ahead[t] + 1]

\* The facts a commit gives up: fetched earlier and never handled.
PassedOver(t) == {n \in 1..ahead[t] : ~log[t][n].done}

\* Forgets that the committed facts are gone.
CommitInPlace(t) ==
    /\ log' = [log EXCEPT ![t] = SubSeq(@, ahead[t] + 2, Len(@))]
    /\ ahead' = ahead

Commit(t) ==
    /\ log' = [log EXCEPT ![t] = SubSeq(@, ahead[t] + 2, Len(@))]
    /\ ahead' = [ahead EXCEPT ![t] = 0]

\* Commits before it handles.
SkipCommitted(t, done) == Commit(t)

\* The offset stays where it was: not handled, or the commit failed.
Skip(t, done) ==
    /\ log' = [log EXCEPT ![t][ahead[t] + 1].done = @ \/ done]
    /\ ahead' = [ahead EXCEPT ![t] = @ + 1]

\* A handled fact is committed, unless that fails.
Finish(t, odd) ==
    \/ /\ Commit(t)
       /\ NoFault
       /\ Upset(odd \union IF PassedOver(t) = {} THEN {} ELSE {"passed_over"})
    \/ Skip(t, TRUE) /\ Fault /\ Upset(odd)

\* Post books what the core decided, funds or not, and again when the fact is
\* delivered again: no row of the journal conflicts with the first booking's.
Post(f) ==
    /\ balance' = Paid(balance, f.pip, One(Farm, Price))
    /\ twice' = [twice EXCEPT ![f.pip] = IF f.done THEN @ + Price ELSE @]
    /\ UNCHANGED keys

\* The estate went to the treasury before the bank heard of the purchase: the
\* account is below zero by more than was booked twice.
Overtaken(f) == IF balance'[f.pip] + twice'[f.pip] < 0 THEN {"overtaken"} ELSE {}

BookPurchase ==
    /\ Waiting("purchases")
    /\ Post(NextFact("purchases"))
    /\ Finish("purchases", Overtaken(NextFact("purchases")))
    /\ UNCHANGED <<core, intents, outbox, worked, calls>>

\* Escheat looks the purse up: an empty one needs nothing...
EscheatNothing ==
    /\ escheat = Idle /\ Waiting("lifecycle")
    /\ balance[NextFact("lifecycle").pip] <= 0
    /\ Finish("lifecycle", {})
    /\ UNCHANGED <<core, intents, outbox, bank, worked, calls>>

EscheatReads ==
    /\ escheat = Idle /\ Waiting("lifecycle")
    /\ LET f == NextFact("lifecycle")
       IN  /\ balance[f.pip] > 0
           /\ escheat' = [pip |-> f.pip, tick |-> f.tick, amount |-> balance[f.pip]]
    /\ UNCHANGED <<core, intents, outbox, kafka, bank, worked, payroll, endowment, faults, upsets>>

EscheatKey == <<escheat.pip, Treasury, escheat.tick, "ESCHEAT">>
Estate == One(Treasury, escheat.amount)

\* ... and transfers what it saw; a refusal is logged and left at that.
EscheatTransfers ==
    /\ escheat # Idle
    /\ Move(EscheatKey, escheat.pip, Estate)
    /\ Finish("lifecycle", IF Answer(EscheatKey, escheat.pip, Estate) = "paid"
                           THEN {} ELSE {"escheat_refused"})
    /\ escheat' = Idle
    /\ UNCHANGED <<core, intents, outbox, worked, payroll, endowment>>

\* A ledger call that fails, before or after it did its part: the consumer
\* goes on to the next fact.
HandlingFails(t) ==
    /\ Waiting(t) /\ Fault
    /\ \/ Skip(t, FALSE) /\ UNCHANGED bank /\ NoUpset
       \/ /\ t = "purchases"
          /\ Post(NextFact(t))
          /\ Skip(t, TRUE) /\ Upset(Overtaken(NextFact(t)))
       \/ /\ t = "lifecycle" /\ escheat # Idle
          /\ Answer(EscheatKey, escheat.pip, Estate) = "paid"
          /\ Move(EscheatKey, escheat.pip, Estate)
          /\ Skip(t, TRUE) /\ NoUpset
    /\ escheat' = IF t = "lifecycle" THEN Idle ELSE escheat
    /\ UNCHANGED <<core, intents, outbox, worked, payroll, endowment>>

\* The bank restarts: both consumers go back to their committed offsets.
BankRestarts ==
    /\ NoFault /\ NoUpset
    /\ ahead' = [t \in Topic |-> 0]
    /\ escheat' = Idle
    /\ UNCHANGED <<core, intents, outbox, log, bank, worked, payroll, endowment>>

-----------------------------------------------------------------------------
Init ==
    /\ tick = 0 /\ alive = Pip /\ built = TRUE
    /\ replica = [a \in Account |-> 0] /\ balance = replica
    /\ intents = <<>> /\ outbox = <<>>
    /\ log = [t \in Topic |-> <<>>] /\ ahead = [t \in Topic |-> 0]
    /\ keys = {} /\ twice = [p \in Pip |-> 0]
    /\ worked = [p \in Pip |-> 0]
    /\ payroll = Idle /\ endowment = Idle /\ escheat = Idle
    /\ lived = 0 /\ faults = 0 /\ upsets = {}

Core ==
    \/ \E dying \in SUBSET alive :
          \E here \in SUBSET alive, hungry \in SUBSET (alive \ dying) :
             Tick(here, dying, hungry)
    \/ Publish
    \/ CoreRestarts

Gateway ==
    \/ Register
    \/ \E S \in SUBSET alive : S # {} /\ Cycle(S)
    \/ PayWages \/ MirrorWages
    \/ Endow \/ IssueEndowment \/ MirrorEndowment
    \/ PlayerBuys

Consumers ==
    \/ BookPurchase
    \/ EscheatNothing \/ EscheatReads \/ EscheatTransfers
    \/ \E t \in Topic : HandlingFails(t)
    \/ BankRestarts

Next == Core \/ Gateway \/ Consumers

Spec == Init /\ [][Next]_vars

-----------------------------------------------------------------------------
(* Properties. *)

Upsets == {"lost", "late_wage", "credit_refused", "overtaken", "escheat_refused",
           "replayed", "passed_over", "restart"}

\* Every variable keeps its type.
TypeOK ==
    /\ tick \in Nat /\ lived \in Nat /\ lived + tick <= MaxTick
    /\ alive \subseteq Pip /\ built \in BOOLEAN
    /\ replica \in [Account -> Int] /\ balance \in [Account -> Int]
    /\ intents \in Seq(Intent) /\ Len(intents) <= MaxQueue
    /\ outbox \in Seq(Fact)
    /\ log \in [Topic -> Seq(Fact)] /\ ahead \in [Topic -> Nat]
    /\ \A t \in Topic : ahead[t] <= Len(log[t]) /\ Len(log[t]) <= MaxQueue
    /\ worked \in [Pip -> 0..MaxTick] /\ twice \in [Pip -> Nat]
    /\ payroll \in Payroll \union {Idle} /\ endowment \in Endowment \union {Idle}
    /\ escheat \in Inheritance \union {Idle}
    /\ faults \in 0..MaxFaults /\ upsets \subseteq Upsets

\* Money supply is closed in both books: whatever is paid, bought, issued or
\* inherited, in whatever order, each book sums to zero with the treasury
\* (CreditBalances, remove_at, Escheat, Endow).
BothBooksClosed == SumOf(balance) = 0 /\ SumOf(replica) = 0

\* Purchases of p the core settled and the bank has not booked.
Due(f, p) == IF f.topic = "purchases" /\ f.pip = p /\ ~f.done THEN Price ELSE 0
DueIn(facts, p) == SumOf([n \in DOMAIN facts |-> Due(facts[n], p)])
Unbooked(p) == DueIn(outbox, p) + DueIn(log["purchases"], p)

\* The direction of error payWages relies on: a living pip is never richer in
\* the core than at the bank, even once every purchase on its way is booked,
\* but for what redelivered purchases cost it.  So a double booking is the only
\* way the core can let it spend what the bank does not hold for it.  Lost
\* calls, facts and answers, failed bookings and restarts of the bank keep it;
\* only a wage the bank answered from its keys, or a new world under old books,
\* does not.
PoorerInTheCore ==
    upsets \intersect {"replayed", "restart"} = {} =>
        \A p \in alive : replica[p] + Unbooked(p) <= balance[p] + twice[p]

InFlight == \/ intents # <<>> \/ outbox # <<>>
            \/ \E t \in Topic : log[t] # <<>>
            \/ payroll # Idle \/ endowment # Idle \/ escheat # Idle

\* Once nothing is on its way the two books differ by exactly the purchases that
\* were booked twice, unless one of the named upsets came between: the farm is
\* that much richer at the bank and every living pip as much poorer as its own
\* purchases cost it again; of the dead the bank holds nothing (what they lost
\* that way is missing from their estates, or a debt).  A restart of the bank
\* and a failed commit do nothing else to the books.
Reconciled ==
    ~InFlight /\ upsets = {} =>
        /\ balance[Farm] = replica[Farm] + SumOf(twice)
        /\ \A p \in alive : balance[p] = replica[p] - twice[p]
        /\ \A p \in Pip \ alive : balance[p] \in -twice[p] .. 0
=============================================================================
