----------------------------- MODULE Employment -----------------------------
(***************************************************************************)
(* How a pip gets a job and loses it: the gateway's economy cycle          *)
(* (world-gateway/internal/economy), the offer queue of a kind of          *)
(* workplace and its consumer (workplaces/farm/internal/queue), the queue  *)
(* of outcomes, and the core, which records employment when it drains its  *)
(* intents at a tick.                                                      *)
(*                                                                         *)
(* Every party acts on what it was told earlier.  The cycle works through  *)
(* one snapshot while outcomes are consumed beside it; offers wait, expire *)
(* and come back; remote calls fail; processes restart.  Time is counted   *)
(* in units that are long for a tick of the core and short for every       *)
(* timeout: a timer holds the units it has left and has run out at zero.   *)
(* Only a tick that has facts to publish may take longer, since it waits   *)
(* for Kafka to deliver each; snapshots and intents are served meanwhile.  *)
(***************************************************************************)
EXTENDS Integers, Sequences, FiniteSets, FiniteSetsExt, SequencesExt

CONSTANTS
    Pips,           \* the world's pips are 1..Pips
    Workplace, None,
    Kind,           \* workplace -> kind: buildings of a kind share a queue
    MaxWorkers,     \* positions of a workplace
    ShiftLease,     \* how long a shift lives without a Work call
    OfferTTL,       \* Expiration of an offer
    PendingTTL,     \* how long a driver waits before it offers a pip again
    HireGrace,      \* hireGrace
    CycleDeadline,  \* deadline of one economy cycle
    Prefetch,       \* offers a consumer may hold
    MaxQueue,       \* bound: messages or intents in one queue
    MaxStall,       \* bound: units a tick waits for Kafka
    MaxFaults       \* bound: failed calls, restarts, redeliveries, slow ticks

Pip == 1..Pips
Kinds == {Kind[w] : w \in Workplace}

ASSUME TimerAssumption ==
    /\ {ShiftLease, OfferTTL, PendingTTL, HireGrace, CycleDeadline, Prefetch,
        MaxQueue} \subseteq Nat \ {0}
    /\ Pips \in Nat /\ MaxWorkers \in Nat /\ MaxStall \in Nat /\ MaxFaults \in Nat
    /\ CycleDeadline < HireGrace

OutcomeType == [pip : Pip, workplace : Workplace]

ASSUME WorkplaceAssumption ==
    /\ None \notin Workplace /\ None \notin Pip
    /\ None \notin OutcomeType /\ None \notin Workplace \X Pip
    /\ IsFiniteSet(Workplace)

VARIABLES
    alive, employers,   \* the core's pips and whom they work for
    intents,            \* queued for the core's next tick
    stall,              \* the unit a tick waiting for Kafka is in, 0 if none is
    shifts,             \* workplace -> pip on shift -> what is left of its lease
    offers,             \* kind -> offers waiting
    taken,              \* kind -> offers its consumer has not acknowledged
    outcomes,           \* accepted offers waiting for the gateway
    hiring,             \* the outcome the gateway has not acknowledged
    employed,           \* driver -> whom it believes employed
    hiredAt, pending,   \* driver -> pip -> what is left of the timer
    connected,          \* the connection offers are published on is up
    unsynced,           \* drivers the cycle has still to synchronise
    snap,               \* the pips it has still to serve -> employer it saw
    left,               \* what is left of its deadline
    ending, told,       \* shifts to end, and the one its workplace was told of
    unheard,            \* history: hires submitted that the driver did not hear of
    delayed,            \* history: hires queued behind a tick past Patience
    faults

core == <<alive, employers, intents, stall>>
queues == <<offers, taken, outcomes, hiring>>
drivers == <<employed, hiredAt, pending, connected>>
cycle == <<unsynced, snap, left, ending, told>>
history == <<unheard, delayed>>
vars == <<core, shifts, queues, drivers, cycle, history, faults>>

-----------------------------------------------------------------------------
Put(f, x, v) == [y \in DOMAIN f \union {x} |-> IF y = x THEN v ELSE f[y]]
Drop(f, x) == [y \in DOMAIN f \ {x} |-> f[y]]

\* Timers that still run.
Running(f) == {x \in DOMAIN f : f[x] > 0}

\* Timers that go on below zero.
AgedPastZero(f) == [x \in DOMAIN f |-> f[x] - 1]

\* What a unit of time leaves of timers.
Aged(f) == [x \in DOMAIN f |-> IF f[x] = 0 THEN 0 ELSE f[x] - 1]

Fault == faults < MaxFaults /\ faults' = faults + 1

\* SubmitIntent.  An intent names a pip and its employer from now on.
Hire(p, w) == [pip |-> p, employer |-> w]
EndEmployment(p) == [pip |-> p, employer |-> None]
Submit(i) ==
    /\ Len(intents) < MaxQueue
    /\ intents' = Append(intents, i)
    /\ UNCHANGED <<alive, employers, stall>>

\* The core is about to hire p at w.
Asked(w, p) == \E n \in DOMAIN intents : intents[n] = Hire(p, w)

-----------------------------------------------------------------------------
(* The core. *)

Applied(e, i) == IF i.pip \in alive THEN [e EXCEPT ![i.pip] = i.employer] ELSE e

\* A tick: every intent that arrived since the last one, in arrival order, then
\* the deaths.  There is no next one until its facts are delivered.
Tick(dying) ==
    /\ stall = 0
    /\ alive' = alive \ dying
    /\ LET hired == FoldLeft(Applied, employers, intents)
       IN  employers' = [p \in Pip |-> IF p \in dying THEN None ELSE hired[p]]
    /\ intents' = << >>
    /\ UNCHANGED <<shifts, queues, drivers, cycle, history>>

CoreTick(dying) ==
    /\ intents # << >> \/ dying # {}
    /\ Tick(dying)
    /\ UNCHANGED <<stall, faults>>

\* A tick with facts (a death, a purchase, a birth) that Kafka is slow to take.
SlowTick(dying) ==
    /\ Fault
    /\ Tick(dying)
    /\ stall' = 1

\* Every fact of the tick is delivered or given up.
Delivered ==
    /\ stall > 0
    /\ stall' = 0
    /\ UNCHANGED <<alive, employers, intents, shifts, queues, drivers, cycle, history,
                   faults>>

\* A fresh world; its pips get the ids of the old ones.
WorldRestarts ==
    /\ Fault
    /\ alive' = Pip
    /\ employers' = [p \in Pip |-> None]
    /\ intents' = << >> /\ stall' = 0
    /\ UNCHANGED <<shifts, queues, drivers, cycle, history>>

-----------------------------------------------------------------------------
(* The consumer of a kind's offers. *)

\* An offer in the consumer's hands does not expire any more.
TakeOffer(k) ==
    /\ Len(taken[k]) < Prefetch /\ offers[k] # << >>
    /\ taken' = [taken EXCEPT ![k] = Append(@, Head(offers[k]))]
    /\ offers' = [offers EXCEPT ![k] = Tail(@)]
    /\ UNCHANGED <<core, shifts, outcomes, hiring, drivers, cycle, history, faults>>

Offered(k) == Head(taken[k]).pip

\* The store's claim: reap, then look for the pip and for room.
Reaped(w) == [p \in Running(shifts[w]) |-> shifts[w][p]]
Claimable(w, p) ==
    /\ p \notin DOMAIN Reaped(w)
    /\ Cardinality(DOMAIN Reaped(w)) < MaxWorkers

\* ConsiderOffer: the first building of the kind, in rotation, with a position;
\* the ones asked before it have reaped as well.
Full(k) == {w \in Workplace : Kind[w] = k /\ ~Claimable(w, Offered(k))}
Accept(k, w) ==
    /\ Kind[w] = k /\ w \notin Full(k)
    /\ \E asked \in SUBSET Full(k) :
          shifts' = [v \in Workplace |->
                       CASE v = w -> Put(Reaped(w), Offered(k), ShiftLease)
                         [] v \in asked -> Reaped(v)
                         [] OTHER -> shifts[v]]

Refuse(k) ==
    /\ \A w \in Workplace : Kind[w] = k => w \in Full(k)
    /\ shifts' = [w \in Workplace |-> IF Kind[w] = k THEN Reaped(w) ELSE shifts[w]]

\* The offer is acknowledged; or the consumer dies before it can, and all it
\* holds is delivered again.
Acknowledge(k) ==
    \/ /\ taken' = [taken EXCEPT ![k] = Tail(@)]
       /\ UNCHANGED <<offers, faults>>
    \/ /\ Fault
       /\ taken' = [taken EXCEPT ![k] = << >>]
       /\ offers' = [offers EXCEPT ![k] = taken[k] \o @]

\* Publishes the outcome; the gateway drops rejections.
Publish(k, w) ==
    /\ Len(outcomes) < MaxQueue
    /\ outcomes' = Append(outcomes, [pip |-> Offered(k), workplace |-> w])

Consider(k) ==
    /\ taken[k] # << >>
    /\ \/ \E w \in Workplace : Accept(k, w) /\ Publish(k, w)
       \/ Refuse(k) /\ UNCHANGED outcomes
    /\ Acknowledge(k)
    /\ UNCHANGED <<core, hiring, drivers, cycle, history>>

\* The outcome cannot be published: the offer is requeued, a claim stands.
ConsiderUnanswered(k) ==
    /\ taken[k] # << >>
    /\ Fault
    /\ Refuse(k) \/ \E w \in Workplace : Accept(k, w)
    /\ taken' = [taken EXCEPT ![k] = Tail(@)]
    /\ offers' = [offers EXCEPT ![k] = <<Head(taken[k])>> \o @]
    /\ UNCHANGED <<core, outcomes, hiring, drivers, cycle, history>>

\* The store does not answer, though it may have claimed: a rejection is
\* published, and the offer acknowledged.
ConsiderBlind(k) ==
    /\ taken[k] # << >>
    /\ Fault
    /\ UNCHANGED shifts \/ \E w \in Workplace : Accept(k, w)
    /\ taken' = [taken EXCEPT ![k] = Tail(@)]
    /\ UNCHANGED <<core, offers, outcomes, hiring, drivers, cycle, history>>

\* A farm that keeps its shifts in memory restarts.
WorkplaceForgets(w) ==
    /\ Fault
    /\ shifts' = [shifts EXCEPT ![w] = << >>]
    /\ UNCHANGED <<core, queues, drivers, cycle, history>>

\* Messages are published without asking for persistence; the consumers connect
\* again, the gateway's publisher of offers does not.
BrokerRestarts ==
    /\ Fault
    /\ offers' = [k \in Kinds |-> << >>]
    /\ outcomes' = << >>
    /\ connected' = FALSE
    /\ UNCHANGED <<core, shifts, taken, hiring, employed, hiredAt, pending, cycle, history>>

-----------------------------------------------------------------------------
(* The gateway: outcomes. *)

\* OnHired, one outcome at a time, tells the world first.  If it hears no answer,
\* whether or not the world has heard, the outcome is acknowledged all the same,
\* or comes again when the acknowledgement fails as well.
OnHired ==
    /\ hiring = None /\ outcomes # << >>
    /\ LET o == Head(outcomes) IN
       \/ /\ Submit(Hire(o.pip, o.workplace))
          /\ hiring' = o
          /\ outcomes' = Tail(outcomes)
          /\ UNCHANGED <<unheard, faults>>
       \/ /\ Fault
          /\ outcomes' \in {Tail(outcomes), outcomes}
          /\ \/ UNCHANGED <<core, unheard>>
             \/ /\ Submit(Hire(o.pip, o.workplace))
                /\ unheard' = unheard \union {<<o.workplace, o.pip>>}
          /\ UNCHANGED hiring
    /\ UNCHANGED <<shifts, offers, taken, drivers, cycle, delayed>>

\* The outcome is acknowledged, or the consumer's session is lost before it is.
AcknowledgeOutcome ==
    /\ hiring' = None
    /\ \/ UNCHANGED <<outcomes, faults>>
       \/ Fault /\ outcomes' = <<hiring>> \o outcomes

\* The hire is not timed.
RecordHireUntimed ==
    /\ hiring # None
    /\ employed' = [employed EXCEPT ![hiring.workplace] = @ \union {hiring.pip}]
    /\ pending' = [pending EXCEPT ![hiring.workplace] = Drop(@, hiring.pip)]
    /\ AcknowledgeOutcome
    /\ UNCHANGED <<core, shifts, offers, taken, hiredAt, connected, cycle, history>>

\* ...and then the driver.
RecordHire ==
    /\ hiring # None
    /\ LET p == hiring.pip
           w == hiring.workplace
       IN  /\ employed' = [employed EXCEPT ![w] = @ \union {p}]
           /\ hiredAt' = [hiredAt EXCEPT ![w] = Put(@, p, HireGrace)]
           /\ pending' = [pending EXCEPT ![w] = Drop(@, p)]
    /\ AcknowledgeOutcome
    /\ UNCHANGED <<core, shifts, offers, taken, connected, cycle, history>>

\* AssignWork: a player hires a pip; neither workplace nor driver is asked or
\* told.  Counted among the faults.
AssignWork(p, w) ==
    /\ Fault
    /\ Submit(Hire(p, w))
    /\ unheard' = unheard \union {<<w, p>>}
    /\ UNCHANGED <<shifts, queues, drivers, cycle, delayed>>

-----------------------------------------------------------------------------
(* The gateway: the cycle. *)

Between == ending = {} /\ told = None
Serving == unsynced = {} /\ Between
CycleOver == Serving /\ DOMAIN snap = {}

\* The snapshot is the authority on who is employed where.
Snapshot ==
    /\ CycleOver
    /\ unsynced' = Workplace
    /\ snap' = [p \in alive |-> employers[p]]
    /\ left' = CycleDeadline
    /\ unheard' = {h \in unheard : employers[h[2]] # h[1]}
    /\ delayed' = {h \in delayed : Asked(h[1], h[2])}
    /\ UNCHANGED <<core, shifts, queues, drivers, ending, told, faults>>

\* syncEmployment: believe the snapshot and recent hires, end everyone else.
Believed(w) == {p \in DOMAIN snap : snap[p] = w} \union Running(hiredAt[w])
Sync(w) ==
    /\ w \in unsynced /\ Between
    /\ unsynced' = unsynced \ {w}
    /\ hiredAt' = [hiredAt EXCEPT ![w] = [p \in Running(@) |-> @[p]]]
    /\ ending' = {<<w, p>> : p \in employed[w] \ Believed(w)}
    /\ employed' = [employed EXCEPT ![w] = Believed(w)]
    /\ UNCHANGED <<core, shifts, queues, pending, connected, snap, left, told, history,
                   faults>>

\* endShift: the workplace is told, if it can be reached...
TellWorkplace(w, p) ==
    /\ <<w, p>> \in ending /\ told = None
    /\ ending' = ending \ {<<w, p>>}
    /\ told' = <<w, p>>
    /\ \/ shifts' = [shifts EXCEPT ![w] = Drop(@, p)] /\ UNCHANGED faults
       \/ Fault /\ UNCHANGED shifts
    /\ UNCHANGED <<core, queues, drivers, unsynced, snap, left, history>>

\* The world is not told.
TellNobody ==
    /\ told # None
    /\ employed' = [employed EXCEPT ![told[1]] = @ \ {told[2]}]
    /\ pending' = [pending EXCEPT ![told[1]] = Drop(@, told[2])]
    /\ told' = None
    /\ UNCHANGED <<core, shifts, queues, hiredAt, connected, unsynced, snap, left,
                   ending, history, faults>>

\* ...then the world, which is not told where the shift was, and the driver
\* forgets the pip, though not when it was hired.
TellWorld ==
    /\ told # None
    /\ \/ Submit(EndEmployment(told[2])) /\ UNCHANGED faults
       \/ Fault /\ UNCHANGED core
    /\ employed' = [employed EXCEPT ![told[1]] = @ \ {told[2]}]
    /\ pending' = [pending EXCEPT ![told[1]] = Drop(@, told[2])]
    /\ told' = None
    /\ UNCHANGED <<shifts, queues, hiredAt, connected, unsynced, snap, left, ending,
                   history>>

\* The pips are served in the order of the snapshot.
Serve(p) ==
    /\ Serving /\ DOMAIN snap # {} /\ p = Min(DOMAIN snap)
    /\ snap' = Drop(snap, p)
    /\ UNCHANGED <<core, taken, outcomes, hiring, employed, hiredAt, connected,
                   unsynced, left, told, history>>

\* work: renews the shift of an employed pip, or learns that it has none.
Work(p, w) ==
    /\ Serve(p) /\ snap[p] = w
    /\ \/ /\ p \in DOMAIN shifts[w]
          /\ shifts' = [shifts EXCEPT ![w] = Put(@, p, ShiftLease)]
          /\ UNCHANGED <<ending, faults>>
       \/ /\ p \notin DOMAIN shifts[w]
          /\ ending' = {<<w, p>>}
          /\ UNCHANGED <<shifts, faults>>
       \/ Fault /\ UNCHANGED <<shifts, ending>>
    /\ UNCHANGED <<offers, pending>>

NewOffer(p) == [pip |-> p, left |-> OfferTTL]

\* offer: to the first workplace, in rotation, that does not still owe an answer
\* about this pip and to which the offer can be published; over a connection that
\* is down, to none.
Offer(p) ==
    /\ Serve(p) /\ snap[p] = None
    /\ \E unreached \in SUBSET {w \in Workplace : p \notin Running(pending[w])} :
          LET free == {w \in Workplace : p \notin Running(pending[w])} \ unreached
              untracked == [w \in Workplace |-> IF w \in unreached
                              THEN Drop(pending[w], p) ELSE pending[w]]
          IN  /\ \/ /\ connected
                    /\ faults' = faults + Cardinality(unreached) /\ faults' <= MaxFaults
                 \/ ~connected /\ free = {} /\ UNCHANGED faults
              /\ \/ \E w \in free :
                       /\ Len(offers[Kind[w]]) < MaxQueue
                       /\ offers' = [offers EXCEPT ![Kind[w]] = Append(@, NewOffer(p))]
                       /\ pending' = [untracked EXCEPT ![w] = Put(@, p, PendingTTL)]
                 \/ free = {} /\ pending' = untracked /\ UNCHANGED offers
    /\ UNCHANGED <<shifts, ending>>

\* The gateway knows nobody and connects anew; the outcome in its hands is
\* delivered again.
GatewayRestarts ==
    /\ Fault
    /\ employed' = [w \in Workplace |-> {}]
    /\ hiredAt' = [w \in Workplace |-> << >>]
    /\ pending' = [w \in Workplace |-> << >>]
    /\ connected' = TRUE
    /\ outcomes' = IF hiring = None THEN outcomes ELSE <<hiring>> \o outcomes
    /\ hiring' = None
    /\ unsynced' = {} /\ snap' = << >> /\ ending' = {} /\ told' = None
    /\ UNCHANGED <<core, shifts, offers, taken, left, history>>

-----------------------------------------------------------------------------
Older(o) == [o EXCEPT !.left = IF @ = 0 THEN 0 ELSE @ - 1]

\* An offer grows older where it waits, or expires there.
OlderOrExpired(waiting, o) ==
    IF Older(o).left > 0 THEN Append(waiting, Older(o)) ELSE waiting

\* How long a hire may wait in the core and still be believed to the end of a
\* cycle that did not see it.
Patience == HireGrace - CycleDeadline

\* A unit of time passes: the core has drained its intents, unless a tick waits
\* for Kafka, and no cycle outlives its deadline.
TimePasses ==
    /\ intents # << >> => stall > 0
    /\ stall <= MaxStall
    /\ stall' = IF stall > 0 THEN stall + 1 ELSE 0
    /\ delayed' = IF stall < Patience THEN delayed
                  ELSE delayed \union {h \in Workplace \X Pip : Asked(h[1], h[2])}
    /\ ~CycleOver => left > 0
    /\ left' = IF CycleOver THEN 0 ELSE left - 1
    /\ shifts' = [w \in Workplace |-> Aged(shifts[w])]
    /\ hiredAt' = [w \in Workplace |-> Aged(hiredAt[w])]
    /\ pending' = [w \in Workplace |-> Aged(pending[w])]
    /\ offers' = [k \in Kinds |-> FoldLeft(OlderOrExpired, << >>, offers[k])]
    /\ taken' = [k \in Kinds |-> [n \in DOMAIN taken[k] |-> Older(taken[k][n])]]
    /\ UNCHANGED <<alive, employers, intents, outcomes, hiring, employed, connected,
                   unsynced, snap, ending, told, unheard, faults>>

Init ==
    /\ alive = Pip
    /\ employers = [p \in Pip |-> None]
    /\ intents = << >> /\ stall = 0
    /\ shifts = [w \in Workplace |-> << >>]
    /\ offers = [k \in Kinds |-> << >>]
    /\ taken = [k \in Kinds |-> << >>]
    /\ outcomes = << >> /\ hiring = None
    /\ employed = [w \in Workplace |-> {}]
    /\ hiredAt = [w \in Workplace |-> << >>]
    /\ pending = [w \in Workplace |-> << >>]
    /\ connected = TRUE
    /\ unsynced = {} /\ snap = << >> /\ left = 0
    /\ ending = {} /\ told = None
    /\ unheard = {} /\ delayed = {} /\ faults = 0

EndShift == TellWorld \/ \E w \in Workplace, p \in Pip : TellWorkplace(w, p)

Cycle ==
    \/ Snapshot
    \/ \E w \in Workplace : Sync(w)
    \/ EndShift
    \/ \E p \in Pip : \/ \E w \in Workplace : Work(p, w)
                      \/ Offer(p)

Next ==
    \/ \E dying \in SUBSET alive : CoreTick(dying) \/ SlowTick(dying)
    \/ Delivered
    \/ WorldRestarts
    \/ \E k \in Kinds : \/ TakeOffer(k)
                        \/ Consider(k)
                        \/ ConsiderUnanswered(k)
                        \/ ConsiderBlind(k)
    \/ \E w \in Workplace : WorkplaceForgets(w)
    \/ BrokerRestarts
    \/ OnHired
    \/ RecordHire
    \/ \E p \in Pip, w \in Workplace : AssignWork(p, w)
    \/ Cycle
    \/ GatewayRestarts
    \/ TimePasses

Spec == Init /\ [][Next]_vars

\* The core's loop, the gateway's two and the consumers go on and time passes.
\* Nobody has to die, and no fault has to happen.
Fairness ==
    /\ WF_vars(CoreTick({}) \/ Delivered)
    /\ WF_vars(OnHired \/ RecordHire)
    /\ WF_vars(Cycle)
    /\ \A k \in Kinds : WF_vars(TakeOffer(k)) /\ WF_vars(Consider(k))
    /\ WF_vars(TimePasses)

FairSpec == Spec /\ Fairness

-----------------------------------------------------------------------------
(* Properties. *)

Timers(P, n) == UNION {[D -> 0..n] : D \in SUBSET P}
OfferType == [pip : Pip, left : 0..OfferTTL]

\* Every variable keeps its type: timers within their limits, queues of
\* well-formed messages, at most one shift being ended at a time.
TypeOK ==
    /\ alive \in SUBSET Pip
    /\ employers \in [Pip -> Workplace \union {None}]
    /\ intents \in Seq([pip : Pip, employer : Workplace \union {None}])
    /\ stall \in 0..MaxStall + 1
    /\ shifts \in [Workplace -> Timers(Pip, ShiftLease)]
    /\ offers \in [Kinds -> Seq(OfferType)]
    /\ taken \in [Kinds -> Seq(OfferType)]
    /\ outcomes \in Seq(OutcomeType)
    /\ hiring \in OutcomeType \union {None}
    /\ employed \in [Workplace -> SUBSET Pip]
    /\ hiredAt \in [Workplace -> Timers(Pip, HireGrace)]
    /\ pending \in [Workplace -> Timers(Pip, PendingTTL)]
    /\ connected \in BOOLEAN
    /\ unsynced \in SUBSET Workplace
    /\ DOMAIN snap \in SUBSET Pip
    /\ snap \in [DOMAIN snap -> Workplace \union {None}]
    /\ left \in 0..CycleDeadline
    /\ ending \in SUBSET (Workplace \X Pip)
    /\ told \in (Workplace \X Pip) \union {None}
    /\ unheard \in SUBSET (Workplace \X Pip) /\ delayed \in SUBSET (Workplace \X Pip)
    /\ faults \in 0..MaxFaults

\* What hireGrace is for, and how far it reaches: a snapshot from before a hire
\* undoes no hire that waited in the core for less than what the grace leaves over
\* a cycle's deadline.  When the cycle ends the shift of a living pip because it
\* "is no longer employed here", the core does not employ it there and is not
\* about to, unless the driver has still to record that very hire or never learned
\* that it succeeded, or the hire was queued behind a tick that waited for Kafka
\* for Patience or longer in all (syncEmployment, OnHired, publish).
StaleSnapshotsEndNoHire ==
    [][\A w \in Workplace, p \in alive :
          Sync(w) /\ <<w, p>> \in ending' =>
              \/ hiring = [pip |-> p, workplace |-> w]
              \/ <<w, p>> \in unheard \union delayed
              \/ employers[p] # w /\ ~Asked(w, p)]_vars

\* Workplace and core never disagree for good about who works there: whatever
\* outcome was lost, offer redelivered or process restarted, an employment
\* without a shift ends and a shift without an employment runs out.
Agree(w, p) == employers[p] = w <=> p \in Running(shifts[w])
DisagreementPasses == \A w \in Workplace, p \in Pip : []<>Agree(w, p)

\* What the comment on the offers says: a pip is offered to one workplace at a
\* time because otherwise "the second hire would silently evict the first".
NobodyIsEvicted ==
    [][\A p \in alive :
          employers[p] # None => employers'[p] \in {None, employers[p]}]_vars
=============================================================================
