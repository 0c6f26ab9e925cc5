-------------------------------- MODULE Host --------------------------------
(***************************************************************************)
(* The farm service as a host of several buildings, at several replicas    *)
(* (host.go, the ActorHost of dapr.go, queue.go, cmd/farm/main.go).        *)
(*                                                                         *)
(* Replicas compete for work offers on one queue.  A replica takes one     *)
(* offer at a time and asks its buildings one after the other until one    *)
(* claims the pip; it then publishes the outcome and acknowledges the      *)
(* offer.  Beside the queue it serves calls addressed to one building.     *)
(*                                                                         *)
(* Of each building the module keeps who is on shift; the store behind it, *)
(* shared by the replicas, is FarmStore.  The broker is external.          *)
(***************************************************************************)
EXTENDS Integers, FiniteSets

CONSTANTS
    N,         \* buildings; their ids are 1..N
    MaxWorkers,
    Pip, Offer, PipOf, \* offers, and the pip each is about
    Garbled,   \* offers that cannot be decoded
    Replica,
    Prefetch,  \* deliveries a replica holds unacknowledged at most
    MaxFaults  \* bound on crashes, lost connections and failed calls

Building == 1..N

\* Where an offer is while no replica has it.
Resting == {"queue", "answered", "dead_lettered", "lapsed"}

ASSUME HostAssumption == /\ N \in Nat \ {0} /\ MaxWorkers \in Nat
                         /\ PipOf \in [Offer -> Pip] /\ Garbled \subseteq Offer
                         /\ Prefetch \in Nat \ {0} /\ MaxFaults \in Nat
                         /\ Resting \intersect Replica = {}

VARIABLES
    hosting,  \* "plain": Host; "actor": ActorHost, behind a Dapr sidecar
    held,     \* building -> pips on shift there
    at,       \* offer -> the replica it was delivered to, or where it is
    linked,   \* replicas with a session at the broker
    next,     \* replica -> where the rotation of the next offer starts
    job,      \* replica -> the offer under consideration
    faults,
    \* history
    granted,  \* <<building, pip>> of every claim that was ever executed
    told,     \* shifts the gateway was told of
    orphans,  \* shifts a fault kept from being told
    vacant    \* replica -> buildings that had room for its pip all along

records == <<granted, told, orphans>>
vars == <<hosting, held, at, linked, next, job, faults, records, vacant>>

NoJob == [offer |-> "none"]

Shifts == {s \in Building \X Pip : s[2] \in held[s[1]]}
HasRoom(b, p) == p \notin held[b] /\ Cardinality(held[b]) < MaxWorkers

\* One more of the faults that interrupt a step.
Fault == faults < MaxFaults /\ faults' = faults + 1

-----------------------------------------------------------------------------
(* The broker. *)

\* Hands out offers without a limit on what is unacknowledged.
DeliverFreely(r, o) ==
    /\ r \in linked /\ at[o] = "queue"
    /\ at' = [at EXCEPT ![o] = r]
    /\ UNCHANGED <<held, linked, next, job, faults, records>>

Deliver(r, o) ==
    /\ r \in linked /\ at[o] = "queue"
    /\ Cardinality({x \in Offer : at[x] = r}) < Prefetch
    /\ at' = [at EXCEPT ![o] = r]
    /\ UNCHANGED <<held, linked, next, job, faults, records>>

\* An offer that is not taken within its time to live is dropped.
Lapse(o) ==
    /\ at[o] = "queue"
    /\ at' = [at EXCEPT ![o] = "lapsed"]
    /\ UNCHANGED <<held, linked, next, job, faults, records>>

\* What a replica has not acknowledged when its session ends goes back.
Requeued(r) == [o \in Offer |-> IF at[o] = r THEN "queue" ELSE at[o]]

\* The session is lost; the offer in hand is still being decided.
Disconnect(r) ==
    /\ r \in linked /\ Fault
    /\ linked' = linked \ {r}
    /\ at' = Requeued(r)
    /\ UNCHANGED <<held, next, job, records>>

\* Run opens the next session once the handler is back.
Reconnect(r) ==
    /\ r \notin linked /\ job[r] = NoJob
    /\ linked' = linked \union {r}
    /\ UNCHANGED <<held, at, next, job, faults, records>>

-----------------------------------------------------------------------------
(* A replica considers an offer. *)

\* handle: an offer that cannot be decoded must not come back.
DeadLetter(r, o) ==
    /\ at[o] = r /\ job[r] = NoJob /\ o \in Garbled
    /\ at' = [at EXCEPT ![o] = "dead_lettered"]
    /\ UNCHANGED <<held, linked, next, job, faults, records>>

\* The buildings in the order they are asked: from a moving start, or, behind
\* a sidecar, always from the first.
Nth(j) == IF hosting = "plain" THEN ((j.start + j.tried) % N) + 1 ELSE j.tried + 1

\* ConsiderOffer begins: the rotation moves on.
Take(r, o) ==
    LET j == [offer |-> o, start |-> next[r], tried |-> 0, failed |-> {},
              took |-> 0, sent |-> FALSE]
    IN
    /\ at[o] = r /\ job[r] = NoJob /\ o \notin Garbled
    /\ job' = [job EXCEPT ![r] = j]
    /\ next' = IF hosting = "plain" THEN [next EXCEPT ![r] = @ + 1] ELSE next
    /\ UNCHANGED <<held, at, linked, faults, records>>

Asking(r) == job[r] # NoJob /\ job[r].took = 0 /\ job[r].tried < N
AskedPip(r) == PipOf[job[r].offer]

\* Does not stop at the building that takes the pip.
AskOn(r) ==
    LET b == Nth(job[r]) IN
    /\ Asking(r) /\ HasRoom(b, AskedPip(r))
    /\ held' = [held EXCEPT ![b] = @ \union {AskedPip(r)}]
    /\ granted' = granted \union {<<b, AskedPip(r)>>}
    /\ job' = [job EXCEPT ![r].took = IF job[r].tried + 1 = N THEN b ELSE 0,
                          ![r].tried = @ + 1]
    /\ UNCHANGED <<at, linked, next, faults, told, orphans>>

\* A building claims the pip.
AskGranted(r) ==
    LET b == Nth(job[r]) IN
    /\ Asking(r) /\ HasRoom(b, AskedPip(r))
    /\ held' = [held EXCEPT ![b] = @ \union {AskedPip(r)}]
    /\ granted' = granted \union {<<b, AskedPip(r)>>}
    /\ job' = [job EXCEPT ![r].took = b]
    /\ UNCHANGED <<at, linked, next, faults, told, orphans>>

\* A building gives the whole kind's answer.
AskRefusedOnce(r) ==
    /\ Asking(r) /\ ~HasRoom(Nth(job[r]), AskedPip(r))
    /\ job' = [job EXCEPT ![r].tried = N]
    /\ UNCHANGED <<held, at, linked, next, faults, records>>

\* It is full, or has the pip on shift already: the next one is asked.
AskRefused(r) ==
    /\ Asking(r) /\ ~HasRoom(Nth(job[r]), AskedPip(r))
    /\ job' = [job EXCEPT ![r].tried = @ + 1]
    /\ UNCHANGED <<held, at, linked, next, faults, records>>

\* Its store or its actor does not answer, having claimed the pip or not: the
\* next one is asked.
AskFails(r) ==
    LET b == Nth(job[r])
        s == <<b, AskedPip(r)>>
    IN
    /\ Asking(r) /\ Fault
    /\ job' = [job EXCEPT ![r].tried = @ + 1, ![r].failed = @ \union {b}]
    /\ \/ UNCHANGED <<held, granted, orphans>>
       \/ /\ HasRoom(b, AskedPip(r))
          /\ held' = [held EXCEPT ![b] = @ \union {AskedPip(r)}]
          /\ granted' = granted \union {s}
          /\ orphans' = orphans \union {s}
    /\ UNCHANGED <<at, linked, next, told>>

Decided(r) == job[r] # NoJob /\ ~Asking(r) /\ ~job[r].sent
Hired(r) == IF job[r].took = 0 THEN {} ELSE {<<job[r].took, AskedPip(r)>>}

\* The outcome names the first configured building.
PublishFirst(r) ==
    /\ Decided(r) /\ r \in linked
    /\ job' = [job EXCEPT ![r].sent = TRUE]
    /\ told' = told \union {<<1, s[2]>> : s \in Hired(r)}
    /\ UNCHANGED <<held, at, linked, next, faults, granted, orphans>>

\* The outcome names the building that claimed the pip, or none.
Publish(r) ==
    /\ Decided(r) /\ r \in linked
    /\ job' = [job EXCEPT ![r].sent = TRUE]
    /\ told' = told \union Hired(r)
    /\ UNCHANGED <<held, at, linked, next, faults, granted, orphans>>

\* Gives the offer up with the outcome.
PublishFailsAndDrops(r) ==
    /\ Decided(r)
    /\ IF r \in linked THEN Fault ELSE UNCHANGED faults
    /\ job' = [job EXCEPT ![r] = NoJob]
    /\ at' = [o \in Offer |-> IF at[o] = r /\ o = job[r].offer THEN "dead_lettered" ELSE at[o]]
    /\ orphans' = orphans \union (Hired(r) \intersect Shifts)
    /\ UNCHANGED <<held, linked, next, granted, told>>

\* The outcome cannot be published: nobody is told, the offer goes back.
PublishFails(r) ==
    /\ Decided(r)
    /\ IF r \in linked THEN Fault ELSE UNCHANGED faults
    /\ job' = [job EXCEPT ![r] = NoJob]
    /\ at' = [o \in Offer |-> IF at[o] = r /\ o = job[r].offer THEN "queue" ELSE at[o]]
    /\ orphans' = orphans \union (Hired(r) \intersect Shifts)
    /\ UNCHANGED <<held, linked, next, granted, told>>

\* An acknowledgement of a session that is gone reaches nobody.
Ack(r) ==
    /\ job[r] # NoJob /\ job[r].sent
    /\ job' = [job EXCEPT ![r] = NoJob]
    /\ at' = [o \in Offer |-> IF at[o] = r /\ o = job[r].offer THEN "answered" ELSE at[o]]
    /\ UNCHANGED <<held, linked, next, faults, records>>

\* The process dies and comes back: its rotation starts over.
Dies(r) ==
    /\ Fault
    /\ job' = [job EXCEPT ![r] = NoJob]
    /\ orphans' = IF job[r] = NoJob \/ job[r].sent THEN orphans
                  ELSE orphans \union (Hired(r) \intersect Shifts)
    /\ at' = Requeued(r)
    /\ linked' = linked \ {r}
    /\ next' = [next EXCEPT ![r] = 0]
    /\ UNCHANGED <<held, granted, told>>

-----------------------------------------------------------------------------
(* Calls addressed to a building, beside the queue. *)

\* The building a call is for, 0 if there is none: a call may leave the id
\* out only where there is one building.
Resolve(id) ==
    IF id = 0 THEN IF N = 1 THEN 1 ELSE 0
    ELSE IF id \in Building THEN id ELSE 0

\* The shift is over, whoever was told of it.
Over(b, p) ==
    /\ p \in held[b]
    /\ held' = [held EXCEPT ![b] = @ \ {p}]
    /\ told' = told \ {<<b, p>>}
    /\ orphans' = orphans \ {<<b, p>>}
    /\ UNCHANGED <<at, linked, next, job, faults, granted>>

EndShift(id, p) == LET b == Resolve(id) IN b # 0 /\ Over(b, p)

\* The lease of a shift runs out (reap).
Expire(b, p) == Over(b, p)

-----------------------------------------------------------------------------
\* The history of what was true all along.
Watch ==
    vacant' = [r \in Replica |->
        IF job'[r] = NoJob THEN {}
        ELSE {b \in Building : /\ HasRoom(b, AskedPip(r))'
                               /\ job[r] = NoJob \/ b \in vacant[r]}]

Init ==
    /\ hosting \in {"plain", "actor"}
    /\ held = [b \in Building |-> {}]
    /\ at = [o \in Offer |-> "queue"]
    /\ linked = {}
    /\ next = [r \in Replica |-> 0]
    /\ job = [r \in Replica |-> NoJob]
    /\ faults = 0
    /\ granted = {} /\ told = {} /\ orphans = {}
    /\ vacant = [r \in Replica |-> {}]

\* What a replica does by itself with the offers it is given.
Consume(r) ==
    \/ Reconnect(r)
    \/ \E o \in Offer : Take(r, o) \/ DeadLetter(r, o)
    \/ AskGranted(r) \/ AskRefused(r)
    \/ Publish(r) \/ Ack(r)
    \/ r \notin linked /\ PublishFails(r)

Broken(r) ==
    \/ Disconnect(r) \/ Dies(r) \/ AskFails(r)
    \/ r \in linked /\ PublishFails(r)

Calls ==
    \/ \E id \in 0..N + 1, p \in Pip : EndShift(id, p)
    \/ \E b \in Building, p \in Pip : Expire(b, p)

Next ==
    /\ \/ \E r \in Replica :
             \/ \E o \in Offer : Deliver(r, o)
             \/ Consume(r)
             \/ Broken(r)
       \/ \E o \in Offer : Lapse(o)
       \/ Calls
    /\ Watch
    /\ UNCHANGED hosting

\* The broker keeps delivering, and a replica that runs keeps working.
Fairness ==
    /\ \A r \in Replica : WF_vars(Consume(r) /\ Watch /\ UNCHANGED hosting)
    /\ \A o \in Offer :
          WF_vars((\E r \in Replica : Deliver(r, o)) /\ Watch /\ UNCHANGED hosting)

Spec == Init /\ [][Next]_vars /\ Fairness

-----------------------------------------------------------------------------
Job == [offer : Offer, start : Nat, tried : 0..N, failed : SUBSET Building,
        took : 0..N, sent : BOOLEAN]

\* Every variable keeps its type; no building holds more pips than it has
\* positions, no replica more deliveries than its prefetch.
TypeOK ==
    /\ hosting \in {"plain", "actor"}
    /\ held \in [Building -> SUBSET Pip]
    /\ \A b \in Building : Cardinality(held[b]) <= MaxWorkers
    /\ at \in [Offer -> Resting \union Replica]
    /\ \A r \in Replica : Cardinality({o \in Offer : at[o] = r}) <= Prefetch
    /\ linked \in SUBSET Replica
    /\ next \in [Replica -> Nat]
    /\ job \in [Replica -> Job \union {NoJob}]
    /\ faults \in 0..MaxFaults

\* An offer is refused on behalf of all buildings only if none that could be
\* asked had room for the pip the whole time: whatever other replicas, calls
\* and leases do meanwhile, and wherever the rotation starts (ConsiderOffer).
NobodyTurnedAway ==
    \A r \in Replica :
        Decided(r) /\ job[r].took = 0 => vacant[r] \subseteq job[r].failed

\* The gateway, which hires against the building the outcome names, is only
\* told of buildings that did claim that pip (handle, ConsiderOffer).
HiredWhereClaimed == told \subseteq granted

\* Every shift on record is one the gateway was told of, is about to be told
\* of by the replica that got it, or was orphaned by a fault between the claim
\* and the outcome; nothing else leaves a pip on shift behind the gateway's
\* back, not even an offer that two replicas consider at once.
EveryShiftAccountedFor ==
    \A s \in Shifts :
        \/ s \in told \union orphans
        \/ \E r \in Replica : job[r] # NoJob /\ s \in Hired(r)

\* Once the faults are over, every offer that was not too old is answered, and
\* what cannot be decoded is put aside: no offer is lost with a session, a
\* process or an outcome that could not be published, and none loops forever
\* (handle, session, Run).
EveryOfferSettled ==
    \A o \in Offer :
        <>(at[o] \in {"lapsed", IF o \in Garbled THEN "dead_lettered" ELSE "answered"})
=============================================================================
