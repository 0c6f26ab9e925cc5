----------------------------- MODULE HostProofs -----------------------------
(***************************************************************************)
(* What the replicas of a host guarantee for every number of buildings,    *)
(* positions, offers, replicas, deliveries and faults.                     *)
(***************************************************************************)
EXTENDS Host, FiniteSetTheorems, TLAPS

\* The building a job asks k-th.
Turn(j, k) == IF hosting = "plain" THEN ((j.start + k) % N) + 1 ELSE k + 1

\* Only finitely many pips are on shift and offers in hand.
Finite ==
    /\ \A b \in Building : IsFiniteSet(held[b])
    /\ \A r \in Replica : IsFiniteSet({o \in Offer : at[o] = r})

\* The outcome is sent once the asking is over, and hires where it was granted.
InHand ==
    \A r \in Replica : job[r] # NoJob =>
        /\ job[r].sent => ~Asking(r)
        /\ Hired(r) \subseteq granted

\* A shift nobody was told of is in the hands of a replica that has not sent
\* the outcome; that one is sent is not enough, for the shift may have ended
\* and been claimed again since.
Accounted ==
    \A s \in Shifts :
        \/ s \in told \union orphans
        \/ \E r \in Replica : job[r] # NoJob /\ ~job[r].sent /\ s \in Hired(r)

\* Whoever was asked in vain and did not fail was without room at some time.
AskedHadNoRoom ==
    \A r \in Replica : job[r] # NoJob /\ job[r].took = 0 =>
        \A k \in 0..N - 1 :
            k < job[r].tried /\ Turn(job[r], k) \in vacant[r]
                => Turn(job[r], k) \in job[r].failed

VacantAreBuildings == \A r \in Replica : vacant[r] \subseteq Building

IInv ==
    /\ TypeOK /\ Finite /\ VacantAreBuildings
    /\ InHand /\ HiredWhereClaimed
    /\ Accounted
    /\ AskedHadNoRoom

-----------------------------------------------------------------------------
(* The rotation asks every building. *)

LEMMA ModUnique ==
    ASSUME NEW n \in Nat \ {0}, NEW q \in Int, NEW x \in 0..n - 1
    PROVE  (q * n + x) % n = x
<1> DEFINE y == q * n + x
<1>1. q * n \in Int /\ y \in Int  BY SMT
<1>2. y \div n \in Int /\ y % n \in 0..n - 1  BY <1>1, SMT
<1>3. y = n * (y \div n) + (y % n)  BY <1>1, SMT
<1>4. CASE y \div n = q  BY <1>1, <1>2, <1>3, <1>4, SMT
<1>5. CASE y \div n >= q + 1
  <2>1. n * (y \div n) >= n * (q + 1)  BY <1>2, <1>5, SMT
  <2> QED BY <1>1, <1>2, <1>3, <2>1, SMT
<1>6. CASE y \div n <= q - 1
  <2>1. n * (y \div n) <= n * (q - 1)  BY <1>2, <1>6, SMT
  <2> QED BY <1>1, <1>2, <1>3, <2>1, SMT
<1> QED BY <1>2, <1>4, <1>5, <1>6, SMT

\* Wherever it starts, a rotation comes by each of n places in n steps.
LEMMA RotationCovers ==
    ASSUME NEW n \in Nat \ {0}, NEW s \in Nat, NEW b \in 1..n
    PROVE  \E k \in 0..n - 1 : ((s + k) % n) + 1 = b
<1>1. PICK q \in Int, m \in 0..n - 1 : s = q * n + m
  <2>1. s \div n \in Int /\ s % n \in 0..n - 1 /\ s = (s \div n) * n + (s % n)  BY SMT
  <2> QED BY <2>1
<1>2. b - 1 \in 0..n - 1 /\ q * n \in Int  OBVIOUS
<1>3. ASSUME NEW k \in 0..n - 1, NEW p \in Int, s + k = p * n + (b - 1)
      PROVE  ((s + k) % n) + 1 = b
  <2>1. (p * n + (b - 1)) % n = b - 1  BY <1>2, ModUnique
  <2>2. (s + k) % n = b - 1  BY <1>3, <2>1
  <2> QED BY <2>2, b \in Int
<1>4. CASE m <= b - 1
  <2> DEFINE k == b - 1 - m
  <2>1. k \in 0..n - 1  BY <1>2, <1>4, SMT
  <2>2. s + k = q * n + (b - 1)  BY <1>1, <1>2, SMT
  <2> QED BY <1>3, <2>1, <2>2
<1>5. CASE m > b - 1
  <2> DEFINE k == n + (b - 1) - m
  <2>1. k \in 0..n - 1 /\ q + 1 \in Int  BY <1>2, <1>5, SMT
  <2>2. (q + 1) * n = q * n + n  BY SMT
  <2>3. s + k = (q + 1) * n + (b - 1)  BY <1>1, <1>2, <2>2, SMT
  <2> QED BY <1>3, <2>1, <2>3
<1> QED BY <1>4, <1>5, SMT

LEMMA EveryBuildingHasATurn ==
    ASSUME NEW j \in Job, NEW b \in Building
    PROVE  \E k \in 0..N - 1 : Turn(j, k) = b
<1>1. N \in Nat \ {0} /\ j.start \in Nat /\ b \in 1..N
  BY HostAssumption DEF Job, Building
<1>2. CASE hosting = "plain"  BY <1>1, <1>2, RotationCovers DEF Turn
<1>3. CASE hosting # "plain"
  <2>1. b - 1 \in 0..N - 1 /\ (b - 1) + 1 = b  BY <1>1
  <2> QED BY <1>3, <2>1 DEF Turn
<1> QED BY <1>2, <1>3

\* Who is asked next is a building.
LEMMA NthIsBuilding ==
    ASSUME TypeOK, NEW r \in Replica, Asking(r)
    PROVE  /\ job[r] \in Job /\ job[r].tried \in 0..N - 1
           /\ Nth(job[r]) = Turn(job[r], job[r].tried)
           /\ Nth(job[r]) \in Building
           /\ AskedPip(r) \in Pip
<1>1. job[r] \in Job  BY DEF TypeOK, Asking
<1>2. N \in Nat \ {0} /\ job[r].tried \in 0..N - 1 /\ job[r].start \in Nat
  BY <1>1, HostAssumption DEF Job, Asking
<1>3. ((job[r].start + job[r].tried) % N) \in 0..N - 1  BY <1>2, SMT
<1>4. Nth(job[r]) = Turn(job[r], job[r].tried)  BY DEF Nth, Turn
<1>5. Turn(job[r], job[r].tried) \in Building  BY <1>2, <1>3 DEF Turn, Building
<1>6. AskedPip(r) \in Pip  BY <1>1, HostAssumption DEF AskedPip, Job
<1> QED BY <1>1, <1>2, <1>4, <1>5, <1>6

-----------------------------------------------------------------------------
(* The steps. *)

LEMMA JobsAreJobs == \A j \in Job : j # NoJob
BY DEF Job, NoJob

\* One disjunct for each operation.
Operation ==
    \/ \E r \in Replica, o \in Offer : Deliver(r, o) \/ Take(r, o) \/ DeadLetter(r, o)
    \/ \E o \in Offer : Lapse(o)
    \/ \E r \in Replica :
          \/ Reconnect(r) \/ Disconnect(r) \/ Dies(r)
          \/ AskGranted(r) \/ AskRefused(r) \/ AskFails(r)
          \/ Publish(r) \/ PublishFails(r) \/ Ack(r)
    \/ \E b \in Building, p \in Pip : Over(b, p)

LEMMA NextIsOperation == Next => Operation /\ Watch /\ hosting' = hosting
<1>1. ASSUME NEW id \in 0..N + 1, NEW p \in Pip, EndShift(id, p)
      PROVE  \E b \in Building : Over(b, p)
  <2>1. Resolve(id) \in Building /\ Over(Resolve(id), p)
    BY <1>1, HostAssumption DEF EndShift, Resolve, Building
  <2> QED BY <2>1
<1> QED BY <1>1 DEF Next, Consume, Broken, Calls, Expire, Operation

-----------------------------------------------------------------------------
(* Types, and the limits on positions and deliveries. *)

\* A claim takes a position that is free, the end of a shift frees one.
LEMMA PositionsStep ==
    ASSUME TypeOK, Finite, Operation
    PROVE  /\ held' \in [Building -> SUBSET Pip]
           /\ \A b \in Building : IsFiniteSet(held'[b]) /\ Cardinality(held'[b]) <= MaxWorkers
<1>1. \A b \in Building : /\ held[b] \in SUBSET Pip /\ IsFiniteSet(held[b])
                          /\ Cardinality(held[b]) \in Nat
                          /\ Cardinality(held[b]) <= MaxWorkers
  BY FS_CardinalityType DEF TypeOK, Finite
<1>2. CASE held' = held  BY <1>1, <1>2 DEF TypeOK
<1>3. ASSUME NEW b \in Building, NEW p \in Pip, HasRoom(b, p),
             held' = [held EXCEPT ![b] = @ \union {p}]
      PROVE  /\ held' \in [Building -> SUBSET Pip]
             /\ \A c \in Building : IsFiniteSet(held'[c]) /\ Cardinality(held'[c]) <= MaxWorkers
  <2>1. /\ IsFiniteSet(held[b] \union {p})
        /\ Cardinality(held[b] \union {p}) = Cardinality(held[b]) + 1
    BY <1>1, <1>3, FS_AddElement DEF HasRoom
  <2>2. Cardinality(held[b] \union {p}) <= MaxWorkers
    BY <1>1, <1>3, <2>1, HostAssumption DEF HasRoom
  <2>3. held'[b] = held[b] \union {p} /\ \A c \in Building \ {b} : held'[c] = held[c]
    BY <1>3 DEF TypeOK
  <2> QED BY <1>1, <1>3, <2>1, <2>2, <2>3 DEF TypeOK
<1>4. ASSUME NEW b \in Building, NEW p \in Pip, Over(b, p)
      PROVE  /\ held' \in [Building -> SUBSET Pip]
             /\ \A c \in Building : IsFiniteSet(held'[c]) /\ Cardinality(held'[c]) <= MaxWorkers
  <2>1. /\ IsFiniteSet(held[b] \ {p})
        /\ Cardinality(held[b] \ {p}) <= Cardinality(held[b])
        /\ Cardinality(held[b] \ {p}) \in Nat
    BY <1>1, FS_Subset, FS_CardinalityType
  <2>2. held'[b] = held[b] \ {p} /\ \A c \in Building \ {b} : held'[c] = held[c]
    BY <1>4 DEF Over, TypeOK
  <2>3. Cardinality(held[b] \ {p}) <= MaxWorkers  BY <1>1, <2>1, HostAssumption
  <2> QED BY <1>1, <1>4, <2>1, <2>2, <2>3 DEF TypeOK, Over
<1>5. ASSUME NEW r \in Replica, AskGranted(r) \/ AskFails(r), held' # held
      PROVE  /\ held' \in [Building -> SUBSET Pip]
             /\ \A c \in Building : IsFiniteSet(held'[c]) /\ Cardinality(held'[c]) <= MaxWorkers
  <2>1. Asking(r)  BY <1>5 DEF AskGranted, AskFails
  <2>2. Nth(job[r]) \in Building /\ AskedPip(r) \in Pip  BY <2>1, NthIsBuilding
  <2>3. /\ HasRoom(Nth(job[r]), AskedPip(r))
        /\ held' = [held EXCEPT ![Nth(job[r])] = @ \union {AskedPip(r)}]
    BY <1>5 DEF AskGranted, AskFails
  <2> QED BY <1>3, <2>2, <2>3
<1> QED
  BY <1>2, <1>4, <1>5
  DEF Operation, Deliver, Take, DeadLetter, Lapse, Reconnect, Disconnect, Dies,
      AskRefused, Publish, PublishFails, Ack

\* Only a delivery gives a replica an offer more.
LEMMA OffersMove ==
    ASSUME TypeOK, Operation
    PROVE  /\ at' \in [Offer -> Resting \union Replica]
           /\ \/ \E r \in Replica, o \in Offer : Deliver(r, o)
              \/ \A o \in Offer : at'[o] \in Resting \/ at'[o] = at[o]
<1>1. at \in [Offer -> Resting \union Replica]  BY DEF TypeOK
<1>2. ASSUME NEW r \in Replica, NEW o \in Offer, Deliver(r, o)
      PROVE  at' \in [Offer -> Resting \union Replica]
  BY <1>1, <1>2 DEF Deliver
<1>3. CASE at' = at  BY <1>1, <1>3
<1>4. ASSUME NEW o \in Offer,
             \/ Lapse(o)
             \/ \E r \in Replica : DeadLetter(r, o)
      PROVE  /\ at' \in [Offer -> Resting \union Replica]
             /\ \A x \in Offer : at'[x] \in Resting \/ at'[x] = at[x]
  BY <1>1, <1>4 DEF Lapse, DeadLetter, Resting
<1>5. ASSUME NEW r \in Replica, Disconnect(r) \/ Dies(r)
      PROVE  /\ at' \in [Offer -> Resting \union Replica]
             /\ \A x \in Offer : at'[x] \in Resting \/ at'[x] = at[x]
  BY <1>1, <1>5 DEF Disconnect, Dies, Requeued, Resting
<1>6. ASSUME NEW r \in Replica, PublishFails(r) \/ Ack(r)
      PROVE  /\ at' \in [Offer -> Resting \union Replica]
             /\ \A x \in Offer : at'[x] \in Resting \/ at'[x] = at[x]
  BY <1>1, <1>6 DEF PublishFails, Ack, Resting
<1> QED
  BY <1>2, <1>3, <1>4, <1>5, <1>6
  DEF Operation, Take, Reconnect, AskGranted, AskRefused, AskFails, Publish, Over

LEMMA DeliveriesStep ==
    ASSUME TypeOK, Finite, Operation, NEW x \in Replica
    PROVE  /\ IsFiniteSet({o \in Offer : at'[o] = x})
           /\ Cardinality({o \in Offer : at'[o] = x}) <= Prefetch
<1> DEFINE Before == {o \in Offer : at[o] = x}
           After == {o \in Offer : at'[o] = x}
<1>1. /\ IsFiniteSet(Before) /\ Cardinality(Before) \in Nat
      /\ Cardinality(Before) <= Prefetch
  BY FS_CardinalityType DEF TypeOK, Finite
<1>2. x \notin Resting  BY HostAssumption
<1>3. ASSUME After \subseteq Before
      PROVE  IsFiniteSet(After) /\ Cardinality(After) <= Prefetch
  <2>1. IsFiniteSet(After) /\ Cardinality(After) <= Cardinality(Before)
    BY <1>1, <1>3, FS_Subset
  <2>2. Cardinality(After) \in Nat  BY <2>1, FS_CardinalityType
  <2> QED BY <1>1, <2>1, <2>2, HostAssumption
<1>4. CASE \A o \in Offer : at'[o] \in Resting \/ at'[o] = at[o]
  <2>1. After \subseteq Before  BY <1>2, <1>4
  <2> QED BY <1>3, <2>1
<1>5. ASSUME NEW r \in Replica, NEW o \in Offer, Deliver(r, o)
      PROVE  IsFiniteSet(After) /\ Cardinality(After) <= Prefetch
  <2>1. /\ at' = [at EXCEPT ![o] = r] /\ at[o] = "queue" /\ at[o] # x
        /\ at \in [Offer -> Resting \union Replica]
    BY <1>2, <1>5 DEF Deliver, Resting, TypeOK
  <2>2. CASE r = x
    <3>1. After = Before \union {o} /\ o \notin Before  BY <2>1, <2>2
    <3>2. Cardinality(Before) < Prefetch  BY <1>5, <2>2 DEF Deliver
    <3>3. IsFiniteSet(After) /\ Cardinality(After) = Cardinality(Before) + 1
      BY <1>1, <3>1, FS_AddElement
    <3> QED BY <1>1, <3>2, <3>3, HostAssumption
  <2>3. CASE r # x
    <3>1. After \subseteq Before  BY <2>1, <2>3
    <3> QED BY <1>3, <3>1
  <2> QED BY <2>2, <2>3
<1> QED BY <1>4, <1>5, OffersMove

-----------------------------------------------------------------------------
(* What a step does to the job of its replica. *)

LEMMA TakenJob ==
    ASSUME TypeOK, NEW r \in Replica, NEW o \in Offer, Take(r, o)
    PROVE  /\ job' = [job EXCEPT ![r] = job'[r]]
           /\ job'[r] \in Job
           /\ job'[r].tried = 0 /\ job'[r].took = 0 /\ ~job'[r].sent
           /\ job[r] = NoJob
<1>1. next[r] \in Nat /\ N \in Nat  BY HostAssumption DEF TypeOK
<1>2. job' = [job EXCEPT ![r] = [offer |-> o, start |-> next[r], tried |-> 0,
                                 failed |-> {}, took |-> 0, sent |-> FALSE]]
  BY DEF Take
<1>3. job'[r] = [offer |-> o, start |-> next[r], tried |-> 0,
                 failed |-> {}, took |-> 0, sent |-> FALSE]
  BY <1>2 DEF TypeOK
<1>4. job[r] = NoJob  BY DEF Take
<1>5. job' = [job EXCEPT ![r] = job'[r]]  BY <1>2, <1>3
<1>6. job'[r] \in Job  BY <1>1, <1>3 DEF Job
<1>7. job'[r].tried = 0 /\ job'[r].took = 0 /\ ~job'[r].sent  BY <1>3
<1> QED BY <1>4, <1>5, <1>6, <1>7

LEMMA AskedJob ==
    ASSUME TypeOK, NEW r \in Replica,
           AskGranted(r) \/ AskRefused(r) \/ AskFails(r)
    PROVE  /\ Asking(r) /\ job[r] \in Job /\ job'[r] \in Job
           /\ job' = [job EXCEPT ![r] = job'[r]]
           /\ job'[r].offer = job[r].offer /\ job'[r].start = job[r].start
           /\ job'[r].sent = job[r].sent
           /\ job[r].took = 0
           /\ AskGranted(r) => /\ job'[r].took = Nth(job[r])
                               /\ job'[r].took # 0
           /\ ~AskGranted(r) => /\ job'[r].tried = job[r].tried + 1
                                /\ job'[r].took = 0
           /\ AskRefused(r) => /\ job'[r].failed = job[r].failed
           /\ AskFails(r) => /\ job'[r].failed = job[r].failed \union {Nth(job[r])}
<1>1. Asking(r)  BY DEF AskGranted, AskRefused, AskFails
<1>2. /\ job[r] \in Job /\ job[r].tried \in 0..N - 1 /\ Nth(job[r]) \in Building
  BY <1>1, NthIsBuilding
<1>3. job[r].took = 0  BY <1>1 DEF Asking
<1>4. job \in [Replica -> Job \union {NoJob}] /\ N \in Nat  BY HostAssumption DEF TypeOK
<1>5. job[r] = [offer |-> job[r].offer, start |-> job[r].start, tried |-> job[r].tried,
                failed |-> job[r].failed, took |-> 0, sent |-> job[r].sent]
  BY <1>2, <1>3 DEF Job
<1> DEFINE b == Nth(job[r])
<1> HIDE DEF b
<1>6. b \in Building /\ b \in 0..N /\ b # 0  BY <1>2, <1>4 DEF b, Building
<1>7. CASE AskGranted(r)
  <2>1. job' = [job EXCEPT ![r].took = b]  BY <1>7 DEF AskGranted, b
  <2>2. job'[r] = [job[r] EXCEPT !.took = b]  BY <1>4, <2>1
  <2>3. job' = [job EXCEPT ![r] = job'[r]]  BY <1>4, <2>1
  <2>4. /\ job'[r].offer = job[r].offer /\ job'[r].start = job[r].start
        /\ job'[r].sent = job[r].sent /\ job'[r].took = b
        /\ job'[r] \in Job
    BY <1>2, <1>5, <1>6, <2>2 DEF Job
  <2>5. ~AskRefused(r)  BY <1>7 DEF AskGranted, AskRefused
  <2>6. AskFails(r) => FALSE
    <3>1. AskFails(r) => faults' = faults + 1 /\ faults \in Nat
      BY HostAssumption DEF AskFails, Fault, TypeOK
    <3>2. faults' = faults  BY <1>7 DEF AskGranted
    <3> QED BY <3>1, <3>2
  <2> QED BY <1>1, <1>2, <1>3, <1>6, <1>7, <2>3, <2>4, <2>5, <2>6 DEF b
<1>8. CASE ~AskGranted(r) /\ AskRefused(r)
  <2>1. job' = [job EXCEPT ![r].tried = @ + 1]  BY <1>8 DEF AskRefused
  <2>2. job'[r] = [job[r] EXCEPT !.tried = @ + 1]  BY <1>4, <2>1
  <2>3. job' = [job EXCEPT ![r] = job'[r]]  BY <1>4, <2>1
  <2>4. /\ job'[r].offer = job[r].offer /\ job'[r].start = job[r].start
        /\ job'[r].sent = job[r].sent /\ job'[r].took = 0
        /\ job'[r].failed = job[r].failed /\ job'[r].tried = job[r].tried + 1
        /\ job'[r] \in Job
    BY <1>2, <1>4, <1>5, <2>2 DEF Job
  <2>5. AskFails(r) => FALSE
    <3>1. AskFails(r) => faults' = faults + 1 /\ faults \in Nat
      BY HostAssumption DEF AskFails, Fault, TypeOK
    <3>2. faults' = faults  BY <1>8 DEF AskRefused
    <3> QED BY <3>1, <3>2
  <2> QED BY <1>1, <1>2, <1>3, <1>8, <2>3, <2>4, <2>5
<1>9. CASE ~AskGranted(r) /\ ~AskRefused(r) /\ AskFails(r)
  <2>1. job' = [job EXCEPT ![r].tried = @ + 1, ![r].failed = @ \union {b}]
    BY <1>9 DEF AskFails, b
  <2>2. job'[r] = [[job[r] EXCEPT !.tried = job[r].tried + 1]
                      EXCEPT !.failed = job[r].failed \union {b}]
    BY <1>2, <1>4, <2>1 DEF Job
  <2>3. job' = [job EXCEPT ![r] = job'[r]]  BY <1>4, <2>1
  <2>4. job'[r] = [offer |-> job[r].offer, start |-> job[r].start,
                   tried |-> job[r].tried + 1, failed |-> job[r].failed \union {b},
                   took |-> 0, sent |-> job[r].sent]
    <3>1. [job[r] EXCEPT !.tried = job[r].tried + 1] =
            [offer |-> job[r].offer, start |-> job[r].start,
             tried |-> job[r].tried + 1, failed |-> job[r].failed,
             took |-> 0, sent |-> job[r].sent]
      BY <1>5
    <3> QED BY <2>2, <3>1
  <2>5. job'[r] \in Job  BY <1>2, <1>4, <1>6, <2>4 DEF Job
  <2>6. /\ job'[r].offer = job[r].offer /\ job'[r].start = job[r].start
        /\ job'[r].sent = job[r].sent /\ job'[r].took = 0
        /\ job'[r].failed = job[r].failed \union {b} /\ job'[r].tried = job[r].tried + 1
    BY <2>4
  <2> QED BY <1>1, <1>2, <1>3, <1>9, <2>3, <2>5, <2>6 DEF b
<1> QED BY <1>7, <1>8, <1>9

LEMMA PublishedJob ==
    ASSUME TypeOK, NEW r \in Replica, Publish(r)
    PROVE  /\ job[r] \in Job /\ job'[r] \in Job
           /\ job' = [job EXCEPT ![r] = job'[r]]
           /\ job'[r].offer = job[r].offer /\ job'[r].start = job[r].start
           /\ job'[r].tried = job[r].tried /\ job'[r].failed = job[r].failed
           /\ job'[r].took = job[r].took /\ job'[r].sent /\ ~job[r].sent
<1>1. job[r] \in Job /\ ~job[r].sent  BY DEF TypeOK, Publish, Decided
<1>2. job' = [job EXCEPT ![r].sent = TRUE]  BY DEF Publish
<1>3. job'[r] = [job[r] EXCEPT !.sent = TRUE]  BY <1>2 DEF TypeOK
<1>4. job' = [job EXCEPT ![r] = job'[r]]  BY <1>2 DEF TypeOK
<1> QED BY <1>1, <1>3, <1>4 DEF Job

\* Every step leaves a job alone, ends it, or is one of its own.
LEMMA JobsMove ==
    ASSUME TypeOK, Operation
    PROVE  /\ job' \in [Replica -> Job \union {NoJob}]
           /\ \A r \in Replica :
                \/ job'[r] = job[r]
                \/ job'[r] = NoJob /\ (Dies(r) \/ PublishFails(r) \/ Ack(r))
                \/ \E o \in Offer : Take(r, o)
                \/ AskGranted(r) \/ AskRefused(r) \/ AskFails(r) \/ Publish(r)
<1>1. job \in [Replica -> Job \union {NoJob}]  BY DEF TypeOK
<1>2. CASE job' = job  BY <1>1, <1>2
<1>3. ASSUME NEW r \in Replica, Dies(r) \/ PublishFails(r) \/ Ack(r)
      PROVE  job' = [job EXCEPT ![r] = NoJob]
  BY <1>3 DEF Dies, PublishFails, Ack
<1>4. ASSUME NEW r \in Replica,
             \/ \E o \in Offer : Take(r, o)
             \/ AskGranted(r) \/ AskRefused(r) \/ AskFails(r) \/ Publish(r)
      PROVE  job' = [job EXCEPT ![r] = job'[r]] /\ job'[r] \in Job
  BY <1>4, TakenJob, AskedJob, PublishedJob
<1> QED
  BY <1>1, <1>2, <1>3, <1>4
  DEF Operation, Deliver, DeadLetter, Lapse, Reconnect, Disconnect, Over

LEMMA TypeStep ==
    ASSUME TypeOK, Finite, Operation, hosting' = hosting
    PROVE  TypeOK' /\ Finite'
<1>1. /\ held' \in [Building -> SUBSET Pip]
      /\ \A b \in Building : IsFiniteSet(held'[b]) /\ Cardinality(held'[b]) <= MaxWorkers
  BY PositionsStep
<1>2. at' \in [Offer -> Resting \union Replica]  BY OffersMove
<1>3. \A r \in Replica : /\ IsFiniteSet({o \in Offer : at'[o] = r})
                         /\ Cardinality({o \in Offer : at'[o] = r}) <= Prefetch
  BY DeliveriesStep
<1>4. job' \in [Replica -> Job \union {NoJob}]  BY JobsMove
<1>5. linked' \in SUBSET Replica
  BY DEF TypeOK, Operation, Deliver, Take, DeadLetter, Lapse, Reconnect, Disconnect,
         Dies, AskGranted, AskRefused, AskFails, Publish, PublishFails, Ack, Over
<1>6. next' \in [Replica -> Nat]
  <2>1. ASSUME NEW r \in Replica, NEW o \in Offer, Take(r, o)
        PROVE  next' \in [Replica -> Nat]
    BY <2>1 DEF Take, TypeOK
  <2>2. ASSUME NEW r \in Replica, Dies(r) PROVE next' \in [Replica -> Nat]
    BY <2>2 DEF Dies, TypeOK
  <2>3. CASE next' = next  BY <2>3 DEF TypeOK
  <2> QED
    BY <2>1, <2>2, <2>3
    DEF Operation, Deliver, DeadLetter, Lapse, Reconnect, Disconnect,
        AskGranted, AskRefused, AskFails, Publish, PublishFails, Ack, Over
<1>7. faults' \in 0..MaxFaults
  <2>1. faults' = faults \/ Fault
    BY DEF Operation, Deliver, Take, DeadLetter, Lapse, Reconnect, Disconnect,
           Dies, AskGranted, AskRefused, AskFails, Publish, PublishFails, Ack, Over
  <2> QED BY <2>1, HostAssumption DEF Fault, TypeOK
<1> QED BY <1>1, <1>2, <1>3, <1>4, <1>5, <1>6, <1>7 DEF TypeOK, Finite

-----------------------------------------------------------------------------
(* What the outcomes say. *)

LEMMA HandStep ==
    ASSUME TypeOK, Operation, InHand, HiredWhereClaimed
    PROVE  InHand' /\ HiredWhereClaimed'
<1>1. granted \subseteq granted'
  BY DEF Operation, Deliver, Take, DeadLetter, Lapse, Reconnect, Disconnect,
         Dies, AskGranted, AskRefused, AskFails, Publish, PublishFails, Ack, Over, records
<1>2. ASSUME NEW r \in Replica, job'[r] # NoJob
      PROVE  (job'[r].sent => ~Asking(r)') /\ Hired(r)' \subseteq granted'
  <2>1. CASE job'[r] = job[r]
    BY <1>1, <1>2, <2>1 DEF InHand, Asking, Hired, AskedPip
  <2>2. CASE \E o \in Offer : Take(r, o)
    <3>1. ~job'[r].sent /\ job'[r].took = 0  BY <2>2, TakenJob
    <3> QED BY <3>1 DEF Hired
  <2>3. CASE AskGranted(r) \/ AskRefused(r) \/ AskFails(r)
    <3>1. Asking(r) /\ ~job'[r].sent
      <4>1. Asking(r) /\ job'[r].sent = job[r].sent /\ job[r] # NoJob
        BY <2>3, AskedJob, JobsAreJobs
      <4> QED BY <4>1 DEF InHand
    <3>2. CASE AskGranted(r)
      <4>1. /\ job'[r].took = Nth(job[r]) /\ job'[r].took # 0
            /\ job'[r].offer = job[r].offer
        BY <2>3, <3>2, AskedJob
      <4>2. Hired(r)' = {<<Nth(job[r]), AskedPip(r)>>}  BY <4>1 DEF Hired, AskedPip
      <4>3. <<Nth(job[r]), AskedPip(r)>> \in granted'  BY <3>2 DEF AskGranted
      <4> QED BY <3>1, <4>2, <4>3
    <3>3. CASE ~AskGranted(r)
      <4>1. job'[r].took = 0  BY <2>3, <3>3, AskedJob
      <4> QED BY <3>1, <4>1 DEF Hired
    <3> QED BY <3>2, <3>3
  <2>4. CASE Publish(r)
    <3>1. /\ job[r] # NoJob /\ job'[r].tried = job[r].tried
          /\ job'[r].took = job[r].took /\ job'[r].offer = job[r].offer
      BY <2>4, PublishedJob, JobsAreJobs
    <3>2. ~Asking(r)  BY <2>4 DEF Publish, Decided
    <3>3. ~Asking(r)' /\ Hired(r)' = Hired(r)  BY <3>1, <3>2 DEF Asking, Hired, AskedPip
    <3> QED BY <1>1, <3>1, <3>3 DEF InHand
  <2> QED BY <1>2, <2>1, <2>2, <2>3, <2>4, JobsMove
<1>3. told' \subseteq granted'
  <2>1. CASE told' \subseteq told  BY <1>1, <2>1 DEF HiredWhereClaimed
  <2>2. ASSUME NEW r \in Replica, Publish(r) PROVE told' \subseteq granted'
    BY <1>1, <2>2 DEF Publish, Decided, InHand, HiredWhereClaimed
  <2> QED
    BY <2>1, <2>2
    DEF Operation, Deliver, Take, DeadLetter, Lapse, Reconnect, Disconnect,
        Dies, AskGranted, AskRefused, AskFails, PublishFails, Ack, Over, records
<1> QED BY <1>2, <1>3 DEF InHand, HiredWhereClaimed

-----------------------------------------------------------------------------
(* Where every shift on record is known. *)

\* A shift is on record because it was, or because it was claimed just now.
LEMMA ShiftsMove ==
    ASSUME TypeOK, Operation, NEW s \in Shifts'
    PROVE  \/ s \in Shifts
           \/ \E r \in Replica : AskGranted(r) /\ s = <<Nth(job[r]), AskedPip(r)>>
           \/ s \in orphans'
<1>1. s \in Building \X Pip /\ s[2] \in held'[s[1]]  BY DEF Shifts
<1>2. held \in [Building -> SUBSET Pip]  BY DEF TypeOK
<1>3. CASE held' = held  BY <1>1, <1>3 DEF Shifts
<1>4. ASSUME NEW b \in Building, NEW p \in Pip, Over(b, p) PROVE s \in Shifts
  BY <1>1, <1>2, <1>4 DEF Over, Shifts
<1>5. ASSUME NEW r \in Replica, AskGranted(r) \/ AskFails(r), held' # held
      PROVE  s \in Shifts \/ s = <<Nth(job[r]), AskedPip(r)>>
  <2>1. held' = [held EXCEPT ![Nth(job[r])] = @ \union {AskedPip(r)}]
    BY <1>5 DEF AskGranted, AskFails
  <2>2. s = <<s[1], s[2]>> /\ s[1] \in Building  BY <1>1
  <2> HIDE DEF Nth, AskedPip
  <2>3. CASE s[1] # Nth(job[r])  BY <1>1, <1>2, <2>1, <2>2, <2>3 DEF Shifts
  <2>4. CASE s[1] = Nth(job[r])
    <3>1. s[2] \in held[s[1]] \/ s[2] = AskedPip(r)  BY <1>1, <1>2, <2>1, <2>2, <2>4
    <3> QED BY <1>1, <2>2, <2>4, <3>1 DEF Shifts
  <2> QED BY <2>3, <2>4
<1>6. ASSUME NEW r \in Replica, AskFails(r), held' # held
      PROVE  s \in Shifts \/ s \in orphans'
  BY <1>5, <1>6 DEF AskFails
<1> QED
  BY <1>3, <1>4, <1>5, <1>6
  DEF Operation, Deliver, Take, DeadLetter, Lapse, Reconnect, Disconnect,
      Dies, AskRefused, Publish, PublishFails, Ack

\* What was known of a shift on record stays known.
LEMMA KnownStaysKnown ==
    ASSUME TypeOK, Operation, NEW s \in Shifts', s \in told \union orphans
    PROVE  s \in told' \union orphans'
<1>1. ASSUME NEW b \in Building, NEW p \in Pip, Over(b, p)
      PROVE  s \in told' \union orphans'
  <2>1. s # <<b, p>>  BY <1>1 DEF Over, Shifts, TypeOK
  <2> QED BY <1>1, <2>1 DEF Over
<1>2. CASE told \subseteq told' /\ orphans \subseteq orphans'  BY <1>2
<1> QED
  BY <1>1, <1>2
  DEF Operation, Deliver, Take, DeadLetter, Lapse, Reconnect, Disconnect,
      Dies, AskGranted, AskRefused, AskFails, Publish, PublishFails, Ack, records

LEMMA AccountedStep ==
    ASSUME TypeOK, Operation, InHand, Accounted
    PROVE  Accounted'
<1> SUFFICES ASSUME NEW s \in Shifts', s \notin told' \union orphans'
             PROVE  \E r \in Replica : job'[r] # NoJob /\ ~job'[r].sent /\ s \in Hired(r)'
  BY DEF Accounted
<1>1. ASSUME NEW r \in Replica, AskGranted(r), s = <<Nth(job[r]), AskedPip(r)>>
      PROVE  job'[r] # NoJob /\ ~job'[r].sent /\ s \in Hired(r)'
  <2>1. /\ job'[r] # NoJob /\ job[r] # NoJob /\ Asking(r)
        /\ job'[r].sent = job[r].sent
        /\ job'[r].took = Nth(job[r]) /\ job'[r].took # 0
        /\ job'[r].offer = job[r].offer
    BY <1>1, AskedJob, JobsAreJobs
  <2>2. s \in Hired(r)'  BY <1>1, <2>1 DEF Hired, AskedPip
  <2> QED BY <2>1, <2>2 DEF InHand
<1>2. ASSUME s \in Shifts, NEW r \in Replica,
             job[r] # NoJob, ~job[r].sent, s \in Hired(r)
      PROVE  job'[r] # NoJob /\ ~job'[r].sent /\ s \in Hired(r)'
  <2>1. job[r].took # 0  BY <1>2 DEF Hired
  <2>2. CASE job'[r] = job[r]  BY <1>2, <2>2 DEF Hired, AskedPip
  <2>3. CASE Dies(r) \/ PublishFails(r)
    <3>1. s \in orphans'  BY <1>2, <2>3 DEF Dies, PublishFails
    <3> QED BY <3>1
  <2>4. CASE Ack(r)  BY <1>2, <2>4 DEF Ack
  <2>5. CASE \E o \in Offer : Take(r, o)  BY <1>2, <2>5 DEF Take
  <2>6. CASE AskGranted(r) \/ AskRefused(r) \/ AskFails(r)  BY <2>1, <2>6, AskedJob
  <2>7. CASE Publish(r)
    <3>1. s \in told'  BY <1>2, <2>7 DEF Publish
    <3> QED BY <3>1
  <2> QED BY <2>2, <2>3, <2>4, <2>5, <2>6, <2>7, JobsMove
<1>3. s \notin told \union orphans  BY KnownStaysKnown
<1>4. CASE s \in Shifts  BY <1>2, <1>3, <1>4 DEF Accounted
<1> QED BY <1>1, <1>4, ShiftsMove

-----------------------------------------------------------------------------
(* Whom a replica has asked. *)

\* What has had room all along has room now, and had it before.
LEMMA VacantStep ==
    ASSUME Watch, NEW r \in Replica
    PROVE  /\ vacant'[r] \subseteq Building
           /\ \A b \in vacant'[r] : job'[r] # NoJob /\ HasRoom(b, AskedPip(r))'
           /\ job[r] # NoJob => vacant'[r] \subseteq vacant[r]
BY DEF Watch

LEMMA AskedStep ==
    ASSUME TypeOK, Operation, Watch, hosting' = hosting, AskedHadNoRoom
    PROVE  AskedHadNoRoom'
<1> SUFFICES ASSUME NEW r \in Replica, job'[r] # NoJob, job'[r].took = 0,
                    NEW k \in 0..N - 1, k < job'[r].tried,
                    Turn(job'[r], k) \in vacant'[r]
             PROVE  Turn(job'[r], k) \in job'[r].failed
  BY DEF AskedHadNoRoom, Turn
<1> DEFINE b == Turn(job'[r], k)
<1>1. ASSUME job[r] # NoJob, job[r].took = 0, job'[r].start = job[r].start,
             k < job[r].tried, job[r].failed \subseteq job'[r].failed
      PROVE  b \in job'[r].failed
  <2>1. b = Turn(job[r], k)  BY <1>1 DEF Turn
  <2>2. b \in vacant[r]  BY <1>1, VacantStep
  <2> HIDE DEF b
  <2> QED BY <1>1, <2>1, <2>2 DEF AskedHadNoRoom
<1>2. CASE job'[r] = job[r]
  BY <1>1, <1>2
<1>3. CASE \E o \in Offer : Take(r, o)
  <2>1. job'[r].tried = 0  BY <1>3, TakenJob
  <2> QED BY <2>1
<1>4. CASE AskGranted(r)
  BY <1>4, AskedJob
<1>5. CASE ~AskGranted(r) /\ (AskRefused(r) \/ AskFails(r))
  <2>1. /\ Asking(r) /\ job[r] # NoJob /\ job[r].took = 0
        /\ job'[r].start = job[r].start /\ job'[r].offer = job[r].offer
        /\ job'[r].tried = job[r].tried + 1
        /\ job[r].failed \subseteq job'[r].failed
    BY <1>5, AskedJob, JobsAreJobs
  <2>2. Nth(job[r]) = Turn(job[r], job[r].tried) /\ job[r].tried \in 0..N - 1
    BY <2>1, NthIsBuilding
  <2>3. CASE k < job[r].tried  BY <1>1, <2>1, <2>3
  <2>4. CASE k = job[r].tried
    <3>1. b = Nth(job[r])  BY <2>1, <2>2, <2>4 DEF Turn
    <3>2. CASE AskFails(r)  BY <1>5, <3>1, <3>2, AskedJob
    <3>3. CASE AskRefused(r)
      <4>1. ~HasRoom(Nth(job[r]), AskedPip(r)) /\ held' = held
        BY <3>3 DEF AskRefused
      <4>2. /\ AskedPip(r) \notin held'[b]
            /\ Cardinality(held'[b]) < MaxWorkers
            /\ AskedPip(r)' = AskedPip(r)
        BY <2>1, VacantStep DEF HasRoom, AskedPip
      <4> HIDE DEF b
      <4> QED BY <3>1, <4>1, <4>2 DEF HasRoom
    <3> QED BY <1>5, <3>2, <3>3
  <2> QED BY <2>1, <2>2, <2>3, <2>4
<1>6. CASE Publish(r)
  <2>1. /\ job[r] # NoJob /\ job[r].took = 0 /\ job'[r].start = job[r].start
        /\ job'[r].tried = job[r].tried /\ job'[r].failed = job[r].failed
    BY <1>6, PublishedJob, JobsAreJobs
  <2> QED BY <1>1, <2>1
<1> QED BY <1>2, <1>3, <1>4, <1>5, <1>6, JobsMove

-----------------------------------------------------------------------------
(* The theorems. *)

LEMMA InitInv == Init => IInv
<1> SUFFICES ASSUME Init PROVE IInv  OBVIOUS
<1>1. IsFiniteSet({}) /\ Cardinality({}) = 0  BY FS_EmptySet
<1>2. \A r \in Replica : {o \in Offer : at[o] = r} = {}
  BY HostAssumption DEF Init, Resting
<1>3. /\ \A b \in Building : IsFiniteSet(held[b])
      /\ \A r \in Replica : IsFiniteSet({o \in Offer : at[o] = r})
      /\ \A r \in Replica : Cardinality({o \in Offer : at[o] = r}) <= Prefetch
  <2>1. \A b \in Building : IsFiniteSet(held[b])  BY <1>1 DEF Init
  <2>2. ASSUME NEW r \in Replica
        PROVE  /\ IsFiniteSet({o \in Offer : at[o] = r})
               /\ Cardinality({o \in Offer : at[o] = r}) <= Prefetch
    <3>1. {o \in Offer : at[o] = r} = {}  BY <1>2
    <3> QED BY <1>1, <3>1, HostAssumption
  <2> QED BY <2>1, <2>2
<1>4. /\ held \in [Building -> SUBSET Pip] /\ at \in [Offer -> Resting \union Replica]
      /\ next \in [Replica -> Nat] /\ job \in [Replica -> Job \union {NoJob}]
      /\ faults \in 0..MaxFaults /\ hosting \in {"plain", "actor"} /\ linked = {}
  BY HostAssumption DEF Init, Resting
<1>5. TypeOK
  <2>1. \A b \in Building : Cardinality(held[b]) <= MaxWorkers
    BY <1>1, HostAssumption DEF Init
  <2> QED BY <1>3, <1>4, <2>1 DEF TypeOK, Finite
<1>6. Shifts = {}  BY DEF Init, Shifts
<1> QED
  BY <1>3, <1>5, <1>6
  DEF Init, IInv, Finite, VacantAreBuildings, InHand, HiredWhereClaimed, Accounted, AskedHadNoRoom

LEMMA NextInv == IInv /\ [Next]_vars => IInv'
<1>1. ASSUME IInv, Next PROVE IInv'
  <2>1. Operation /\ Watch /\ hosting' = hosting  BY <1>1, NextIsOperation
  <2>2. TypeOK' /\ Finite'  BY <1>1, <2>1, TypeStep DEF IInv
  <2>3. VacantAreBuildings'  BY <2>1 DEF Watch, VacantAreBuildings
  <2>4. InHand' /\ HiredWhereClaimed'  BY <1>1, <2>1, HandStep DEF IInv
  <2>5. Accounted'  BY <1>1, <2>1, AccountedStep DEF IInv
  <2>6. AskedHadNoRoom'  BY <1>1, <2>1, AskedStep DEF IInv
  <2> QED BY <2>2, <2>3, <2>4, <2>5, <2>6 DEF IInv
<1>2. ASSUME IInv, UNCHANGED vars PROVE IInv'
  <2>1. /\ hosting' = hosting /\ held' = held /\ at' = at /\ linked' = linked
        /\ next' = next /\ job' = job /\ faults' = faults /\ granted' = granted
        /\ told' = told /\ orphans' = orphans /\ vacant' = vacant
    BY <1>2 DEF vars, records
  <2>2. TypeOK' /\ Finite'  BY <1>2, <2>1 DEF IInv, TypeOK, Finite
  <2>3. VacantAreBuildings' /\ HiredWhereClaimed'
    BY <1>2, <2>1 DEF IInv, VacantAreBuildings, HiredWhereClaimed
  <2>4. InHand'  BY <1>2, <2>1 DEF IInv, InHand, Hired, AskedPip, Asking
  <2>5. Accounted'  BY <1>2, <2>1 DEF IInv, Accounted, Shifts, Hired, AskedPip
  <2>6. AskedHadNoRoom'  BY <1>2, <2>1 DEF IInv, AskedHadNoRoom, Turn
  <2> QED BY <2>2, <2>3, <2>4, <2>5, <2>6 DEF IInv
<1> QED BY <1>1, <1>2

\* The inductive invariant of the host.
THEOREM HostInv == Spec => []IInv
BY InitInv, NextInv, PTL DEF Spec

\* Every variable keeps its type; no building holds more pips than it has
\* positions (Claim), no replica more deliveries than its prefetch (session).
THEOREM HostTypeCorrect == Spec => []TypeOK
<1>1. IInv => TypeOK  BY DEF IInv
<1> QED BY <1>1, HostInv, PTL

\* The gateway is told of no shift that the building the outcome names did
\* not claim (handle, ConsiderOffer).
THEOREM HiredOnlyWhereClaimed == Spec => []HiredWhereClaimed
<1>1. IInv => HiredWhereClaimed  BY DEF IInv
<1> QED BY <1>1, HostInv, PTL

\* Every shift on record is known to the gateway, in the hands of a replica,
\* or orphaned by a fault between the claim and the outcome (handle, session).
THEOREM ShiftsStayAccountedFor == Spec => []EveryShiftAccountedFor
<1>1. IInv => EveryShiftAccountedFor  BY DEF IInv, Accounted, EveryShiftAccountedFor
<1> QED BY <1>1, HostInv, PTL

\* An offer is refused on behalf of all buildings only if each of them that
\* answered was without room at some time meanwhile, wherever the rotation
\* started (ConsiderOffer).
THEOREM NobodyIsTurnedAway == Spec => []NobodyTurnedAway
<1>1. ASSUME IInv, NEW r \in Replica, Decided(r), job[r].took = 0,
             NEW b \in vacant[r]
      PROVE  b \in job[r].failed
  <2>1. job[r] \in Job /\ job[r] # NoJob /\ ~(job[r].tried < N)
    BY <1>1 DEF IInv, TypeOK, Decided, Asking
  <2>2. b \in Building  BY <1>1 DEF IInv, VacantAreBuildings
  <2>3. PICK k \in 0..N - 1 : Turn(job[r], k) = b
    BY <2>1, <2>2, EveryBuildingHasATurn
  <2>4. k < job[r].tried  BY <2>1, HostAssumption DEF Job
  <2> QED BY <1>1, <2>1, <2>3, <2>4 DEF IInv, AskedHadNoRoom
<1>2. IInv => NobodyTurnedAway  BY <1>1 DEF NobodyTurnedAway
<1> QED BY <1>2, HostInv, PTL
=============================================================================
