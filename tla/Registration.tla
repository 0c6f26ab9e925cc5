---------------------------- MODULE Registration ----------------------------
(***************************************************************************)
(* How the buildings get on the map, stay there, and are seen: the world   *)
(* gateway discovers the workplaces once, when it starts, and registers    *)
(* them with sim-core for ever after; it draws the services themselves as  *)
(* structures, lit or dark; and it relays the core's deltas to the clients *)
(* (gateway main.go, gateway.go, structures.go, the registering half of    *)
(* driver.go, and the stream of sim-core's grpc.rs).                       *)
(*                                                                         *)
(* A core that restarts has an empty map.  Nobody tells the gateway.       *)
(***************************************************************************)
EXTENDS Integers, Sequences, SequencesExt, FiniteSets

CONSTANTS
    Address, Building, HostOf, \* workplace -> the address that hosts it
    Old,         \* addresses that do not implement List
    Plot,        \* workplace -> where its configured position is, if it has one
    TooClose,    \* pairs of workplaces within WORKPLACE_MIN_SPACING of each other
    Structures,  \* the services to draw, in the order they were configured
    ServiceOf,   \* structure -> its address, or NoURL if it has no health URL
    NoURL,
    Channel,     \* deltas the core keeps for a subscriber that lags
    MaxFaults    \* bound on restarts, outages and failed calls

Structure == Range(Structures)
Thing == Building \union Structure

ASSUME RegistrationAssumption ==
    /\ IsFiniteSet(Building)
    /\ Structures \in Seq(Structure)
    /\ Structure \intersect Building = {}
    /\ HostOf \in [Building -> Address] /\ Old \subseteq Address
    /\ \A a \in Old : Cardinality({w \in Building : HostOf[w] = a}) = 1
    /\ \A w, x \in Building : <<w, x>> \in TooClose => <<x, w>> \in TooClose
    /\ \A s \in Structure : ServiceOf[s] \in Address \union {NoURL}
    /\ Channel \in Nat \ {0} /\ MaxFaults \in Nat

VARIABLES
    up,        \* addresses that answer
    typo,      \* whether WORKPLACE_POSITIONS cannot be parsed
    gateway,   \* "off", "discovering", "running", "exited"
    unasked,   \* addresses not asked yet which buildings they host
    drivers,   \* workplaces the gateway drives
    known,     \* those whose id its driver knows
    described, \* drivers between Describe and SubmitIntent
    turn,      \* structure whose turn it is at the registrar
    polled,    \* its health, once polled, until it is submitted
    pending,   \* sim-core: thing -> what the next tick makes of it, or "none"
    map,       \* thing -> "absent", "dark" or "lit"
    client,    \* "out", "joined" or "streaming"
    backlog,   \* deltas broadcast and not yet received
    view,      \* thing -> what the client draws
    faults

core == <<pending, map>>
watcher == <<client, backlog, view>>
economy == <<unasked, drivers, known, described>>
registrar == <<turn, polled>>
mvars == <<up, typo, gateway, economy, registrar, core, watcher, faults>>

NoIntents == [t \in Thing |-> "none"]
EmptyMap == [t \in Thing |-> "absent"]

Fault == faults < MaxFaults /\ faults' = faults + 1

-----------------------------------------------------------------------------
(* The gateway starts. *)

\* Positions that cannot be parsed keep the gateway from starting at all.
StartGateway ==
    /\ gateway = "off"
    /\ gateway' = IF typo THEN "exited" ELSE "discovering"
    /\ unasked' = Address
    /\ UNCHANGED <<up, typo, drivers, known, described, registrar, core, watcher, faults>>

Hosted(a) == {w \in Building : HostOf[w] = a}

\* Discover: an address that answers is driven from now on, one that does not
\* never is.  An old one does not say who it is.
Discover(a) ==
    /\ gateway = "discovering" /\ a \in unasked
    /\ unasked' = unasked \ {a}
    /\ \/ /\ a \in up
          /\ drivers' = drivers \union Hosted(a)
          /\ known' = IF a \in Old THEN known ELSE known \union Hosted(a)
          /\ UNCHANGED faults
       \/ a \notin up /\ UNCHANGED <<drivers, known, faults>>
       \/ a \in up /\ Fault /\ UNCHANGED <<drivers, known>>
    /\ gateway' = IF unasked' = {} THEN "running" ELSE gateway
    /\ UNCHANGED <<up, typo, described, registrar, core, watcher>>

\* The gateway restarts; its clients lose their streams.
GatewayRestarts ==
    /\ gateway \in {"discovering", "running"} /\ Fault
    /\ gateway' = "off"
    /\ unasked' = {} /\ drivers' = {} /\ known' = {} /\ described' = {}
    /\ turn' = 1 /\ polled' = "none"
    /\ client' = "out" /\ backlog' = <<>> /\ view' = EmptyMap
    /\ UNCHANGED <<up, typo, core>>

-----------------------------------------------------------------------------
(* KeepRegistered, one loop per driver. *)

\* Whether the workplace answers a Describe.
Answers(w) == HostOf[w] \in up

\* Stops once the workplace has told its id, that is, was registered once.
DescribeOnce(w) ==
    /\ gateway = "running" /\ w \in drivers \ described
    /\ Answers(w) /\ Plot[w] # "none"
    /\ HostOf[w] \in Old => w \notin known
    /\ described' = described \union {w}
    /\ UNCHANGED <<up, typo, gateway, unasked, drivers, known, registrar, core, watcher,
                   faults>>

\* Register begins: the workplace describes itself; without a configured
\* position that is the end of it.
Describe(w) ==
    /\ gateway = "running" /\ w \in drivers \ described
    /\ Answers(w) /\ Plot[w] # "none"
    /\ described' = described \union {w}
    /\ UNCHANGED <<up, typo, gateway, unasked, drivers, known, registrar, core, watcher,
                   faults>>

\* SubmitIntent; the driver knows its id from here on.
Register(w) ==
    /\ w \in described
    /\ described' = described \ {w}
    /\ \/ /\ pending' = [pending EXCEPT ![w] = "lit"]
          /\ known' = known \union {w}
          /\ UNCHANGED faults
       \/ Fault /\ UNCHANGED <<pending, known>>
    /\ UNCHANGED <<up, typo, gateway, unasked, drivers, registrar, map, watcher>>

-----------------------------------------------------------------------------
(* The registrar draws the services, one after the other, over and over. *)

Lit(b) == IF b THEN "lit" ELSE "dark"

\* A health check that fails is not believed.
HealthyAssumed(s) == TRUE

\* A structure without a health URL is taken to be up.
Healthy(s) == ServiceOf[s] = NoURL \/ ServiceOf[s] \in up

Poll ==
    /\ gateway = "running" /\ Structures # <<>> /\ polled = "none"
    /\ polled' = Lit(Healthy(Structures[turn]))
    /\ UNCHANGED <<up, typo, gateway, economy, turn, core, watcher, faults>>

Draw ==
    /\ polled # "none"
    /\ polled' = "none"
    /\ turn' = (turn % Len(Structures)) + 1
    /\ \/ pending' = [pending EXCEPT ![Structures[turn]] = polled] /\ UNCHANGED faults
       \/ Fault /\ UNCHANGED pending
    /\ UNCHANGED <<up, typo, gateway, economy, map, watcher>>

-----------------------------------------------------------------------------
(* sim-core. *)

\* The building is put wherever it is configured to stand.
AppliedAnyway(m, t) == [m EXCEPT ![t] = pending[t]]

\* A registration is an upsert, refused off the map and too close to another
\* workplace; a structure is drawn in any case.
Applied(m, t) ==
    IF /\ t \in Building
       /\ \/ Plot[t] = "off_map"
          \/ \E w \in Building \ {t} : m[w] # "absent" /\ <<t, w>> \in TooClose
    THEN m
    ELSE [m EXCEPT ![t] = pending[t]]

\* The intents in the order they came in: one, the last, for each thing.
Arrivals == SetToSeqs({t \in Thing : pending[t] # "none"})

\* Carries only what changed in this tick.
DeltaOfChanges(old, new) == [t \in {x \in Thing : old[x] # new[x]} |-> new[t]]

\* full_delta: all there is on the map, every tick.
Delta(old, new) == [t \in {x \in Thing : new[x] # "absent"} |-> new[t]]

\* Keeps everything for a subscriber that lags.
BroadcastAll(d) == Append(backlog, d)

\* A subscriber that lags misses the oldest deltas, and is not told.
Broadcast(d) ==
    IF Len(backlog) < Channel THEN Append(backlog, d) ELSE Append(Tail(backlog), d)

Tick ==
    /\ \E order \in Arrivals : map' = FoldLeft(Applied, map, order)
    /\ pending' = NoIntents
    /\ backlog' = IF client = "streaming" THEN Broadcast(Delta(map, map')) ELSE backlog
    /\ UNCHANGED <<up, typo, gateway, economy, registrar, client, view, faults>>

\* A fresh world; the streams of the old one break.
CoreRestarts ==
    /\ Fault
    /\ map' = EmptyMap /\ pending' = NoIntents
    /\ client' = (IF client = "streaming" THEN "out" ELSE client)
    /\ backlog' = <<>>
    /\ view' = (IF client = "streaming" THEN EmptyMap ELSE view)
    /\ UNCHANGED <<up, typo, gateway, economy, registrar>>

-----------------------------------------------------------------------------
(* A client of the gateway. *)

\* JoinWorld: a snapshot.
JoinWorld ==
    /\ gateway = "running" /\ client = "out"
    /\ client' = "joined"
    /\ view' = map
    /\ UNCHANGED <<up, typo, gateway, economy, registrar, core, backlog, faults>>

\* StreamWorld: deltas from now on, whatever tick the client asked for.
StreamWorld ==
    /\ client = "joined"
    /\ client' = "streaming"
    /\ UNCHANGED <<up, typo, gateway, economy, registrar, core, backlog, view, faults>>

Receive ==
    /\ client = "streaming" /\ backlog # <<>>
    /\ view' = LET d == Head(backlog)
               IN  [t \in Thing |-> IF t \in DOMAIN d THEN d[t] ELSE view[t]]
    /\ backlog' = Tail(backlog)
    /\ UNCHANGED <<up, typo, gateway, economy, registrar, core, client, faults>>

HangUp ==
    /\ client # "out"
    /\ client' = "out" /\ backlog' = <<>> /\ view' = EmptyMap
    /\ UNCHANGED <<up, typo, gateway, economy, registrar, core, faults>>

-----------------------------------------------------------------------------
\* A service goes down, or comes back.
Fails(a) ==
    /\ a \in up /\ Fault
    /\ up' = up \ {a}
    /\ UNCHANGED <<typo, gateway, economy, registrar, core, watcher>>

Returns(a) ==
    /\ a \notin up
    /\ up' = up \union {a}
    /\ UNCHANGED <<typo, gateway, economy, registrar, core, watcher, faults>>

MapInit ==
    /\ up \in SUBSET Address
    /\ typo \in BOOLEAN
    /\ gateway = "off"
    /\ unasked = {} /\ drivers = {} /\ known = {} /\ described = {}
    /\ turn = 1 /\ polled = "none"
    /\ pending = NoIntents /\ map = EmptyMap
    /\ client = "out" /\ backlog = <<>> /\ view = EmptyMap
    /\ faults = 0

MapNext ==
    \/ StartGateway \/ GatewayRestarts
    \/ \E a \in Address : Discover(a) \/ Fails(a) \/ Returns(a)
    \/ \E w \in Building : Describe(w) \/ Register(w)
    \/ Poll \/ Draw
    \/ Tick \/ CoreRestarts
    \/ JoinWorld \/ StreamWorld \/ Receive \/ HangUp

\* The loops of the gateway and the core never end; a stream that is open is
\* read.  Services need not return, and clients come and go as they like.
Fairness ==
    /\ WF_mvars(StartGateway)
    /\ WF_mvars(\E a \in Address : Discover(a))
    /\ \A w \in Building : WF_mvars(Describe(w)) /\ WF_mvars(Register(w))
    /\ WF_mvars(Poll) /\ WF_mvars(Draw)
    /\ WF_mvars(Tick)
    /\ WF_mvars(Receive)

MapSpec == MapInit /\ [][MapNext]_mvars /\ Fairness

-----------------------------------------------------------------------------
Look == {"absent", "dark", "lit"}
Deltas == UNION {[S -> Look] : S \in SUBSET Thing}

\* Every variable keeps its type; the core keeps a bounded number of deltas
\* for a subscriber.
MapTypeOK ==
    /\ up \in SUBSET Address /\ typo \in BOOLEAN
    /\ gateway \in {"off", "discovering", "running", "exited"}
    /\ unasked \in SUBSET Address
    /\ known \subseteq drivers /\ described \subseteq drivers
    /\ drivers \in SUBSET Building
    /\ turn \in {1} \union 1..Len(Structures) /\ polled \in {"none", "dark", "lit"}
    /\ pending \in [Thing -> {"none", "dark", "lit"}]
    /\ map \in [Thing -> Look]
    /\ client \in {"out", "joined", "streaming"}
    /\ backlog \in Seq(Deltas) /\ Len(backlog) <= Channel
    /\ view \in [Thing -> Look]
    /\ faults \in 0..MaxFaults

\* No two workplaces ever stand in each other's way and none stands where nobody
\* configured it to, however their registrations race after a restart of the
\* core or of the gateway (Register, RegisterWorkplace).
OnePerPlot ==
    \A w \in Building : map[w] # "absent" =>
        /\ Plot[w] \notin {"none", "off_map"}
        /\ \A x \in Building : map[x] # "absent" /\ <<w, x>> \in TooClose => x = w

\* A workplace that stays up and is driven gets on the map and stays there,
\* unless another one stands in its way: also after the core lost the map
\* without telling anybody (KeepRegistered).
StaysOnTheMap ==
    \A w \in Building :
        Plot[w] \notin {"none", "off_map"}
            /\ <>[](HostOf[w] \in up /\ w \in drivers /\ gateway = "running")
        => <>[](\E x \in Building : (x = w \/ <<w, x>> \in TooClose) /\ map[x] = "lit")

\* A structure ends up lit if its service stays up, and dark if it stays down:
\* no poll that was overtaken by an outage or a restart of the core leaves the
\* map wrong for good (registerAll, healthy).
HealthBecomesCurrent ==
    \A s \in Structure : \A h \in BOOLEAN :
        <>[](gateway = "running" /\ (ServiceOf[s] \in up \union {NoURL}) = h)
            => <>[](map[s] = Lit(h))

\* A client that goes on streaming ends up drawing what is on the map, also
\* when it lagged and the core dropped deltas it never saw (watch_deltas,
\* full_delta, StreamWorld).
ViewCatchesUp ==
    \A t \in Thing : \A l \in {"dark", "lit"} :
        <>[](client = "streaming" /\ map[t] = l) => <>[](view[t] = l)
=============================================================================
