--------------------------- MODULE PostgresLedger ---------------------------
(***************************************************************************)
(* The bank's authoritative ledger, services/bank/internal/ledger/         *)
(* postgres.go: the methods of Ledger as Postgres transactions of several  *)
(* statements, run by concurrent clients (RPC handlers, the purchase and   *)
(* the escheat consumers, replicas of the bank).                           *)
(*                                                                         *)
(* A row written by an open transaction is locked until it ends, so the    *)
(* writes of a transaction take effect at its commit.  What interleaves is *)
(* what the code reads before it holds the locks (lookupIdempotent), the   *)
(* order in which rows are locked, and how a transaction ends.             *)
(***************************************************************************)
EXTENDS Integers, Sequences, FiniteSets

CONSTANTS Account, Treasury, Tick, Transfers, Batches, FactId, Facts,
          Client,         \* goroutines with a transaction of their own
          Rank,           \* account id -> its place in string order
          MaxDeliveries   \* bound: how often Kafka delivers one fact

NoCall == [op |-> "none"]
NoReply == [status |-> "none"]

VARIABLES accounts,     \* bank.accounts: the committed balances
          journal,      \* bank.journal: the committed bookings
          idempotency,  \* bank.idempotency: key -> result
          pc,           \* client -> "idle", "locking" or "funded"
          call,         \* client -> the call its transaction serves
          todo,         \* client -> rows it has still to lock, in order
          locked,       \* client -> rows its transaction has locked
          reply,        \* client -> what its last call returned
          delivered     \* fact -> how often Post was called for it

tables == <<accounts, journal, idempotency>>
vars == <<accounts, journal, idempotency, pc, call, todo, locked, reply, delivered>>

\* The ledger these tables represent.  There is no table of posted facts: a
\* fact has been posted when the journal has an entry under its id.
L == INSTANCE Ledger WITH
        balance <- accounts,
        idempotent <- idempotency,
        posted <- {journal[n].id : n \in DOMAIN journal} \cap FactId

ASSUME RankAssumption ==
    /\ \A a \in Account : Rank[a] \in Nat
    /\ \A a, b \in Account : Rank[a] = Rank[b] => a = b

ASSUME DeliveryAssumption == MaxDeliveries \in Nat

\* The accounts, calls and ids are those of the ledger.
ASSUME LedgerAssumptions ==
    L!AccountAssumption /\ L!CallAssumption /\ L!FactIdAssumption

-----------------------------------------------------------------------------
(* Calls.                                                                  *)

TransferOp(c) == [op |-> "transfer", key |-> L!TransferKey(c), payer |-> c.payer,
                  credits |-> L!OneCredit(c), kind |-> c.kind, tick |-> c.tick]
BatchOp(c) == [op |-> "batch", key |-> L!BatchKey(c), payer |-> c.payer,
               credits |-> c.credits, kind |-> c.kind, tick |-> c.tick]
PostOp(f) == [op |-> "post", key |-> f.id, payer |-> f.payer,
              credits |-> L!OneCredit(f), kind |-> f.kind, tick |-> f.tick]

\* Variant: the payer is locked first, whatever the ids.
LockOrderPayerFirst(op) ==
    {<<op.payer, p>> : p \in DOMAIN op.credits}

\* lockOrder: both rows, in the string order of their ids.
LockOrder(op) ==
    LET rows == DOMAIN op.credits \cup {op.payer}
    IN  {s \in [1..Cardinality(rows) -> rows] :
            \A i, j \in DOMAIN s : i < j => Rank[s[i]] < Rank[s[j]]}

\* BatchTransfer locks the payer, then updates the payees in list order, which
\* is whatever order the caller listed them in.
BatchOrder(op) ==
    LET payees == DOMAIN op.credits
    IN  {<<op.payer>> \o s : s \in
            {s \in [1..Cardinality(payees) -> payees] :
                \A i, j \in DOMAIN s : i # j => s[i] # s[j]}}

-----------------------------------------------------------------------------
(* Transactions.                                                           *)

\* Variant: an early return forgets the deferred Rollback.
EndKeepingLocks(c, r) ==
    /\ pc' = [pc EXCEPT ![c] = "idle"]
    /\ call' = [call EXCEPT ![c] = NoCall]
    /\ todo' = [todo EXCEPT ![c] = << >>]
    /\ reply' = [reply EXCEPT ![c] = r]
    /\ UNCHANGED <<locked, delivered>>

\* The transaction ends, committed or rolled back: its locks are released.
End(c, r) ==
    /\ pc' = [pc EXCEPT ![c] = "idle"]
    /\ call' = [call EXCEPT ![c] = NoCall]
    /\ todo' = [todo EXCEPT ![c] = << >>]
    /\ locked' = [locked EXCEPT ![c] = {}]
    /\ reply' = [reply EXCEPT ![c] = r]
    /\ UNCHANGED delivered

Answer(op, result) == [status |-> "answered", key |-> op.key, result |-> result]
Failed(op) == [status |-> "error", key |-> op.key]
Booked(op) == [status |-> "booked", key |-> op.key]

Open(c, op, order) ==
    /\ pc' = [pc EXCEPT ![c] = "locking"]
    /\ call' = [call EXCEPT ![c] = op]
    /\ todo' = [todo EXCEPT ![c] = order]
    /\ reply' = [reply EXCEPT ![c] = NoReply]
    /\ UNCHANGED <<tables, locked>>

\* Begin and lookupIdempotent: a cached result is returned without a lock.
BeginPay(c, op, orders) ==
    /\ pc[c] = "idle"
    /\ \/ /\ op.key \in DOMAIN idempotency
          /\ End(c, Answer(op, idempotency[op.key]))
          /\ UNCHANGED tables
       \/ /\ op.key \notin DOMAIN idempotency
          /\ \E order \in orders : Open(c, op, order)
          /\ UNCHANGED delivered

BeginTransfer(c) == \E t \in Transfers :
    BeginPay(c, TransferOp(t), LockOrder(TransferOp(t)))

BeginBatch(c) == \E b \in Batches :
    BeginPay(c, BatchOp(b), BatchOrder(BatchOp(b)))

\* Post has no lookup: it goes straight to the locks.
BeginPost(c) == \E f \in Facts :
    /\ pc[c] = "idle"
    /\ delivered[f] < MaxDeliveries
    /\ delivered' = [delivered EXCEPT ![f] = @ + 1]
    /\ \E order \in LockOrder(PostOp(f)) : Open(c, PostOp(f), order)

\* Variant: the balance is read without FOR UPDATE.
LockRowNoWait(c) ==
    /\ todo[c] # << >>
    /\ pc[c] = "funded" \/ call[c].op # "batch" \/ locked[c] = {}
    /\ locked' = [locked EXCEPT ![c] = @ \cup {Head(todo[c])}]
    /\ todo' = [todo EXCEPT ![c] = Tail(@)]
    /\ UNCHANGED <<tables, pc, call, reply, delivered>>

\* ensureAccount and lockAccount (or the UPDATE of a payee): waits for the row.
LockRow(c) ==
    /\ todo[c] # << >>
    /\ pc[c] = "funded" \/ call[c].op # "batch" \/ locked[c] = {}
    /\ \A d \in Client \ {c} : Head(todo[c]) \notin locked[d]
    /\ locked' = [locked EXCEPT ![c] = @ \cup {Head(todo[c])}]
    /\ todo' = [todo EXCEPT ![c] = Tail(@)]
    /\ UNCHANGED <<tables, pc, call, reply, delivered>>

\* The balance check of Transfer (both rows locked) and of BatchTransfer (only
\* the payer's row locked).  Refused: rolled back, nothing recorded.
CheckFunds(c) ==
    /\ pc[c] = "locking"
    /\ \/ call[c].op = "transfer" /\ todo[c] = << >>
       \/ call[c].op = "batch" /\ locked[c] = {call[c].payer}
    /\ LET op == call[c]
           total == L!SumOf(op.credits)
       IN  \/ /\ L!CanPay(op.payer, total)
              /\ pc' = [pc EXCEPT ![c] = "funded"]
              /\ UNCHANGED <<tables, call, todo, locked, reply, delivered>>
           \/ /\ ~L!CanPay(op.payer, total)
              /\ End(c, Answer(op, [ok |-> FALSE,
                                    payerBalance |-> accounts[op.payer]]))
              /\ UNCHANGED tables

\* Variant: recordIdempotent upserts, so a second commit of a key succeeds.
CommitPayUpsert(c) ==
    /\ pc[c] = "funded" /\ todo[c] = << >>
    /\ LET op == call[c]
           result == L!Paid(op.payer, op.credits)
       IN  /\ L!Book(op.key, op.payer, op.credits, op.kind, op.tick)
           /\ L!Remember(op.key, result)
           /\ End(c, Answer(op, result))

\* Variant: a key that is already booked is tried again and again.
CommitPayInsists(c) ==
    /\ pc[c] = "funded" /\ todo[c] = << >>
    /\ LET op == call[c]
           result == L!Paid(op.payer, op.credits)
       IN  /\ op.key \notin DOMAIN idempotency
           /\ L!Book(op.key, op.payer, op.credits, op.kind, op.tick)
           /\ L!Remember(op.key, result)
           /\ End(c, Answer(op, result)) \/ End(c, Failed(op))

\* The updates, the journal rows, recordIdempotent and Commit.  The plain
\* INSERT of recordIdempotent fails when another transaction committed the
\* same key since the lookup.
CommitPay(c) ==
    /\ pc[c] = "funded" /\ todo[c] = << >>
    /\ LET op == call[c]
           result == L!Paid(op.payer, op.credits)
       IN  \/ /\ op.key \in DOMAIN idempotency
              /\ End(c, Failed(op))
              /\ UNCHANGED tables
           \/ /\ op.key \notin DOMAIN idempotency
              /\ L!Book(op.key, op.payer, op.credits, op.kind, op.tick)
              /\ L!Remember(op.key, result)
              /\ \/ End(c, Answer(op, result))
                 \/ End(c, Failed(op))       \* committed, but the answer is lost

\* Post's INSERT ... ON CONFLICT DO NOTHING and Commit.  The only unique
\* column of bank.journal is its serial id, so the insert never conflicts,
\* RowsAffected is never zero and the balances always move.
CommitPost(c) ==
    /\ pc[c] = "locking" /\ call[c].op = "post" /\ todo[c] = << >>
    /\ LET op == call[c]
       IN  /\ L!Book(op.key, op.payer, op.credits, op.kind, op.tick)
           /\ End(c, Booked(op)) \/ End(c, Failed(op))
    /\ UNCHANGED idempotency

\* Any statement may fail, and the process or its connection may die: the
\* deferred Rollback, or Postgres itself, undoes the transaction.
Abort(c) ==
    /\ pc[c] # "idle"
    /\ End(c, Failed(call[c]))
    /\ UNCHANGED tables

Waits(c, d) ==
    /\ c # d
    /\ pc[c] # "idle" /\ todo[c] # << >>
    /\ pc[c] = "funded" \/ call[c].op # "batch" \/ locked[c] = {}
    /\ Head(todo[c]) \in locked[d]

\* Everyone in S waits for somebody in S, and somebody in S for everyone.
Deadlocked(S) ==
    /\ S # {}
    /\ \A c \in S : \E d \in S : Waits(c, d)
    /\ \A d \in S : \E c \in S : Waits(c, d)

\* Postgres' deadlock detector ends one transaction of a cycle with an error.
BreakDeadlock(c) ==
    /\ \E S \in SUBSET Client : c \in S /\ Deadlocked(S)
    /\ End(c, Failed(call[c]))
    /\ UNCHANGED tables

Init ==
    /\ accounts = [a \in Account |-> 0]
    /\ journal = << >>
    /\ idempotency = << >>
    /\ pc = [c \in Client |-> "idle"]
    /\ call = [c \in Client |-> NoCall]
    /\ todo = [c \in Client |-> << >>]
    /\ locked = [c \in Client |-> {}]
    /\ reply = [c \in Client |-> NoReply]
    /\ delivered = [f \in Facts |-> 0]

Next == \E c \in Client :
    \/ BeginTransfer(c)
    \/ BeginBatch(c)
    \/ BeginPost(c)
    \/ LockRow(c)
    \/ CheckFunds(c)
    \/ CommitPay(c)
    \/ CommitPost(c)
    \/ Abort(c)
    \/ BreakDeadlock(c)

Spec == Init /\ [][Next]_vars

\* A transaction that can go on does (the process runs, Postgres executes),
\* row locks are granted in arrival order, so a waiter is not passed over for
\* ever, and the detector breaks every deadlock.  Nothing obliges a client to
\* call, or a transaction to fail.
Fairness == \A c \in Client :
    /\ WF_vars(CheckFunds(c) \/ CommitPay(c) \/ CommitPost(c))
    /\ SF_vars(LockRow(c))
    /\ WF_vars(BreakDeadlock(c))

FairSpec == Spec /\ Fairness

-----------------------------------------------------------------------------
(* Properties.                                                             *)

\* The tables have the ledger's types, and a client without a transaction
\* holds no lock (the deferred Rollback of every method).
TypeOK ==
    /\ L!TypeOK
    /\ pc \in [Client -> {"idle", "locking", "funded"}]
    /\ \A c \in Client : /\ todo[c] \in Seq(Account)
                         /\ locked[c] \subseteq Account
                         /\ pc[c] = "idle" => call[c] = NoCall /\ locked[c] = {}
    /\ delivered \in [Facts -> 0..MaxDeliveries]

\* The tables implement the abstract ledger: whatever interleaves, aborts,
\* deadlocks or loses its answer, the committed state changes only by one
\* whole Transfer, BatchTransfer or Post of Ledger at a time.
ImplementsLedger == L!Spec

\* A balance that was checked is still there when it is spent: between the
\* check and the commit nobody moves the payer's money.
FundsCheckStaysValid ==
    \A c \in Client :
        pc[c] = "funded" => L!CanPay(call[c].payer, L!SumOf(call[c].credits))

\* "Lock in a stable order ... must not deadlock each other" (postgres.go,
\* Transfer): transfers and bookings never deadlock among themselves, in
\* either direction; a deadlock always involves a BatchTransfer.
OnlyBatchesDeadlock ==
    \A S \in SUBSET Client :
        Deadlocked(S) => \E c \in S : call[c].op = "batch"

\* Every call returns: no transaction waits for ever, deadlocks included.
EveryCallReturns == \A c \in Client : pc[c] # "idle" ~> pc[c] = "idle"

\* "A redelivered event books once" (ledger.go, Post).
FactBookedOnce ==
    \A m, n \in DOMAIN journal :
        journal[m].id = journal[n].id /\ journal[m].id \in FactId => m = n

\* A payment that was reported as made stays made, with the balance that was
\* reported: two calls with one key that race past lookupIdempotent are never
\* both told that they paid, and a booked fact is in the journal.
AnswersStand ==
    \A c \in Client :
        /\ reply[c].status = "answered" /\ reply[c].result.ok =>
              /\ reply[c].key \in DOMAIN idempotency
              /\ idempotency[reply[c].key] = reply[c].result
        /\ reply[c].status = "booked" =>
              \E n \in DOMAIN journal : journal[n].id = reply[c].key
=============================================================================
