--------------------------- MODULE PostgresProofs ---------------------------
(***************************************************************************)
(* The guarantees of the Postgres ledger for every number of clients,      *)
(* accounts, calls and deliveries: what the row locks protect, and that    *)
(* the committed tables implement the abstract ledger.                     *)
(***************************************************************************)
EXTENDS PostgresLedger, SumTheorems

Ops == {TransferOp(t) : t \in Transfers} \cup {BatchOp(b) : b \in Batches}
       \cup {PostOp(f) : f \in Facts}

\* The rows a call reads or writes.
RowsOf(op) == DOMAIN op.credits \cup {op.payer}

Queued(c) == {todo[c][i] : i \in DOMAIN todo[c]}

\* The rows still to be locked come in the order of their ids, after those
\* that are locked already.
Ordered(c) ==
    /\ \A a \in locked[c], i \in DOMAIN todo[c] : Rank[a] < Rank[todo[c][i]]
    /\ \A i, j \in DOMAIN todo[c] : i < j => Rank[todo[c][i]] < Rank[todo[c][j]]

\* A batch locks its payer before anything else.
PayerFirst(c) ==
    IF locked[c] = {} THEN todo[c] # << >> /\ todo[c][1] = call[c].payer
                      ELSE call[c].payer \in locked[c]

\* A transaction has locked, or has still to lock, all its rows.
Discipline(c) ==
    pc[c] # "idle" =>
        /\ call[c] \in Ops
        /\ locked[c] \cup Queued(c) = RowsOf(call[c])
        /\ IF call[c].op = "batch" THEN PayerFirst(c) ELSE Ordered(c)
        /\ pc[c] = "funded" => call[c].op # "post" /\ call[c].payer \in locked[c]

\* A row is locked by one transaction at a time.
Exclusion == \A c, d \in Client : c # d => locked[c] \cap locked[d] = {}

Shape ==
    /\ DOMAIN call = Client /\ DOMAIN todo = Client
    /\ DOMAIN locked = Client /\ DOMAIN reply = Client
    /\ \A c \in Client : pc[c] = "idle" => todo[c] = << >>

IInv ==
    /\ TypeOK /\ Shape
    /\ \A c \in Client : Discipline(c)
    /\ Exclusion
    /\ FundsCheckStaysValid
    /\ AnswersStand

-----------------------------------------------------------------------------
(* Deliveries and bookings of a fact. *)

\* No two facts have the same id.
UniqueIds == \A f, g \in Facts : f.id = g.id => f = g

Posting(c, f) == pc[c] # "idle" /\ call[c] = PostOp(f)

Posters(f) == {c \in Client : Posting(c, f)}
Bookings(f) == {n \in DOMAIN journal : journal[n].id = f.id}

\* Every booking of a fact, and every transaction about to make one, has a
\* delivery of its own.
Owed(f) ==
    /\ IsFiniteSet(Posters(f)) /\ IsFiniteSet(Bookings(f))
    /\ Cardinality(Bookings(f)) + Cardinality(Posters(f)) <= delivered[f]

AllOwed == \A f \in Facts : Owed(f)

\* A fact is booked at most as often as it was delivered.
NoExtraBookings == \A f \in Facts : Cardinality(Bookings(f)) <= delivered[f]

-----------------------------------------------------------------------------
(* Calls. *)

\* The instance sums as module Sums does.
LEMMA SumsAgree == ASSUME NEW f PROVE L!SumOf(f) = SumOf(f)
BY DEF L!SumOf, SumOf, L!SumOver, SumOver, L!MapThenSumSet, MapThenSumSet,
       L!MapThenFoldSet, MapThenFoldSet

LEMMA AccountsFinite == IsFiniteSet(Account) /\ Treasury \in Account
BY LedgerAssumptions DEF L!AccountAssumption, L!IsFiniteSet, IsFiniteSet

\* What a well-formed list of credits amounts to.
LEMMA CreditsFacts ==
    ASSUME NEW payer \in Account, NEW credits, DOMAIN credits \subseteq Account \ {payer},
           \A p \in DOMAIN credits : credits[p] \in L!Amount
    PROVE  /\ L!SumOf(credits) \in Int
           /\ L!Rows(payer, credits) \in [Account -> Int]
           /\ \A a \in Account \ (DOMAIN credits \cup {payer}) :
                  L!Rows(payer, credits)[a] = 0
<1>1. IsFiniteSet(DOMAIN credits)  BY AccountsFinite, FS_Subset
<1>2. \A p \in DOMAIN credits : credits[p] \in Int  BY DEF L!Amount
<1>3. SumOf(credits) \in Int  BY <1>1, <1>2, SumInt DEF SumOf
<1>4. L!SumOf(credits) \in Int  BY <1>3, SumsAgree
<1> QED BY <1>2, <1>4 DEF L!Rows

LEMMA CallFacts ==
    /\ \A t \in Transfers : /\ t.payer \in Account /\ t.payee \in Account \ {t.payer}
                            /\ t.amount \in L!Amount /\ t.kind \in L!Kind /\ t.tick \in Tick
    /\ \A b \in Batches : /\ b.payer \in Account
                          /\ DOMAIN b.credits \subseteq Account \ {b.payer}
                          /\ \A p \in DOMAIN b.credits : b.credits[p] \in L!Amount
                          /\ b.kind \in L!Kind /\ b.tick \in Tick
    /\ \A f \in Facts : /\ f.payer \in Account /\ f.payee \in Account \ {f.payer}
                        /\ f.amount \in L!Amount /\ f.kind \in L!Kind /\ f.tick \in Tick
                        /\ f.id \in FactId
BY LedgerAssumptions DEF L!CallAssumption, L!TransferCall, L!FactCall

\* A call's shape.
OpShape(op) ==
    /\ op.payer \in Account
    /\ DOMAIN op.credits \subseteq Account \ {op.payer}
    /\ \A p \in DOMAIN op.credits : op.credits[p] \in L!Amount
    /\ op.kind \in L!Kind /\ op.tick \in Tick
    /\ IF op.op = "post" THEN op.key \in FactId
                         ELSE op.op \in {"transfer", "batch"} /\ op.key \in L!Key

LEMMA OpShapes == ASSUME NEW op \in Ops PROVE OpShape(op)
<1>1. ASSUME NEW t \in Transfers, op = TransferOp(t) PROVE OpShape(op)
  BY <1>1, CallFacts DEF TransferOp, OpShape, L!OneCredit, L!TransferKey, L!Key
<1>2. ASSUME NEW b \in Batches, op = BatchOp(b) PROVE OpShape(op)
  BY <1>2, CallFacts DEF BatchOp, OpShape, L!BatchKey, L!Key
<1>3. ASSUME NEW f \in Facts, op = PostOp(f) PROVE OpShape(op)
  BY <1>3, CallFacts DEF PostOp, OpShape, L!OneCredit
<1> QED BY <1>1, <1>2, <1>3 DEF Ops

LEMMA OpFacts ==
    ASSUME NEW op \in Ops
    PROVE  /\ L!SumOf(op.credits) \in Int
           /\ L!Rows(op.payer, op.credits) \in [Account -> Int]
           /\ \A a \in Account \ RowsOf(op) : L!Rows(op.payer, op.credits)[a] = 0
           /\ RowsOf(op) \subseteq Account /\ IsFiniteSet(RowsOf(op))
<1>1. OpShape(op)  BY OpShapes
<1>2. RowsOf(op) \subseteq Account  BY <1>1 DEF OpShape, RowsOf
<1>3. IsFiniteSet(RowsOf(op))  BY <1>2, AccountsFinite, FS_Subset
<1> QED BY <1>1, <1>2, <1>3, CreditsFacts DEF OpShape, RowsOf

\* A posted fact is the one its call names; other calls post nothing.
LEMMA PostIsFact ==
    ASSUME NEW op \in Ops, op.op = "post"
    PROVE  \E f \in Facts : op = PostOp(f)
BY DEF Ops, TransferOp, BatchOp

-----------------------------------------------------------------------------
(* Lock orders. *)

\* A sequence as long as a finite set that repeats none of its elements has
\* them all.
LEMMA Covers ==
    ASSUME NEW S, IsFiniteSet(S), NEW s \in [1..Cardinality(S) -> S],
           \A i, j \in DOMAIN s : i < j => s[i] # s[j]
    PROVE  {s[i] : i \in DOMAIN s} = S
<1>1. Cardinality(S) \in Nat  BY FS_CardinalityType
<1>2. s \in Injection(1..Cardinality(S), S)
  <2>1. ASSUME NEW i \in DOMAIN s, NEW j \in DOMAIN s, s[i] = s[j] PROVE i = j
    <3>1. i \in Int /\ j \in Int  BY <1>1
    <3> QED BY <2>1, <3>1
  <2> QED BY <2>1 DEF Injection, IsInjective
<1>3. Cardinality(1..Cardinality(S)) = Cardinality(S)  BY <1>1, FS_Interval
<1>4. s \in Surjection(1..Cardinality(S), S)  BY <1>2, <1>3, FS_Injection
<1>5. \A x \in S : \E i \in 1..Cardinality(S) : s[i] = x
  BY <1>4 DEF Surjection
<1> QED BY <1>5

\* lockOrder names every row once, in the order of the ids.
LEMMA LockOrderCovers ==
    ASSUME NEW op \in Ops, NEW s \in LockOrder(op)
    PROVE  /\ s \in Seq(Account)
           /\ {s[i] : i \in DOMAIN s} = RowsOf(op)
           /\ \A i, j \in DOMAIN s : i < j => Rank[s[i]] < Rank[s[j]]
<1> DEFINE R == RowsOf(op)
<1>1. /\ s \in [1..Cardinality(R) -> R]
      /\ \A i, j \in DOMAIN s : i < j => Rank[s[i]] < Rank[s[j]]
  BY DEF LockOrder, RowsOf
<1>2. IsFiniteSet(R) /\ R \subseteq Account  BY OpFacts
<1> HIDE DEF R
<1>3. \A i, j \in DOMAIN s : i < j => s[i] # s[j]
  <2>1. \A a \in Account : Rank[a] \in Nat  BY RankAssumption
  <2> QED BY <1>1, <1>2, <2>1
<1>4. {s[i] : i \in DOMAIN s} = R  BY <1>1, <1>2, <1>3, Covers
<1>5. Cardinality(R) \in Nat  BY <1>2, FS_CardinalityType
<1>6. s \in [1..Cardinality(R) -> Account]  BY <1>1, <1>2
<1>7. s \in Seq(Account)  BY <1>5, <1>6
<1> QED BY <1>1, <1>4, <1>7 DEF R

\* BatchTransfer names every row, the payer's first.
LEMMA BatchOrderCovers ==
    ASSUME NEW op \in Ops, NEW s \in BatchOrder(op)
    PROVE  /\ s \in Seq(Account)
           /\ {s[i] : i \in DOMAIN s} = RowsOf(op)
           /\ s # << >> /\ s[1] = op.payer
<1> DEFINE P == DOMAIN op.credits
<1>1. PICK t \in [1..Cardinality(P) -> P] :
         /\ \A i, j \in DOMAIN t : i # j => t[i] # t[j]
         /\ s = <<op.payer>> \o t
  BY DEF BatchOrder
<1>2. P \subseteq Account /\ op.payer \in Account  BY OpShapes DEF OpShape
<1>3. IsFiniteSet(P)  BY <1>2, AccountsFinite, FS_Subset
<1> HIDE DEF P
<1>4. Cardinality(P) \in Nat  BY <1>3, FS_CardinalityType
<1>5. \A i, j \in DOMAIN t : i < j => t[i] # t[j]
  <2>1. \A i \in DOMAIN t : i \in Int  BY <1>4
  <2> QED BY <1>1, <2>1
<1>6. {t[i] : i \in DOMAIN t} = P  BY <1>3, <1>5, Covers
<1>7. t \in Seq(Account) /\ Len(t) = Cardinality(P) /\ DOMAIN t = 1..Cardinality(P)
  BY <1>2, <1>4
<1>8. /\ s \in Seq(Account) /\ Len(s) = 1 + Cardinality(P)
      /\ s[1] = op.payer
      /\ \A i \in 1..Cardinality(P) : s[i + 1] = t[i]
  BY <1>1, <1>2, <1>4, <1>7
<1>9. DOMAIN s = 1..(1 + Cardinality(P))  BY <1>4, <1>8
<1>10. {s[i] : i \in DOMAIN s} = {op.payer} \cup {t[i] : i \in DOMAIN t}
  <2>1. \A i \in DOMAIN s : i = 1 \/ (i - 1 \in DOMAIN t /\ s[i] = t[i - 1])
    BY <1>4, <1>7, <1>8, <1>9
  <2>2. \A i \in DOMAIN t : i + 1 \in DOMAIN s /\ s[i + 1] = t[i]
    BY <1>4, <1>7, <1>8, <1>9
  <2>3. 1 \in DOMAIN s  BY <1>4, <1>9
  <2> QED BY <1>8, <2>1, <2>2, <2>3
<1>11. s # << >>  BY <1>4, <1>9
<1>12. {s[i] : i \in DOMAIN s} = P \cup {op.payer}  BY <1>6, <1>10
<1> QED BY <1>8, <1>11, <1>12 DEF RowsOf, P

-----------------------------------------------------------------------------
(* The steps. *)

\* A client opens a transaction.
Opens(c, op, order) ==
    /\ pc[c] = "idle"
    /\ Open(c, op, order)
    /\ order \in Seq(Account)
    /\ {order[i] : i \in DOMAIN order} = RowsOf(op)
    /\ IF op.op = "batch" THEN order # << >> /\ order[1] = op.payer
       ELSE \A i, j \in DOMAIN order : i < j => Rank[order[i]] < Rank[order[j]]
    /\ IF op.op = "post"
       THEN \E f \in Facts : /\ op = PostOp(f) /\ delivered[f] < MaxDeliveries
                             /\ delivered' = [delivered EXCEPT ![f] = @ + 1]
       ELSE UNCHANGED delivered

\* What a client was told is true.
Stands(r) ==
    /\ r.status = "answered" /\ r.result.ok =>
          /\ r.key \in DOMAIN idempotency
          /\ idempotency[r.key] = r.result
    /\ r.status = "booked" => \E n \in DOMAIN journal : journal[n].id = r.key

\* A transaction ends, or a call is answered, without writing anything.
Leaves(c) ==
    /\ \E r : End(c, r) /\ Stands(r)
    /\ UNCHANGED tables

\* The check of a transfer or a batch succeeds.
Passes(c) ==
    /\ pc[c] = "locking" /\ call[c].op \in {"transfer", "batch"}
    /\ call[c].op = "transfer" => todo[c] = << >>
    /\ call[c].op = "batch" => locked[c] = {call[c].payer}
    /\ L!CanPay(call[c].payer, L!SumOf(call[c].credits))
    /\ pc' = [pc EXCEPT ![c] = "funded"]
    /\ UNCHANGED <<tables, call, todo, locked, reply, delivered>>

\* A transfer or a batch commits, whether or not its client hears of it.
Pays(c) ==
    LET op == call[c]
        result == L!Paid(op.payer, op.credits)
    IN  /\ pc[c] = "funded" /\ todo[c] = << >>
        /\ op.key \notin DOMAIN idempotency
        /\ L!Book(op.key, op.payer, op.credits, op.kind, op.tick)
        /\ L!Remember(op.key, result)
        /\ End(c, Answer(op, result)) \/ End(c, Failed(op))

\* Nothing else happens.
LEMMA StepCases ==
    ASSUME IInv, Next
    PROVE  \E c \in Client :
             \/ \E op \in Ops : \E order : Opens(c, op, order)
             \/ LockRow(c)
             \/ Passes(c)
             \/ Leaves(c)
             \/ Pays(c)
             \/ CommitPost(c)
<1> PICK c \in Client :
      \/ BeginTransfer(c) \/ BeginBatch(c) \/ BeginPost(c)
      \/ LockRow(c) \/ CheckFunds(c) \/ CommitPay(c) \/ CommitPost(c)
      \/ Abort(c) \/ BreakDeadlock(c)
  BY DEF Next
<1> SUFFICES \/ \E op \in Ops : \E order : Opens(c, op, order)
             \/ LockRow(c) \/ Passes(c) \/ Leaves(c) \/ Pays(c) \/ CommitPost(c)
  OBVIOUS
<1>1. ASSUME NEW op, op.key \in DOMAIN idempotency, End(c, Answer(op, idempotency[op.key])),
             UNCHANGED tables
      PROVE  Leaves(c)
  <2>1. Stands(Answer(op, idempotency[op.key]))  BY <1>1 DEF Stands, Answer
  <2> QED BY <1>1, <2>1 DEF Leaves
<1>2. ASSUME NEW op, End(c, Failed(op)), UNCHANGED tables
      PROVE  Leaves(c)
  <2>1. Stands(Failed(op))  BY DEF Stands, Failed
  <2> QED BY <1>2, <2>1 DEF Leaves
<1>3. ASSUME NEW t \in Transfers, BeginPay(c, TransferOp(t), LockOrder(TransferOp(t)))
      PROVE  Leaves(c) \/ \E op \in Ops : \E order : Opens(c, op, order)
  <2> DEFINE op == TransferOp(t)
  <2>1. op \in Ops  BY DEF Ops
  <2>2. op.op = "transfer"  BY DEF TransferOp
  <2> HIDE DEF op
  <2>3. ASSUME NEW order \in LockOrder(op), pc[c] = "idle", Open(c, op, order),
               UNCHANGED delivered
        PROVE  Opens(c, op, order)
    BY <2>1, <2>2, <2>3, LockOrderCovers DEF Opens
  <2>4. \/ op.key \in DOMAIN idempotency /\ End(c, Answer(op, idempotency[op.key]))
           /\ UNCHANGED tables
        \/ \E order \in LockOrder(op) : /\ pc[c] = "idle" /\ Open(c, op, order)
                                        /\ UNCHANGED delivered
    BY <1>3 DEF BeginPay, op
  <2> QED BY <1>1, <2>1, <2>3, <2>4
<1>4. ASSUME NEW b \in Batches, BeginPay(c, BatchOp(b), BatchOrder(BatchOp(b)))
      PROVE  Leaves(c) \/ \E op \in Ops : \E order : Opens(c, op, order)
  <2> DEFINE op == BatchOp(b)
  <2>1. op \in Ops  BY DEF Ops
  <2>2. op.op = "batch"  BY DEF BatchOp
  <2> HIDE DEF op
  <2>3. ASSUME NEW order \in BatchOrder(op), pc[c] = "idle", Open(c, op, order),
               UNCHANGED delivered
        PROVE  Opens(c, op, order)
    BY <2>1, <2>2, <2>3, BatchOrderCovers DEF Opens
  <2>4. \/ op.key \in DOMAIN idempotency /\ End(c, Answer(op, idempotency[op.key]))
           /\ UNCHANGED tables
        \/ \E order \in BatchOrder(op) : /\ pc[c] = "idle" /\ Open(c, op, order)
                                         /\ UNCHANGED delivered
    BY <1>4 DEF BeginPay, op
  <2> QED BY <1>1, <2>1, <2>3, <2>4
<1>5. ASSUME BeginPost(c)
      PROVE  \E op \in Ops : \E order : Opens(c, op, order)
  <2> PICK f \in Facts : /\ pc[c] = "idle"
                         /\ delivered[f] < MaxDeliveries
                         /\ delivered' = [delivered EXCEPT ![f] = @ + 1]
                         /\ \E order \in LockOrder(PostOp(f)) : Open(c, PostOp(f), order)
    BY <1>5 DEF BeginPost
  <2> DEFINE op == PostOp(f)
  <2>1. op \in Ops  BY DEF Ops
  <2>2. op.op = "post"  BY DEF PostOp
  <2>3. PICK order \in LockOrder(op) : Open(c, op, order)  OBVIOUS
  <2>4. Opens(c, op, order)
    <3>1. op = PostOp(f)  OBVIOUS
    <3> HIDE DEF op
    <3> QED BY <2>1, <2>2, <2>3, <3>1, LockOrderCovers DEF Opens
  <2> QED BY <2>1, <2>4
<1>6. ASSUME CheckFunds(c) PROVE Passes(c) \/ Leaves(c)
  <2> DEFINE no == [ok |-> FALSE, payerBalance |-> accounts[call[c].payer]]
  <2>1. Stands(Answer(call[c], no))  BY DEF Stands, Answer
  <2>2. \/ Passes(c)
        \/ End(c, Answer(call[c], no)) /\ UNCHANGED tables
    BY <1>6 DEF CheckFunds, Passes
  <2> QED BY <2>1, <2>2 DEF Leaves
<1>7. ASSUME CommitPay(c) PROVE Pays(c) \/ Leaves(c)
  BY <1>2, <1>7 DEF CommitPay, Pays
<1>8. ASSUME Abort(c) \/ BreakDeadlock(c) PROVE Leaves(c)
  BY <1>2, <1>8 DEF Abort, BreakDeadlock
<1> QED BY <1>3, <1>4, <1>5, <1>6, <1>7, <1>8 DEF BeginTransfer, BeginBatch

-----------------------------------------------------------------------------
(* Every step keeps the invariant. *)

LEMMA OpensInv ==
    ASSUME IInv, NEW c \in Client, NEW op \in Ops, NEW order, Opens(c, op, order)
    PROVE  IInv'
<1> USE DEF IInv, tables
<1>1. /\ pc[c] = "idle" /\ locked[c] = {}
      /\ pc' = [pc EXCEPT ![c] = "locking"] /\ call' = [call EXCEPT ![c] = op]
      /\ todo' = [todo EXCEPT ![c] = order] /\ reply' = [reply EXCEPT ![c] = NoReply]
      /\ UNCHANGED <<tables, locked>>
  BY DEF TypeOK, Opens, Open
<1>2. /\ pc'[c] = "locking" /\ call'[c] = op /\ todo'[c] = order /\ reply'[c] = NoReply
      /\ \A d \in Client \ {c} : /\ pc'[d] = pc[d] /\ call'[d] = call[d]
                                 /\ todo'[d] = todo[d] /\ reply'[d] = reply[d]
  BY <1>1 DEF TypeOK, Shape
<1>3. delivered' \in [Facts -> 0..MaxDeliveries]
  BY DeliveryAssumption DEF TypeOK, Opens
<1>4. L!TypeOK'  BY <1>1 DEF TypeOK, L!TypeOK
<1>5. TypeOK'
  BY <1>1, <1>2, <1>3, <1>4 DEF TypeOK, Opens
<1>6. Shape'  BY <1>1, <1>2 DEF Shape
<1>7. ASSUME NEW d \in Client PROVE Discipline(d)'
  <2>1. CASE d = c
    <3>1. Queued(c)' = RowsOf(op)  BY <1>2 DEF Queued, Opens
    <3>2. IF op.op = "batch" THEN PayerFirst(c)' ELSE Ordered(c)'
      BY <1>1, <1>2 DEF Opens, PayerFirst, Ordered
    <3> QED BY <1>1, <1>2, <2>1, <3>1, <3>2 DEF Discipline
  <2>2. CASE d # c
    <3>1. Discipline(d)  OBVIOUS
    <3> QED BY <1>1, <1>2, <2>2, <3>1 DEF Discipline, Queued, PayerFirst, Ordered
  <2> QED BY <2>1, <2>2
<1>8. Exclusion'  BY <1>1 DEF Exclusion
<1>9. FundsCheckStaysValid'
  BY <1>1, <1>2 DEF FundsCheckStaysValid, L!CanPay
<1>10. AnswersStand'  BY <1>1, <1>2 DEF AnswersStand, NoReply
<1> QED BY <1>5, <1>6, <1>7, <1>8, <1>9, <1>10

\* Taking the head of a sequence off leaves the others.
LEMMA HeadAndTail ==
    ASSUME NEW S, NEW s \in Seq(S), s # << >>
    PROVE  /\ Head(s) = s[1] /\ Head(s) \in S
           /\ Tail(s) \in Seq(S)
           /\ 1 \in DOMAIN s
           /\ \A i \in DOMAIN Tail(s) : i + 1 \in DOMAIN s /\ Tail(s)[i] = s[i + 1] /\ i >= 1
           /\ {s[i] : i \in DOMAIN s} = {Head(s)} \cup {Tail(s)[i] : i \in DOMAIN Tail(s)}
<1>1. /\ Head(s) = s[1] /\ Head(s) \in S /\ Tail(s) \in Seq(S) /\ Len(s) \in Nat
      /\ Len(s) >= 1
      /\ DOMAIN s = 1..Len(s) /\ DOMAIN Tail(s) = 1..(Len(s) - 1)
      /\ \A i \in 1..(Len(s) - 1) : Tail(s)[i] = s[i + 1]
  OBVIOUS
<1>2. \A i \in DOMAIN s : i = 1 \/ (i - 1 \in DOMAIN Tail(s) /\ s[i] = Tail(s)[i - 1])
  BY <1>1
<1>3. \A i \in DOMAIN Tail(s) : i + 1 \in DOMAIN s /\ Tail(s)[i] = s[i + 1] /\ i >= 1
  BY <1>1
<1>4. 1 \in DOMAIN s  BY <1>1
<1>5. {s[i] : i \in DOMAIN s} = {Head(s)} \cup {Tail(s)[i] : i \in DOMAIN Tail(s)}
  <2> DEFINE rest == {Tail(s)[i] : i \in DOMAIN Tail(s)}
             all == {s[i] : i \in DOMAIN s}
  <2>1. ASSUME NEW i \in DOMAIN s PROVE s[i] \in {Head(s)} \cup rest
    BY <1>1, <1>2
  <2>2. Head(s) \in all  BY <1>1, <1>4
  <2>3. \A i \in DOMAIN Tail(s) : Tail(s)[i] \in all  BY <1>3
  <2>4. all \subseteq {Head(s)} \cup rest  BY <2>1
  <2>5. rest \subseteq all  BY <2>3
  <2> HIDE DEF rest, all
  <2>6. all = {Head(s)} \cup rest  BY <2>2, <2>4, <2>5
  <2> QED BY <2>6 DEF rest, all
<1> QED BY <1>1, <1>3, <1>4, <1>5

LEMMA LocksInv ==
    ASSUME IInv, NEW c \in Client, LockRow(c)
    PROVE  IInv'
<1> USE DEF IInv, tables
<1> DEFINE row == Head(todo[c])
<1>1. /\ todo[c] # << >>
      /\ \A d \in Client \ {c} : row \notin locked[d]
      /\ locked' = [locked EXCEPT ![c] = @ \cup {row}]
      /\ todo' = [todo EXCEPT ![c] = Tail(@)]
      /\ UNCHANGED <<tables, pc, call, reply, delivered>>
  BY DEF LockRow
<1>2. /\ locked'[c] = locked[c] \cup {row} /\ todo'[c] = Tail(todo[c])
      /\ \A d \in Client \ {c} : locked'[d] = locked[d] /\ todo'[d] = todo[d]
  BY <1>1 DEF Shape
<1>3. /\ todo[c] \in Seq(Account)  BY DEF TypeOK
<1>4. pc[c] # "idle"  BY <1>1 DEF Shape
<1>5. /\ row = todo[c][1] /\ row \in Account /\ Tail(todo[c]) \in Seq(Account)
      /\ 1 \in DOMAIN todo[c]
      /\ \A i \in DOMAIN Tail(todo[c]) :
            i + 1 \in DOMAIN todo[c] /\ Tail(todo[c])[i] = todo[c][i + 1] /\ i >= 1
      /\ Queued(c) = {row} \cup {Tail(todo[c])[i] : i \in DOMAIN Tail(todo[c])}
  BY <1>1, <1>3, HeadAndTail DEF Queued
<1> HIDE DEF row
<1>6. L!TypeOK'  BY <1>1 DEF TypeOK, L!TypeOK
<1>7. TypeOK'
  <2>1. \A d \in Client : todo'[d] \in Seq(Account) /\ locked'[d] \subseteq Account
    BY <1>2, <1>5 DEF TypeOK
  <2>2. \A d \in Client : pc'[d] = "idle" => call'[d] = NoCall /\ locked'[d] = {}
    BY <1>1, <1>2, <1>4 DEF TypeOK
  <2> QED BY <1>1, <1>6, <2>1, <2>2 DEF TypeOK
<1>8. Shape'  BY <1>1, <1>2, <1>4 DEF Shape
<1>9. ASSUME NEW d \in Client PROVE Discipline(d)'
  <2>1. CASE d = c
    <3>1. Discipline(c)  OBVIOUS
    <3>2. locked'[c] \cup Queued(c)' = locked[c] \cup Queued(c)
      <4>1. Queued(c)' = {Tail(todo[c])[i] : i \in DOMAIN Tail(todo[c])}
        BY <1>2 DEF Queued
      <4> QED BY <1>2, <1>5, <4>1
    <3>3. ASSUME PayerFirst(c) PROVE PayerFirst(c)'
      BY <1>1, <1>2, <1>5, <3>3 DEF PayerFirst
    <3>4. ASSUME Ordered(c) PROVE Ordered(c)'
      <4>1. \A i \in DOMAIN Tail(todo[c]) : Rank[row] < Rank[Tail(todo[c])[i]]
        <5>1. \A i \in DOMAIN Tail(todo[c]) : 1 < i + 1
          BY <1>3, <1>5
        <5> QED BY <1>5, <3>4, <5>1 DEF Ordered
      <4>2. \A a \in locked[c], i \in DOMAIN Tail(todo[c]) : Rank[a] < Rank[Tail(todo[c])[i]]
        BY <1>5, <3>4 DEF Ordered
      <4>3. \A i, j \in DOMAIN Tail(todo[c]) :
               i < j => Rank[Tail(todo[c])[i]] < Rank[Tail(todo[c])[j]]
        <5>1. \A i, j \in DOMAIN Tail(todo[c]) : i < j => i + 1 < j + 1
          BY <1>5
        <5> QED BY <1>5, <3>4, <5>1 DEF Ordered
      <4> QED BY <1>2, <4>1, <4>2, <4>3 DEF Ordered
    <3> QED BY <1>1, <1>2, <1>4, <2>1, <3>1, <3>2, <3>3, <3>4 DEF Discipline
  <2>2. CASE d # c
    <3>1. Discipline(d)  OBVIOUS
    <3> QED BY <1>1, <1>2, <2>2, <3>1 DEF Discipline, Queued, PayerFirst, Ordered
  <2> QED BY <2>1, <2>2
<1>10. Exclusion'  BY <1>1, <1>2 DEF Exclusion
<1>11. FundsCheckStaysValid'  BY <1>1 DEF FundsCheckStaysValid, L!CanPay
<1>12. AnswersStand'  BY <1>1 DEF AnswersStand
<1> QED BY <1>7, <1>8, <1>9, <1>10, <1>11, <1>12

LEMMA PassesInv ==
    ASSUME IInv, NEW c \in Client, Passes(c)
    PROVE  IInv'
<1> USE DEF IInv, tables
<1>1. /\ pc'[c] = "funded" /\ pc[c] = "locking"
      /\ \A d \in Client \ {c} : pc'[d] = pc[d]
      /\ pc' \in [Client -> {"idle", "locking", "funded"}]
      /\ UNCHANGED <<tables, call, todo, locked, reply, delivered>>
  BY DEF Passes, TypeOK
<1>2. L!TypeOK'  BY <1>1 DEF TypeOK, L!TypeOK
<1>3. TypeOK'  BY <1>1, <1>2 DEF TypeOK
<1>4. Shape'  BY <1>1 DEF Shape
<1>5. ASSUME NEW d \in Client PROVE Discipline(d)'
  <2>1. Discipline(d)  OBVIOUS
  <2>2. CASE d = c
    <3>1. call[c].payer \in locked[c]
      <4>1. CASE call[c].op = "batch"  BY <4>1 DEF Passes
      <4>2. CASE call[c].op = "transfer"
        <5>1. todo[c] = << >>  BY <4>2 DEF Passes
        <5>2. Queued(c) = {}  BY <5>1 DEF Queued
        <5>3. locked[c] = RowsOf(call[c])  BY <1>1, <2>1, <2>2, <5>2 DEF Discipline
        <5> QED BY <5>3 DEF RowsOf
      <4> QED BY <4>1, <4>2 DEF Passes
    <3>2. call[c].op # "post"  BY DEF Passes
    <3> QED BY <1>1, <2>1, <2>2, <3>1, <3>2
            DEF Discipline, Queued, PayerFirst, Ordered
  <2>3. CASE d # c
    BY <1>1, <2>1, <2>3 DEF Discipline, Queued, PayerFirst, Ordered
  <2> QED BY <2>2, <2>3
<1>6. Exclusion'  BY <1>1 DEF Exclusion
<1>7. FundsCheckStaysValid'
  <2>1. L!CanPay(call[c].payer, L!SumOf(call[c].credits))  BY DEF Passes
  <2> QED BY <1>1, <2>1 DEF FundsCheckStaysValid, L!CanPay
<1>8. AnswersStand'  BY <1>1 DEF AnswersStand
<1> QED BY <1>3, <1>4, <1>5, <1>6, <1>7, <1>8

\* What the end of a transaction does to everything but the tables.
LEMMA EndInv ==
    ASSUME IInv, NEW c \in Client, NEW r, End(c, r)
    PROVE  /\ L!TypeOK' => TypeOK'
           /\ Shape' /\ Exclusion' /\ \A d \in Client : Discipline(d)'
           /\ reply'[c] = r /\ pc'[c] = "idle"
           /\ \A d \in Client \ {c} :
                 pc'[d] = pc[d] /\ call'[d] = call[d] /\ reply'[d] = reply[d]
<1> USE DEF IInv
<1>1. /\ pc'[c] = "idle" /\ call'[c] = NoCall /\ todo'[c] = << >> /\ locked'[c] = {}
      /\ reply'[c] = r
      /\ \A d \in Client \ {c} : /\ pc'[d] = pc[d] /\ call'[d] = call[d]
                                 /\ todo'[d] = todo[d] /\ locked'[d] = locked[d]
                                 /\ reply'[d] = reply[d]
      /\ pc' \in [Client -> {"idle", "locking", "funded"}]
      /\ delivered' = delivered
  BY DEF End, TypeOK, Shape
<1>2. Shape'  BY <1>1 DEF End, Shape
<1>3. ASSUME L!TypeOK' PROVE TypeOK'
  <2>1. << >> \in Seq(Account)  OBVIOUS
  <2> QED BY <1>1, <1>3, <2>1 DEF TypeOK
<1>4. Exclusion'  BY <1>1 DEF Exclusion
<1>5. ASSUME NEW d \in Client PROVE Discipline(d)'
  <2>1. Discipline(d)  OBVIOUS
  <2> QED BY <1>1, <2>1 DEF Discipline, Queued, PayerFirst, Ordered
<1> QED BY <1>1, <1>2, <1>3, <1>4, <1>5

LEMMA LeavesInv ==
    ASSUME IInv, NEW c \in Client, Leaves(c)
    PROVE  IInv'
<1> PICK r : End(c, r) /\ Stands(r) /\ UNCHANGED tables  BY DEF Leaves
<1> USE DEF IInv, tables
<1>1. /\ TypeOK' /\ Shape' /\ Exclusion' /\ \A d \in Client : Discipline(d)'
      /\ reply'[c] = r /\ pc'[c] = "idle"
      /\ \A d \in Client \ {c} :
            pc'[d] = pc[d] /\ call'[d] = call[d] /\ reply'[d] = reply[d]
  <2>1. L!TypeOK'  BY DEF TypeOK, L!TypeOK
  <2> QED BY <2>1, EndInv
<1>2. FundsCheckStaysValid'  BY <1>1 DEF FundsCheckStaysValid, L!CanPay
<1>3. AnswersStand'  BY <1>1 DEF AnswersStand, Stands
<1> QED BY <1>1, <1>2, <1>3

\* A booking adds one entry to the journal and moves nobody's money but that
\* of the call's rows.
LEMMA BookAdds ==
    ASSUME IInv, NEW op \in Ops, L!Book(op.key, op.payer, op.credits, op.kind, op.tick)
    PROVE  /\ accounts' \in [Account -> Int]
           /\ \A a \in Account \ RowsOf(op) : accounts'[a] = accounts[a]
           /\ journal' \in Seq(L!BookingType)
           /\ Len(journal) \in Nat
           /\ DOMAIN journal = 1..Len(journal)
           /\ DOMAIN journal' = 1..(Len(journal) + 1)
           /\ \A n \in DOMAIN journal : journal'[n] = journal[n]
           /\ journal'[Len(journal) + 1].id = op.key
<1>1. /\ accounts \in [Account -> Int] /\ journal \in Seq(L!BookingType)
  BY DEF IInv, TypeOK, L!TypeOK
<1>2. /\ accounts' = [a \in Account |-> accounts[a] + L!Rows(op.payer, op.credits)[a]]
      /\ journal' = Append(journal, L!Booking(op.key, op.payer, op.credits, op.kind, op.tick))
  BY DEF L!Book
<1>3. /\ L!Rows(op.payer, op.credits) \in [Account -> Int]
      /\ \A a \in Account \ RowsOf(op) : L!Rows(op.payer, op.credits)[a] = 0
  BY OpFacts
<1> DEFINE b == L!Booking(op.key, op.payer, op.credits, op.kind, op.tick)
<1>4. b \in L!BookingType /\ b.id = op.key
  <2>1. op.key \in L!Key \cup FactId /\ op.kind \in L!Kind /\ op.tick \in Tick
    BY OpShapes DEF OpShape
  <2> QED BY <1>3, <2>1 DEF L!Booking, L!BookingType
<1>5. /\ accounts' \in [Account -> Int]
      /\ \A a \in Account \ RowsOf(op) : accounts'[a] = accounts[a]
  BY <1>1, <1>2, <1>3
<1>6. journal' = Append(journal, b)  BY <1>2
<1> HIDE DEF b
<1>7. /\ journal' \in Seq(L!BookingType)
      /\ Len(journal) \in Nat
      /\ DOMAIN journal = 1..Len(journal)
      /\ DOMAIN journal' = 1..(Len(journal) + 1)
      /\ \A n \in DOMAIN journal : journal'[n] = journal[n]
      /\ journal'[Len(journal) + 1] = b
  BY <1>1, <1>4, <1>6
<1> QED BY <1>4, <1>5, <1>7

\* Nobody but c has checked an account that c's booking touches.
LEMMA BookSparesFunded ==
    ASSUME IInv, NEW c \in Client, pc[c] # "idle", todo[c] = << >>,
           NEW d \in Client \ {c}, pc[d] = "funded",
           L!Book(call[c].key, call[c].payer, call[c].credits, call[c].kind, call[c].tick)
    PROVE  accounts'[call[d].payer] = accounts[call[d].payer]
<1> USE DEF IInv
<1>1. Discipline(c) /\ Discipline(d)  OBVIOUS
<1>2. Queued(c) = {}  BY DEF Queued
<1>3. call[c] \in Ops /\ locked[c] = RowsOf(call[c])  BY <1>1, <1>2 DEF Discipline
<1>4. call[d].payer \in locked[d] /\ call[d] \in Ops  BY <1>1 DEF Discipline
<1>5. call[d].payer \in Account  BY <1>4, OpShapes DEF OpShape
<1>6. call[d].payer \notin RowsOf(call[c])  BY <1>3, <1>4 DEF Exclusion
<1> QED BY <1>3, <1>5, <1>6, BookAdds

LEMMA PaysInv ==
    ASSUME IInv, NEW c \in Client, Pays(c)
    PROVE  IInv'
<1> DEFINE op == call[c]
           result == L!Paid(op.payer, op.credits)
<1> USE DEF IInv
<1>1. /\ pc[c] = "funded" /\ todo[c] = << >>
      /\ op.key \notin DOMAIN idempotency
      /\ L!Book(op.key, op.payer, op.credits, op.kind, op.tick)
      /\ idempotency' = [k \in DOMAIN idempotency \cup {op.key} |->
                           IF k = op.key THEN result ELSE idempotency[k]]
  BY DEF Pays, L!Remember
<1>2. PICK r \in {Answer(op, result), Failed(op)} : End(c, r)  BY DEF Pays
<1>3. op \in Ops /\ op.op # "post" /\ op.payer \in Account /\ op.key \in L!Key
  BY <1>1, OpShapes DEF Discipline, OpShape
<1>4. result \in L!Result
  BY <1>3, OpFacts DEF TypeOK, L!TypeOK, L!Paid, L!Result
<1>5. /\ accounts' \in [Account -> Int] /\ journal' \in Seq(L!BookingType)
      /\ Len(journal) \in Nat
      /\ DOMAIN journal = 1..Len(journal) /\ DOMAIN journal' = 1..(Len(journal) + 1)
      /\ \A n \in DOMAIN journal : journal'[n] = journal[n]
  BY <1>1, <1>3, BookAdds
<1>6. \A d \in Client \ {c} : pc[d] = "funded" =>
         accounts'[call[d].payer] = accounts[call[d].payer]
  BY <1>1, BookSparesFunded
<1> HIDE DEF op, result
<1>7. L!TypeOK'
  <2>1. /\ DOMAIN idempotency' \subseteq L!Key
        /\ idempotency' \in [DOMAIN idempotency' -> L!Result]
    BY <1>1, <1>3, <1>4 DEF TypeOK, L!TypeOK
  <2> QED BY <1>5, <2>1 DEF L!TypeOK
<1>8. /\ TypeOK' /\ Shape' /\ Exclusion' /\ \A d \in Client : Discipline(d)'
      /\ reply'[c] = r /\ pc'[c] = "idle"
      /\ \A d \in Client \ {c} :
            pc'[d] = pc[d] /\ call'[d] = call[d] /\ reply'[d] = reply[d]
  BY <1>2, <1>7, EndInv
<1>9. FundsCheckStaysValid'
  BY <1>6, <1>8 DEF FundsCheckStaysValid, L!CanPay
<1>10. AnswersStand'
  <2>1. ASSUME NEW d \in Client \ {c}, Stands(reply[d]) PROVE Stands(reply[d])'
    <3>1. reply'[d] = reply[d]  BY <1>8
    <3>2. \A n \in DOMAIN journal : n \in DOMAIN journal' /\ journal'[n] = journal[n]
      BY <1>5
    <3>3. \A k \in DOMAIN idempotency :
             k \in DOMAIN idempotency' /\ idempotency'[k] = idempotency[k]
      BY <1>1
    <3> QED BY <2>1, <3>1, <3>2, <3>3 DEF Stands
  <2>2. Stands(reply[c])'
    <3>1. r = Answer(op, result) => r.status = "answered" /\ r.key = op.key /\ r.result = result
      BY DEF Answer
    <3>2. r = Failed(op) => r.status = "error"  BY DEF Failed
    <3>3. op.key \in DOMAIN idempotency' /\ idempotency'[op.key] = result  BY <1>1
    <3> QED BY <1>2, <1>8, <3>1, <3>2, <3>3 DEF Stands
  <2>3. \A d \in Client : Stands(reply[d])  BY DEF AnswersStand, Stands
  <2> QED BY <2>1, <2>2, <2>3 DEF AnswersStand, Stands
<1> QED BY <1>8, <1>9, <1>10

LEMMA PostsInv ==
    ASSUME IInv, NEW c \in Client, CommitPost(c)
    PROVE  IInv'
<1> DEFINE op == call[c]
<1> USE DEF IInv
<1>1. /\ pc[c] = "locking" /\ todo[c] = << >>
      /\ L!Book(op.key, op.payer, op.credits, op.kind, op.tick)
      /\ UNCHANGED idempotency
  BY DEF CommitPost
<1>2. PICK r \in {Booked(op), Failed(op)} : End(c, r)  BY DEF CommitPost
<1>3. op \in Ops  BY <1>1 DEF Discipline
<1>4. /\ accounts' \in [Account -> Int] /\ journal' \in Seq(L!BookingType)
      /\ Len(journal) \in Nat
      /\ DOMAIN journal = 1..Len(journal) /\ DOMAIN journal' = 1..(Len(journal) + 1)
      /\ \A n \in DOMAIN journal : journal'[n] = journal[n]
      /\ journal'[Len(journal) + 1].id = op.key
  BY <1>1, <1>3, BookAdds
<1>5. \A d \in Client \ {c} : pc[d] = "funded" =>
         accounts'[call[d].payer] = accounts[call[d].payer]
  BY <1>1, BookSparesFunded
<1> HIDE DEF op
<1>6. L!TypeOK'  BY <1>1, <1>4 DEF TypeOK, L!TypeOK
<1>7. /\ TypeOK' /\ Shape' /\ Exclusion' /\ \A d \in Client : Discipline(d)'
      /\ reply'[c] = r /\ pc'[c] = "idle"
      /\ \A d \in Client \ {c} :
            pc'[d] = pc[d] /\ call'[d] = call[d] /\ reply'[d] = reply[d]
  BY <1>2, <1>6, EndInv
<1>8. FundsCheckStaysValid'
  BY <1>5, <1>7 DEF FundsCheckStaysValid, L!CanPay
<1>9. AnswersStand'
  <2>1. ASSUME NEW d \in Client \ {c}, Stands(reply[d]) PROVE Stands(reply[d])'
    <3>1. reply'[d] = reply[d]  BY <1>7
    <3>2. \A n \in DOMAIN journal : n \in DOMAIN journal' /\ journal'[n] = journal[n]
      BY <1>4
    <3> QED BY <1>1, <2>1, <3>1, <3>2 DEF Stands
  <2>2. Stands(reply[c])'
    <3>1. r = Booked(op) => r.status = "booked" /\ r.key = op.key  BY DEF Booked
    <3>2. r = Failed(op) => r.status = "error"  BY DEF Failed
    <3>3. Len(journal) + 1 \in DOMAIN journal'  BY <1>4
    <3> QED BY <1>2, <1>4, <1>7, <3>1, <3>2, <3>3 DEF Stands
  <2>3. \A d \in Client : Stands(reply[d])  BY DEF AnswersStand, Stands
  <2> QED BY <2>1, <2>2, <2>3 DEF AnswersStand, Stands
<1> QED BY <1>7, <1>8, <1>9

LEMMA InitInv == Init => IInv
<1> SUFFICES ASSUME Init PROVE IInv  OBVIOUS
<1> USE DEF Init
<1>1. L!TypeOK
  <2>1. << >> \in Seq(L!BookingType)  OBVIOUS
  <2>2. DOMAIN idempotency = {}  OBVIOUS
  <2>3. idempotency \in [DOMAIN idempotency -> L!Result]  OBVIOUS
  <2> QED BY <2>1, <2>2, <2>3 DEF L!TypeOK
<1>2. TypeOK
  <2>1. << >> \in Seq(Account)  OBVIOUS
  <2> QED BY <1>1, <2>1, DeliveryAssumption DEF TypeOK
<1>3. Shape /\ Exclusion /\ \A c \in Client : Discipline(c)
  BY DEF Shape, Exclusion, Discipline
<1>4. FundsCheckStaysValid  BY DEF FundsCheckStaysValid
<1>5. AnswersStand  BY DEF AnswersStand, NoReply
<1> QED BY <1>2, <1>3, <1>4, <1>5 DEF IInv

LEMMA NextInv == IInv /\ [Next]_vars => IInv'
<1> SUFFICES ASSUME IInv, [Next]_vars PROVE IInv'  OBVIOUS
<1>1. CASE Next
  BY <1>1, StepCases, OpensInv, LocksInv, PassesInv, LeavesInv, PaysInv, PostsInv
<1>2. CASE UNCHANGED vars
  BY <1>2 DEF IInv, TypeOK, L!TypeOK, Shape, Discipline, Queued, PayerFirst, Ordered,
              Exclusion, FundsCheckStaysValid, L!CanPay, AnswersStand, vars
<1> QED BY <1>1, <1>2

-----------------------------------------------------------------------------
(* Deadlock. *)

\* A finite set of accounts has one that comes last in the lock order.
LEMMA LastInOrder ==
    ASSUME NEW S \in SUBSET Account, S # {}
    PROVE  \E m \in S : \A x \in S : Rank[x] <= Rank[m]
<1> DEFINE G == {T \in SUBSET S : T # {} => \E m \in T : \A x \in T : Rank[x] <= Rank[m]}
<1>1. ASSUME NEW T \in SUBSET S, \A U \in SUBSET T : U # T => U \in G
      PROVE  T \in G
  <2> SUFFICES ASSUME T # {} PROVE \E m \in T : \A x \in T : Rank[x] <= Rank[m]
    OBVIOUS
  <2>1. PICK y \in T : TRUE  OBVIOUS
  <2>2. \A x \in T : Rank[x] \in Nat  BY RankAssumption
  <2>3. CASE T \ {y} = {}  BY <2>1, <2>2, <2>3
  <2>4. CASE T \ {y} # {}
    <3>1. T \ {y} \in G  BY <1>1, <2>1
    <3>2. PICK m \in T \ {y} : \A x \in T \ {y} : Rank[x] <= Rank[m]  BY <2>4, <3>1
    <3>3. CASE Rank[y] <= Rank[m]  BY <3>2, <3>3
    <3>4. CASE ~(Rank[y] <= Rank[m])
      <4>1. \A x \in T : Rank[x] <= Rank[y]  BY <2>1, <2>2, <3>2, <3>4
      <4> QED BY <2>1, <4>1
    <3> QED BY <3>3, <3>4
  <2> QED BY <2>3, <2>4
<1>2. IsFiniteSet(S)  BY AccountsFinite, FS_Subset
<1>3. S \in G
  <2> HIDE DEF G
  <2> QED BY <1>1, <1>2, SubsetInduction
<1> QED BY <1>3

\* Along a cycle of transfers and bookings the rows waited for would grow
\* for ever.
LEMMA NoCycle == IInv => OnlyBatchesDeadlock
<1> SUFFICES ASSUME IInv, NEW S \in SUBSET Client, Deadlocked(S),
                    \A c \in S : call[c].op # "batch"
             PROVE  FALSE
  BY DEF OnlyBatchesDeadlock
<1> DEFINE want(c) == Head(todo[c])
           wanted == {want(c) : c \in S}
<1>1. \A c \in S : /\ todo[c] \in Seq(Account) /\ pc[c] # "idle" /\ todo[c] # << >>
                   /\ want(c) = todo[c][1] /\ want(c) \in Account /\ 1 \in DOMAIN todo[c]
  <2>1. \A c \in S : todo[c] \in Seq(Account)  BY DEF IInv, TypeOK
  <2>2. \A c \in S : pc[c] # "idle" /\ todo[c] # << >>  BY DEF Deadlocked, Waits
  <2> QED BY <2>1, <2>2, HeadAndTail
<1>2. \A c \in S : \A a \in locked[c] : Rank[a] < Rank[want(c)]
  <2> SUFFICES ASSUME NEW c \in S, NEW a \in locked[c] PROVE Rank[a] < Rank[want(c)]
    OBVIOUS
  <2>1. Discipline(c)  BY DEF IInv
  <2>2. Ordered(c)  BY <1>1, <2>1 DEF Discipline
  <2> QED BY <1>1, <2>2 DEF Ordered
<1>3. \A c \in S : \E d \in S : want(c) \in locked[d]  BY DEF Deadlocked, Waits
<1>4. wanted \subseteq Account /\ wanted # {}  BY <1>1 DEF Deadlocked
<1>5. PICK c \in S : \A d \in S : Rank[want(d)] <= Rank[want(c)]
  <2> HIDE DEF wanted
  <2>1. PICK m \in wanted : \A x \in wanted : Rank[x] <= Rank[m]  BY <1>4, LastInOrder
  <2> QED BY <2>1 DEF wanted
<1>6. PICK d \in S : want(c) \in locked[d]  BY <1>3
<1>7. Rank[want(c)] < Rank[want(d)]  BY <1>2, <1>6
<1>8. Rank[want(c)] \in Nat /\ Rank[want(d)] \in Nat  BY <1>1, RankAssumption
<1>9. Rank[want(d)] <= Rank[want(c)]  BY <1>5
<1> HIDE DEF want
<1> QED BY <1>7, <1>8, <1>9

-----------------------------------------------------------------------------
(* The theorems for any number of deliveries. *)

\* The inductive invariant of the concurrent transactions (postgres.go): who
\* has locked what, and what that protects.
THEOREM TransactionsInv == Spec => []IInv
BY InitInv, NextInv, PTL DEF Spec

\* The tables and the locks keep their types under every interleaving, and a
\* client without a transaction holds no lock (the deferred Rollback).
THEOREM TablesTypeCorrect == Spec => []TypeOK
<1>1. IInv => TypeOK  BY DEF IInv
<1> QED BY <1>1, TransactionsInv, PTL

\* Between the balance check of Transfer or BatchTransfer and its commit no
\* other transaction moves the payer's money.
THEOREM FundsStayChecked == Spec => []FundsCheckStaysValid
<1>1. IInv => FundsCheckStaysValid  BY DEF IInv
<1> QED BY <1>1, TransactionsInv, PTL

\* A payment or a booking that a client was told of is in the tables, with
\* the result it was told.
THEOREM AnswersAlwaysStand == Spec => []AnswersStand
<1>1. IInv => AnswersStand  BY DEF IInv
<1> QED BY <1>1, TransactionsInv, PTL

\* lockOrder keeps transfers and bookings from deadlocking among themselves:
\* every deadlock involves a BatchTransfer.
THEOREM DeadlocksNeedBatches == Spec => []OnlyBatchesDeadlock
BY NoCycle, TransactionsInv, PTL

-----------------------------------------------------------------------------
(* Bookings are owed to deliveries. *)

LEMMA JournalIds ==
    ASSUME IInv, NEW op \in Ops, L!Book(op.key, op.payer, op.credits, op.kind, op.tick)
    PROVE  {journal'[n].id : n \in DOMAIN journal'} =
           {journal[n].id : n \in DOMAIN journal} \cup {op.key}
<1> DEFINE last == Len(journal) + 1
<1>1. /\ DOMAIN journal' = DOMAIN journal \cup {last}
      /\ \A n \in DOMAIN journal : journal'[n] = journal[n]
      /\ journal'[last].id = op.key
  <2>1. /\ Len(journal) \in Nat /\ DOMAIN journal = 1..Len(journal)
        /\ DOMAIN journal' = 1..(Len(journal) + 1)
        /\ \A n \in DOMAIN journal : journal'[n] = journal[n]
        /\ journal'[Len(journal) + 1].id = op.key
    BY BookAdds
  <2> QED BY <2>1
<1> HIDE DEF last
<1> QED BY <1>1

LEMMA OwedKept ==
    ASSUME NEW f \in Facts, Owed(f), delivered'[f] = delivered[f],
           Posters(f)' = Posters(f), Bookings(f)' = Bookings(f)
    PROVE  Owed(f)'
BY DEF Owed

LEMMA OwedTypes ==
    ASSUME IInv, NEW f \in Facts, Owed(f)
    PROVE  /\ Cardinality(Bookings(f)) \in Nat /\ Cardinality(Posters(f)) \in Nat
           /\ delivered[f] \in Nat
BY FS_CardinalityType, DeliveryAssumption DEF Owed, IInv, TypeOK

\* A transaction that ends is nobody's any more.
LEMMA EndPosters ==
    ASSUME IInv, NEW c \in Client, NEW r, End(c, r)
    PROVE  /\ delivered' = delivered
           /\ \A f \in Facts : Posters(f)' = Posters(f) \ {c}
<1>1. /\ delivered' = delivered /\ \A f \in Facts : ~Posting(c, f)'
      /\ \A d \in Client \ {c}, f \in Facts : Posting(d, f)' <=> Posting(d, f)
  BY EndInv DEF Posting, End
<1> QED BY <1>1 DEF Posters

\* Ending a transaction without a booking leaves a delivery to nothing.
LEMMA LeavesOwed ==
    ASSUME IInv, AllOwed, NEW c \in Client, NEW r, End(c, r), NEW f \in Facts,
           Bookings(f)' = Bookings(f)
    PROVE  Owed(f)'
<1>1. Owed(f)  BY DEF AllOwed
<1>2. delivered'[f] = delivered[f] /\ Posters(f)' = Posters(f) \ {c}
  BY EndPosters
<1>3. IsFiniteSet(Posters(f)) /\ IsFiniteSet(Bookings(f))  BY <1>1 DEF Owed
<1>4. /\ IsFiniteSet(Posters(f) \ {c})
      /\ Cardinality(Posters(f) \ {c}) \in Nat
      /\ Cardinality(Posters(f) \ {c}) <= Cardinality(Posters(f))
  BY <1>3, FS_Subset, FS_CardinalityType
<1>5. /\ Cardinality(Bookings(f)) \in Nat /\ Cardinality(Posters(f)) \in Nat
      /\ delivered[f] \in Nat
  BY <1>1, OwedTypes
<1>6. Cardinality(Bookings(f)) + Cardinality(Posters(f)) <= delivered[f]
  BY <1>1 DEF Owed
<1> DEFINE b == Cardinality(Bookings(f))
           p == Cardinality(Posters(f))
           q == Cardinality(Posters(f) \ {c})
<1>7. b + q <= delivered[f]
  <2> HIDE DEF b, p, q
  <2>1. b \in Nat /\ p \in Nat /\ q \in Nat /\ q <= p /\ b + p <= delivered[f]
        /\ delivered[f] \in Nat
    BY <1>4, <1>5, <1>6 DEF b, p, q
  <2> QED BY <2>1
<1> QED BY <1>2, <1>3, <1>4, <1>7 DEF Owed

LEMMA OpensOwed ==
    ASSUME IInv, AllOwed, UniqueIds, NEW c \in Client, NEW op \in Ops, NEW order,
           Opens(c, op, order), NEW f \in Facts
    PROVE  Owed(f)'
<1>1. /\ pc[c] = "idle" /\ pc'[c] = "locking" /\ call'[c] = op /\ UNCHANGED tables
      /\ \A d \in Client \ {c} : pc'[d] = pc[d] /\ call'[d] = call[d]
  BY DEF IInv, TypeOK, Shape, Opens, Open
<1>2. Owed(f)  BY DEF AllOwed
<1>3. Bookings(f)' = Bookings(f)  BY <1>1 DEF Bookings, tables
<1>4. delivered \in [Facts -> Nat]  BY DeliveryAssumption DEF IInv, TypeOK
<1>5. CASE op # PostOp(f)
  <2>1. Posters(f)' = Posters(f)  BY <1>1, <1>5 DEF Posters, Posting
  <2>2. delivered'[f] = delivered[f]
    <3>1. CASE op.op # "post"  BY <3>1 DEF Opens
    <3>2. CASE op.op = "post"
      <4>1. PICK g \in Facts : op = PostOp(g) /\ delivered' = [delivered EXCEPT ![g] = @ + 1]
        BY <3>2 DEF Opens
      <4>2. g # f  BY <1>5, <4>1
      <4> QED BY <1>4, <4>1, <4>2
    <3> QED BY <3>1, <3>2
  <2> QED BY <1>2, <1>3, <2>1, <2>2, OwedKept
<1>6. CASE op = PostOp(f)
  <2>1. op.op = "post"  BY <1>6 DEF PostOp
  <2>2. PICK g \in Facts : op = PostOp(g) /\ delivered' = [delivered EXCEPT ![g] = @ + 1]
    BY <2>1 DEF Opens
  <2>3. PostOp(g).key = g.id /\ PostOp(f).key = f.id  BY DEF PostOp
  <2>4. g = f  BY <1>6, <2>2, <2>3 DEF UniqueIds
  <2>5. delivered'[f] = delivered[f] + 1  BY <1>4, <2>2, <2>4
  <2>6. Posters(f)' = Posters(f) \cup {c} /\ c \notin Posters(f)
    BY <1>1, <1>6 DEF Posters, Posting
  <2>7. IsFiniteSet(Posters(f)) /\ IsFiniteSet(Bookings(f))  BY <1>2 DEF Owed
  <2>8. /\ IsFiniteSet(Posters(f) \cup {c})
        /\ Cardinality(Posters(f) \cup {c}) = Cardinality(Posters(f)) + 1
    BY <2>6, <2>7, FS_AddElement
  <2>9. Cardinality(Bookings(f)) + (Cardinality(Posters(f)) + 1) <= delivered[f] + 1
    <3>1. Cardinality(Bookings(f)) + Cardinality(Posters(f)) <= delivered[f]
      BY <1>2 DEF Owed
    <3> QED BY <1>2, <3>1, OwedTypes
  <2> QED BY <1>3, <2>5, <2>6, <2>7, <2>8, <2>9 DEF Owed
<1> QED BY <1>5, <1>6

\* A payment books under its key, which is no fact's id.
LEMMA PaysOwed ==
    ASSUME IInv, AllOwed, NEW c \in Client, Pays(c), NEW f \in Facts
    PROVE  Owed(f)'
<1>1. call[c] \in Ops /\ call[c].op # "post"  BY DEF Pays, IInv, Discipline
<1>2. call[c].key \notin FactId
  BY <1>1, OpShapes, LedgerAssumptions DEF OpShape, L!FactIdAssumption
<1>3. /\ Len(journal) \in Nat
      /\ DOMAIN journal = 1..Len(journal) /\ DOMAIN journal' = 1..(Len(journal) + 1)
      /\ \A n \in DOMAIN journal : journal'[n] = journal[n]
      /\ journal'[Len(journal) + 1].id = call[c].key
  BY <1>1, BookAdds DEF Pays
<1>4. f.id \in FactId  BY CallFacts
<1>5. Bookings(f)' = Bookings(f)  BY <1>2, <1>3, <1>4 DEF Bookings
<1>6. PICK r : End(c, r)  BY DEF Pays
<1> QED BY <1>5, <1>6, LeavesOwed

\* A posting takes the delivery it was opened for.
LEMMA CommitPostOwed ==
    ASSUME IInv, AllOwed, NEW c \in Client, CommitPost(c), NEW f \in Facts, UniqueIds
    PROVE  Owed(f)'
<1>1. call[c] \in Ops /\ call[c].op = "post" /\ pc[c] # "idle"
  BY DEF CommitPost, IInv, Discipline
<1>2. PICK g \in Facts : call[c] = PostOp(g)  BY <1>1, PostIsFact
<1>3. call[c].key = g.id  BY <1>2 DEF PostOp
<1> DEFINE last == Len(journal) + 1
<1>4. /\ Len(journal) \in Nat
      /\ DOMAIN journal = 1..Len(journal) /\ DOMAIN journal' = 1..(Len(journal) + 1)
      /\ \A n \in DOMAIN journal : journal'[n] = journal[n]
      /\ journal'[Len(journal) + 1].id = g.id
  BY <1>1, <1>3, BookAdds DEF CommitPost
<1>5. /\ last \notin DOMAIN journal /\ DOMAIN journal' = DOMAIN journal \cup {last}
      /\ \A n \in DOMAIN journal : journal'[n] = journal[n]
      /\ journal'[last].id = g.id
  BY <1>4
<1> HIDE DEF last
<1>6. PICK r : End(c, r)  BY DEF CommitPost
<1>7. CASE f # g
  <2>1. f.id # g.id  BY <1>7 DEF UniqueIds
  <2>2. Bookings(f)' = Bookings(f)  BY <1>5, <2>1 DEF Bookings
  <2> QED BY <1>6, <2>2, LeavesOwed
<1>8. CASE f = g
  <2>1. Bookings(f)' = Bookings(f) \cup {last} /\ last \notin Bookings(f)
    BY <1>5, <1>8 DEF Bookings
  <2>2. c \in Posters(f)  BY <1>1, <1>2, <1>8 DEF Posters, Posting
  <2>3. Posters(f)' = Posters(f) \ {c} /\ delivered' = delivered  BY <1>6, EndPosters
  <2>4. Owed(f)  BY DEF AllOwed
  <2>5. IsFiniteSet(Posters(f)) /\ IsFiniteSet(Bookings(f))  BY <2>4 DEF Owed
  <2>6. /\ IsFiniteSet(Bookings(f) \cup {last})
        /\ Cardinality(Bookings(f) \cup {last}) = Cardinality(Bookings(f)) + 1
    BY <2>1, <2>5, FS_AddElement
  <2>7. /\ IsFiniteSet(Posters(f) \ {c})
        /\ Cardinality(Posters(f) \ {c}) = Cardinality(Posters(f)) - 1
    BY <2>2, <2>5, FS_RemoveElement
  <2>8. (Cardinality(Bookings(f)) + 1) + (Cardinality(Posters(f)) - 1) <= delivered[f]
    <3>1. Cardinality(Bookings(f)) + Cardinality(Posters(f)) <= delivered[f]
      BY <2>4 DEF Owed
    <3> QED BY <2>4, <3>1, OwedTypes
  <2> QED BY <2>1, <2>3, <2>6, <2>7, <2>8 DEF Owed
<1> QED BY <1>7, <1>8

LEMMA OwedNext == ASSUME UniqueIds, IInv, AllOwed, [Next]_vars PROVE AllOwed'
<1> SUFFICES ASSUME NEW f \in Facts PROVE Owed(f)'  BY DEF AllOwed
<1>1. CASE UNCHANGED vars
  <2>1. Posters(f)' = Posters(f) /\ Bookings(f)' = Bookings(f) /\ delivered' = delivered
    BY <1>1 DEF vars, Posters, Posting, Bookings
  <2> QED BY <2>1, OwedKept DEF AllOwed
<1>2. ASSUME NEW c \in Client, LockRow(c) \/ Passes(c) PROVE Owed(f)'
  <2>1. /\ UNCHANGED <<tables, call, delivered>>
        /\ \A d \in Client : pc'[d] = "idle" <=> pc[d] = "idle"
    BY <1>2 DEF LockRow, Passes, IInv, TypeOK
  <2>2. Posters(f)' = Posters(f) /\ Bookings(f)' = Bookings(f)
    BY <2>1 DEF Posters, Posting, Bookings, tables
  <2> QED BY <2>1, <2>2, OwedKept DEF AllOwed
<1>3. ASSUME NEW c \in Client, Leaves(c) PROVE Owed(f)'
  <2>1. PICK r : End(c, r) /\ UNCHANGED tables  BY <1>3 DEF Leaves
  <2>2. Bookings(f)' = Bookings(f)  BY <2>1 DEF Bookings, tables
  <2> QED BY <2>1, <2>2, LeavesOwed
<1>4. CASE Next
  BY <1>2, <1>3, <1>4, OpensOwed, PaysOwed, CommitPostOwed, StepCases
<1> QED BY <1>1, <1>4

LEMMA OwedInit == Init => AllOwed
<1> SUFFICES ASSUME Init, NEW f \in Facts PROVE Owed(f)  BY DEF AllOwed
<1>1. Posters(f) = {} /\ Bookings(f) = {} /\ delivered[f] = 0
  BY DEF Init, Posters, Posting, Bookings
<1> QED BY <1>1, FS_EmptySet DEF Owed

\* What is left of ledger.go's "a redelivered event books once": no race, abort,
\* deadlock or lost answer of Post makes the bank book a fact more often than it
\* was delivered.  Each delivery beyond the first may book it again.
THEOREM BookedNoMoreThanDelivered ==
    ASSUME UniqueIds
    PROVE  Spec => []NoExtraBookings
<1>1. IInv /\ AllOwed => NoExtraBookings
  <2> SUFFICES ASSUME IInv, AllOwed, NEW f \in Facts
               PROVE  Cardinality(Bookings(f)) <= delivered[f]
    BY DEF NoExtraBookings
  <2>1. Owed(f)  BY DEF AllOwed
  <2>2. Cardinality(Bookings(f)) + Cardinality(Posters(f)) <= delivered[f]
    BY <2>1 DEF Owed
  <2> QED BY <2>1, <2>2, OwedTypes
<1>2. IInv /\ AllOwed /\ [Next]_vars => AllOwed'  BY OwedNext
<1> QED BY <1>1, <1>2, OwedInit, TransactionsInv, PTL DEF Spec

-----------------------------------------------------------------------------
(* The tables implement the abstract ledger. *)

\* Without redelivery.
DeliveredOnce == MaxDeliveries <= 1 /\ UniqueIds

Posted == {journal[n].id : n \in DOMAIN journal} \cap FactId

LEMMA InitRefines == Init => L!Init
BY DEF Init, L!Init

\* A commit of a transfer or of a batch is that call of the abstract ledger.
LEMMA PayRefines ==
    ASSUME IInv, NEW c \in Client, Pays(c)
    PROVE  L!Next
<1> DEFINE op == call[c]
<1>1. /\ op.key \notin DOMAIN idempotency
      /\ L!Book(op.key, op.payer, op.credits, op.kind, op.tick)
      /\ L!Remember(op.key, L!Paid(op.payer, op.credits))
  BY DEF Pays
<1>2. op \in Ops /\ op.op # "post" /\ pc[c] = "funded"
  BY DEF Pays, IInv, Discipline
<1>3. L!CanPay(op.payer, L!SumOf(op.credits))
  BY <1>2 DEF IInv, FundsCheckStaysValid
<1>4. Posted' = Posted
  <2>1. op.key \notin FactId
    BY <1>2, OpShapes, LedgerAssumptions DEF OpShape, L!FactIdAssumption
  <2> QED BY <1>1, <1>2, <2>1, JournalIds DEF Posted
<1>5. L!Pay(op.key, op.payer, op.credits, op.kind, op.tick)
  BY <1>1, <1>3, <1>4 DEF L!Pay, Posted
<1> HIDE DEF op
<1>6. ASSUME NEW t \in Transfers, op = TransferOp(t) PROVE L!Transfer(t)
  BY <1>5, <1>6 DEF TransferOp, L!Transfer
<1>7. ASSUME NEW b \in Batches, op = BatchOp(b) PROVE L!BatchTransfer(b)
  BY <1>5, <1>7 DEF BatchOp, L!BatchTransfer
<1>8. \A f \in Facts : op # PostOp(f)  BY <1>2 DEF PostOp
<1> QED BY <1>2, <1>6, <1>7, <1>8 DEF Ops, L!Next

\* A commit of a booking is a Post of a fact the ledger has not seen.
LEMMA PostRefines ==
    ASSUME DeliveredOnce, IInv, AllOwed, NEW c \in Client, CommitPost(c)
    PROVE  L!Next
<1>1. call[c] \in Ops /\ call[c].op = "post" /\ pc[c] # "idle"
  BY DEF CommitPost, IInv, Discipline
<1>2. PICK f \in Facts : call[c] = PostOp(f)  BY <1>1, PostIsFact
<1>3. L!Book(f.id, f.payer, L!OneCredit(f), f.kind, f.tick) /\ UNCHANGED idempotency
  BY <1>2 DEF CommitPost, PostOp
<1>4. \A n \in DOMAIN journal : journal[n].id # f.id
  <2>1. Owed(f) /\ c \in Posters(f)  BY <1>1, <1>2 DEF AllOwed, Posters, Posting
  <2>2. delivered[f] <= 1  BY DeliveryAssumption DEF DeliveredOnce, IInv, TypeOK
  <2>3. Cardinality(Posters(f)) # 0  BY <2>1, FS_EmptySet DEF Owed
  <2>4. Cardinality(Bookings(f)) = 0
    <3>1. Cardinality(Bookings(f)) + Cardinality(Posters(f)) <= delivered[f]
      BY <2>1 DEF Owed
    <3> QED BY <2>1, <2>2, <2>3, <3>1, OwedTypes
  <2>5. Bookings(f) = {}  BY <2>1, <2>4, FS_EmptySet DEF Owed
  <2> QED BY <2>5 DEF Bookings
<1>5. f.id \notin Posted  BY <1>4 DEF Posted
<1>6. Posted' = Posted \cup {f.id}
  <2>1. f.id \in FactId  BY CallFacts
  <2>2. L!Book(call[c].key, call[c].payer, call[c].credits, call[c].kind, call[c].tick)
        /\ call[c].key = f.id
    BY <1>2 DEF CommitPost, PostOp
  <2> QED BY <1>1, <2>1, <2>2, JournalIds DEF Posted
<1>7. L!Post(f)  BY <1>3, <1>5, <1>6 DEF L!Post, Posted
<1> QED BY <1>7 DEF L!Next

LEMMA StepRefines ==
    DeliveredOnce /\ IInv /\ AllOwed /\ [Next]_vars => [L!Next]_(L!vars)
<1> SUFFICES ASSUME DeliveredOnce, IInv, AllOwed, [Next]_vars PROVE [L!Next]_(L!vars)
  OBVIOUS
<1>1. ASSUME UNCHANGED tables PROVE UNCHANGED L!vars
  BY <1>1 DEF tables, L!vars
<1>2. CASE UNCHANGED vars  BY <1>1, <1>2 DEF vars, tables
<1>3. ASSUME NEW c \in Client, NEW op \in Ops, NEW order,
             \/ Opens(c, op, order) \/ LockRow(c) \/ Passes(c) \/ Leaves(c)
      PROVE  UNCHANGED tables
  BY <1>3 DEF Opens, Open, LockRow, Passes, Leaves
<1>4. ASSUME NEW c \in Client, LockRow(c) \/ Passes(c) \/ Leaves(c)
      PROVE  UNCHANGED tables
  BY <1>4 DEF LockRow, Passes, Leaves
<1> QED BY <1>1, <1>2, <1>3, <1>4, StepCases, PayRefines, PostRefines

\* Whatever interleaves, aborts, deadlocks or loses its answer, the committed
\* tables change by one whole call of the ledger's interface at a time, as
\* long as each fact is delivered once.
THEOREM PostgresImplementsLedger ==
    ASSUME DeliveredOnce PROVE Spec => ImplementsLedger
<1>1. IInv /\ AllOwed /\ [Next]_vars => AllOwed'  BY OwedNext DEF DeliveredOnce
<1>2. IInv /\ AllOwed /\ [Next]_vars => [L!Next]_(L!vars)  BY StepRefines
<1> QED BY <1>1, <1>2, OwedInit, InitRefines, TransactionsInv, PTL
        DEF Spec, ImplementsLedger, L!Spec
=============================================================================
