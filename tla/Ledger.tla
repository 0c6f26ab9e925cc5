------------------------------- MODULE Ledger -------------------------------
(***************************************************************************)
(* What the bank promises: the double-entry ledger behind the interface    *)
(* Ledger of services/bank/internal/ledger/ledger.go, with the semantics   *)
(* of its mutex-protected implementation Memory (memory.go).               *)
(*                                                                         *)
(* Every method of Memory runs under one mutex, so each is one action.  A  *)
(* booking groups the journal rows that one call appends: a debit of the   *)
(* payer and one credit per payee.  The transfer id (a fresh UUID) is      *)
(* represented by the idempotency key or the fact id it was booked under.  *)
(***************************************************************************)
EXTENDS Integers, Sequences, Sums

CONSTANTS Account,    \* every account id: pips, workplaces, the treasury
          Treasury,   \* TreasuryAccount, the only payer that may go negative
          Tick,       \* ticks a call can carry
          Transfers,  \* the Transfer calls clients can make
          Batches,    \* the BatchTransfer calls clients can make
          FactId,     \* ids of facts other authorities decided
          Facts       \* the Post calls clients can make

Kind == {"WAGE", "PURCHASE", "ISSUANCE", "ESCHEAT"}

\* The payee that stands for "the whole batch" in an idempotency key.
BatchPayee == "batch"

Amount == Nat \ {0}

TransferCall == [payer : Account, payee : Account, amount : Amount,
                 kind : Kind, tick : Tick]
Credits == UNION {[P -> Amount] : P \in SUBSET Account}
BatchCall == [payer : Account, credits : Credits, kind : Kind, tick : Tick]
FactCall == [id : FactId, payer : Account, payee : Account, amount : Amount,
             kind : Kind, tick : Tick]

Key == Account \X (Account \cup {BatchPayee}) \X Tick \X Kind

ASSUME AccountAssumption ==
    /\ IsFiniteSet(Account)
    /\ Treasury \in Account
    /\ BatchPayee \notin Account

\* Nobody pays itself: pips, workplaces and the treasury only pay each other.
ASSUME CallAssumption ==
    /\ \A c \in Transfers : c \in TransferCall /\ c.payer # c.payee
    /\ \A c \in Batches : /\ c.payer \in Account
                          /\ DOMAIN c.credits \subseteq Account \ {c.payer}
                          /\ \A p \in DOMAIN c.credits : c.credits[p] \in Amount
                          /\ c.kind \in Kind
                          /\ c.tick \in Tick
    /\ \A c \in Facts : c \in FactCall /\ c.payer # c.payee

\* A fact's id is a UUID and an idempotency key a quadruple: never the same.
ASSUME FactIdAssumption == FactId \cap Key = {}

VARIABLES balance,     \* balances
          journal,     \* the bookings, oldest first
          idempotent,  \* key -> the result cached for it
          posted       \* ids of the facts booked by Post

vars == <<balance, journal, idempotent, posted>>

-----------------------------------------------------------------------------
(* What one call writes.                                                   *)

OneCredit(c) == [p \in {c.payee} |-> c.amount]

\* Variant: the payer is debited its largest credit instead of their sum.
RowsDebitLargest(payer, credits) ==
    [a \in Account |-> CASE a = payer -> 0 - Max({credits[p] : p \in DOMAIN credits})
                        [] a \in DOMAIN credits -> credits[a]
                        [] OTHER -> 0]

\* The journal rows of one booking, as what each account gains: the payer's
\* debit, the payees' credits, and no row (zero) for everybody else.
Rows(payer, credits) ==
    [a \in Account |-> CASE a = payer -> 0 - SumOf(credits)
                        [] a \in DOMAIN credits -> credits[a]
                        [] OTHER -> 0]

\* Variant: only the debit row reaches the journal.
BookingDebitOnly(id, payer, credits, kind, tick) ==
    [id |-> id, kind |-> kind, tick |-> tick,
     rows |-> [a \in Account |-> IF a = payer THEN Rows(payer, credits)[a] ELSE 0]]

Booking(id, payer, credits, kind, tick) ==
    [id |-> id, kind |-> kind, tick |-> tick, rows |-> Rows(payer, credits)]

Book(id, payer, credits, kind, tick) ==
    /\ balance' = [a \in Account |-> balance[a] + Rows(payer, credits)[a]]
    /\ journal' = Append(journal, Booking(id, payer, credits, kind, tick))

\* Variant: any payer that is not in debt may pay.
CanPayUnlessInDebt(payer, total) == payer = Treasury \/ balance[payer] >= 0

CanPay(payer, total) == payer = Treasury \/ balance[payer] >= total

\* Variant: the answer reports the balance before the debit.
PaidBefore(payer, credits) == [ok |-> TRUE, payerBalance |-> balance[payer]]

Paid(payer, credits) ==
    [ok |-> TRUE, payerBalance |-> balance[payer] - SumOf(credits)]

\* Variant: the result is not cached.
RememberNothing(key, result) == UNCHANGED idempotent

Remember(key, result) ==
    idempotent' = [k \in DOMAIN idempotent \cup {key} |->
                     IF k = key THEN result ELSE idempotent[k]]

TransferKey(c) == <<c.payer, c.payee, c.tick, c.kind>>

BatchKey(c) == <<c.payer, BatchPayee, c.tick, c.kind>>

\* Variant: the key is not looked up before the payer is debited.
PayNoLookup(key, payer, credits, kind, tick) ==
    \/ ~CanPay(payer, SumOf(credits)) /\ UNCHANGED vars
    \/ /\ CanPay(payer, SumOf(credits))
       /\ Book(key, payer, credits, kind, tick)
       /\ Remember(key, Paid(payer, credits))
       /\ UNCHANGED posted

\* Transfer and BatchTransfer share their whole body.  A key seen before is
\* answered from memory and a payer that cannot cover the sum is refused, the
\* refusal not remembered: neither changes anything.  Otherwise the rows are
\* written and the result is cached under the key.
Pay(key, payer, credits, kind, tick) ==
    \/ /\ key \in DOMAIN idempotent \/ ~CanPay(payer, SumOf(credits))
       /\ UNCHANGED vars
    \/ /\ key \notin DOMAIN idempotent
       /\ CanPay(payer, SumOf(credits))
       /\ Book(key, payer, credits, kind, tick)
       /\ Remember(key, Paid(payer, credits))
       /\ UNCHANGED posted

-----------------------------------------------------------------------------
(* The operations.                                                         *)

Transfer(c) == Pay(TransferKey(c), c.payer, OneCredit(c), c.kind, c.tick)

BatchTransfer(c) == Pay(BatchKey(c), c.payer, c.credits, c.kind, c.tick)

\* Post books what another authority decided: no balance check.
Post(f) ==
    \/ /\ f.id \in posted
       /\ UNCHANGED vars
    \/ /\ f.id \notin posted
       /\ posted' = posted \cup {f.id}
       /\ Book(f.id, f.payer, OneCredit(f), f.kind, f.tick)
       /\ UNCHANGED idempotent

Init ==
    /\ balance = [a \in Account |-> 0]
    /\ journal = << >>
    /\ idempotent = << >>
    /\ posted = {}

Next ==
    \/ \E c \in Transfers : Transfer(c)
    \/ \E c \in Batches : BatchTransfer(c)
    \/ \E f \in Facts : Post(f)

Spec == Init /\ [][Next]_vars

-----------------------------------------------------------------------------
(* Properties.                                                             *)

BookingType == [id : Key \cup FactId, kind : Kind, tick : Tick,
                rows : [Account -> Int]]

Result == [ok : BOOLEAN, payerBalance : Int]

TypeOK ==
    /\ balance \in [Account -> Int]
    /\ journal \in Seq(BookingType)
    /\ DOMAIN idempotent \subseteq Key
    /\ idempotent \in [DOMAIN idempotent -> Result]
    /\ posted \subseteq FactId

\* ADR 0006, invariant 1: money is neither created nor destroyed by any
\* transfer, batch or booked fact; the treasury's debt is everybody's wealth.
SupplyClosed == SumOf(balance) = 0

\* "Replaying the journal reconstructs any balance" (ledger.go, JournalEntry):
\* the cached balance of every account is the fold of its journal rows.
Replay(j, a, n) == SumOf([i \in 1..n |-> j[i].rows[a]])
ReplayReconstructs ==
    \A a \in Account : balance[a] = Replay(journal, a, Len(journal))

\* A key is cached, or a fact id marked posted, exactly when the journal
\* holds one booking under it: retries and redeliveries never book twice, and
\* a refusal, which books nothing, is never remembered.
BookedExactlyOnce ==
    /\ {journal[n].id : n \in DOMAIN journal} = DOMAIN idempotent \cup posted
    /\ \A m, n \in DOMAIN journal : journal[m].id = journal[n].id => m = n

\* A retry is answered with the result of the moment the money moved: the
\* cached balance is the payer's balance right after its own booking.
CachedAnswerIsFirstAnswer ==
    \A n \in DOMAIN journal :
        journal[n].id \in DOMAIN idempotent =>
            LET r == idempotent[journal[n].id]
            IN  /\ r.ok
                /\ r.payerBalance = Replay(journal, journal[n].id[1], n)

\* Transfer and BatchTransfer never overdraw: an account other than the
\* treasury is below zero only if a posted fact debited it.
OnlyFactsOverdraw ==
    \A a \in Account \ {Treasury} :
        balance[a] < 0 =>
            \E n \in DOMAIN journal : /\ journal[n].id \in posted
                                      /\ journal[n].rows[a] < 0

\* The journal only grows and what was answered stays answered: no step
\* rewrites a booking or a cached result.
HistoryIsFinal ==
    [][ /\ Len(journal') >= Len(journal)
        /\ \A n \in DOMAIN journal : journal'[n] = journal[n]
        /\ \A k \in DOMAIN idempotent :
              k \in DOMAIN idempotent' /\ idempotent'[k] = idempotent[k]]_vars
=============================================================================
