---------------------------- MODULE LedgerProofs ----------------------------
(***************************************************************************)
(* The ledger's guarantees for every set of accounts, ticks and calls.     *)
(***************************************************************************)
EXTENDS Ledger, SumTheorems

\* What the calls pass to Book: credits of positive amounts to accounts other
\* than the payer's.
CreditsOf(payer, credits) ==
    /\ payer \in Account
    /\ DOMAIN credits \subseteq Account \ {payer}
    /\ \A p \in DOMAIN credits : credits[p] \in Amount

\* The one-credit list of a Transfer or of a fact is well formed.
LEMMA OneCreditOK ==
    ASSUME NEW c, c.payer \in Account, c.payee \in Account, c.payer # c.payee,
           c.amount \in Amount
    PROVE  CreditsOf(c.payer, OneCredit(c))
BY DEF CreditsOf, OneCredit

\* The total of a list of credits is an integer.
LEMMA TotalInt ==
    ASSUME NEW payer, NEW credits, CreditsOf(payer, credits)
    PROVE  SumOf(credits) \in Int
<1>1. IsFiniteSet(DOMAIN credits)
  BY AccountAssumption, FS_Subset DEF CreditsOf
<1>2. \A p \in DOMAIN credits : credits[p] \in Int
  BY DEF CreditsOf, Amount
<1> QED BY <1>1, <1>2, SumInt DEF SumOf

\* The rows of a booking are integers, and only the payer's is a debit.
LEMMA RowsType ==
    ASSUME NEW payer, NEW credits, CreditsOf(payer, credits)
    PROVE  /\ Rows(payer, credits) \in [Account -> Int]
           /\ \A a \in Account \ {payer} : Rows(payer, credits)[a] >= 0
           /\ Rows(payer, credits)[payer] = 0 - SumOf(credits)
<1>1. SumOf(credits) \in Int
  BY TotalInt
<1>2. \A a \in DOMAIN credits : a # payer /\ credits[a] \in Int /\ credits[a] >= 0
  BY DEF CreditsOf, Amount
<1> QED BY <1>1, <1>2 DEF Rows, CreditsOf

\* Double entry: what a booking takes from the payer is what it gives out.
LEMMA RowsBalance ==
    ASSUME NEW payer, NEW credits, CreditsOf(payer, credits)
    PROVE  SumOver(Rows(payer, credits), Account) = 0
<1> DEFINE total == SumOf(credits)
           debit == [a \in Account |-> IF a \in {payer} THEN 0 - total ELSE 0]
           credit == [a \in Account |-> IF a \in DOMAIN credits THEN credits[a] ELSE 0]
           one == [a \in {payer} |-> 0 - total]
           gain == Rows(payer, credits)
<1>1. total \in Int BY TotalInt
<1> HIDE DEF total
<1>2. SumOver(debit, Account) = 0 - total
  <2>1. \A x \in Account : debit[x] = IF x \in {payer} THEN one[x] ELSE 0
    OBVIOUS
  <2>2. \A x \in Account \cap {payer} : one[x] \in Int
    BY <1>1
  <2>3. Account \cap {payer} = {payer}
    BY DEF CreditsOf
  <2>4. one[payer] = 0 - total
    OBVIOUS
  <2> HIDE DEF debit, one
  <2>5. SumOver(debit, Account) = SumOver(one, Account \cap {payer})
    BY <2>1, <2>2, AccountAssumption, SumRestrict
  <2>6. SumOver(one, {payer}) = one[payer]
    BY <1>1, <2>4, SumSingle
  <2> QED BY <2>3, <2>4, <2>5, <2>6
<1>3. SumOver(credit, Account) = total
  <2>1. \A x \in Account : credit[x] = IF x \in DOMAIN credits THEN credits[x] ELSE 0
    OBVIOUS
  <2>2. \A x \in Account \cap DOMAIN credits : credits[x] \in Int
    BY DEF CreditsOf, Amount
  <2>3. Account \cap DOMAIN credits = DOMAIN credits
    BY DEF CreditsOf
  <2> HIDE DEF credit
  <2>4. SumOver(credit, Account) = SumOver(credits, Account \cap DOMAIN credits)
    BY <2>1, <2>2, AccountAssumption, SumRestrict
  <2> QED BY <2>3, <2>4 DEF total, SumOf
<1>4. \A x \in Account : /\ debit[x] \in Int
                         /\ credit[x] \in Int
                         /\ gain[x] = debit[x] + credit[x]
  <2> SUFFICES ASSUME NEW x \in Account
               PROVE  /\ debit[x] \in Int
                      /\ credit[x] \in Int
                      /\ gain[x] = debit[x] + credit[x]
    OBVIOUS
  <2>1. CASE x = payer
    BY <1>1, <2>1 DEF Rows, CreditsOf, total
  <2>2. CASE x # payer
    BY <1>1, <2>2 DEF Rows, CreditsOf, Amount
  <2> QED BY <2>1, <2>2
<1> HIDE DEF debit, credit, gain
<1>5. SumOver(gain, Account) = SumOver(debit, Account) + SumOver(credit, Account)
  BY <1>4, AccountAssumption, SumAdd
<1> QED BY <1>1, <1>2, <1>3, <1>5 DEF gain

-----------------------------------------------------------------------------
(* The two steps that change anything.                                     *)

PayStep(key, payer, credits, kind, tick) ==
    /\ CreditsOf(payer, credits)
    /\ key \in Key /\ key[1] = payer /\ kind \in Kind /\ tick \in Tick
    /\ key \notin DOMAIN idempotent
    /\ CanPay(payer, SumOf(credits))
    /\ Book(key, payer, credits, kind, tick)
    /\ Remember(key, Paid(payer, credits))
    /\ UNCHANGED posted

PostStep(f) ==
    /\ CreditsOf(f.payer, OneCredit(f))
    /\ f.id \in FactId /\ f.kind \in Kind /\ f.tick \in Tick
    /\ f.id \notin posted
    /\ posted' = posted \cup {f.id}
    /\ Book(f.id, f.payer, OneCredit(f), f.kind, f.tick)
    /\ UNCHANGED idempotent

\* Every step of the ledger is one of the two, or changes nothing.
LEMMA NextCases ==
    ASSUME [Next]_vars
    PROVE  \/ UNCHANGED vars
           \/ \E key, payer, credits, kind, tick :
                 PayStep(key, payer, credits, kind, tick)
           \/ \E f \in Facts : PostStep(f)
<1>1. CASE UNCHANGED vars
  BY <1>1
<1>2. ASSUME NEW c \in Transfers, Transfer(c)
      PROVE  \/ UNCHANGED vars
             \/ PayStep(TransferKey(c), c.payer, OneCredit(c), c.kind, c.tick)
  <2>1. c \in TransferCall /\ c.payer # c.payee
    BY CallAssumption
  <2>2. CreditsOf(c.payer, OneCredit(c))
    BY <2>1, OneCreditOK DEF TransferCall
  <2>3. /\ TransferKey(c) \in Key /\ TransferKey(c)[1] = c.payer
        /\ c.kind \in Kind /\ c.tick \in Tick
    BY <2>1 DEF TransferKey, TransferCall, Key
  <2> QED BY <1>2, <2>2, <2>3 DEF Transfer, Pay, PayStep
<1>3. ASSUME NEW c \in Batches, BatchTransfer(c)
      PROVE  \/ UNCHANGED vars
             \/ PayStep(BatchKey(c), c.payer, c.credits, c.kind, c.tick)
  <2>1. CreditsOf(c.payer, c.credits) /\ c.kind \in Kind /\ c.tick \in Tick
    BY CallAssumption DEF CreditsOf
  <2>2. BatchKey(c) \in Key /\ BatchKey(c)[1] = c.payer
    BY CallAssumption DEF BatchKey, Key
  <2> QED BY <1>3, <2>1, <2>2 DEF BatchTransfer, Pay, PayStep
<1>4. ASSUME NEW f \in Facts, Post(f)
      PROVE  UNCHANGED vars \/ PostStep(f)
  <2>1. f \in FactCall /\ f.payer # f.payee
    BY CallAssumption
  <2>2. CreditsOf(f.payer, OneCredit(f))
    BY <2>1, OneCreditOK DEF FactCall
  <2> QED BY <1>4, <2>1, <2>2 DEF Post, PostStep, FactCall
<1> QED BY <1>1, <1>2, <1>3, <1>4 DEF Next

\* A booking appends one well-typed entry and leaves the others alone.
LEMMA BookAppends ==
    ASSUME TypeOK, NEW id \in Key \cup FactId, NEW payer, NEW credits,
           NEW kind \in Kind, NEW tick \in Tick,
           CreditsOf(payer, credits), Book(id, payer, credits, kind, tick)
    PROVE  /\ balance' \in [Account -> Int]
           /\ journal' \in Seq(BookingType)
           /\ Len(journal') = Len(journal) + 1
           /\ \A n \in 1..Len(journal) : journal'[n] = journal[n]
           /\ journal'[Len(journal) + 1] = Booking(id, payer, credits, kind, tick)
<1>1. Rows(payer, credits) \in [Account -> Int]
  BY RowsType
<1>2. Booking(id, payer, credits, kind, tick) \in BookingType
  BY <1>1 DEF Booking, BookingType
<1>3. balance' \in [Account -> Int]
  BY <1>1 DEF Book, TypeOK
<1> QED BY <1>2, <1>3 DEF Book, TypeOK

\* Type correctness: balances stay integers, journal entries well-formed
\* bookings, cached results results and keys keys, whatever is called.
THEOREM TypeCorrect == Spec => []TypeOK
<1>1. Init => TypeOK
  BY DEF Init, TypeOK, Key, Result
<1>2. TypeOK /\ [Next]_vars => TypeOK'
  <2> SUFFICES ASSUME TypeOK, [Next]_vars PROVE TypeOK'
    OBVIOUS
  <2>1. CASE UNCHANGED vars
    BY <2>1 DEF vars, TypeOK
  <2>2. ASSUME NEW key, NEW payer, NEW credits, NEW kind, NEW tick,
               PayStep(key, payer, credits, kind, tick)
        PROVE  TypeOK'
    <3>1. balance' \in [Account -> Int] /\ journal' \in Seq(BookingType)
      BY <2>2, BookAppends DEF PayStep
    <3>2. Paid(payer, credits) \in Result
      BY <2>2, TotalInt DEF PayStep, Paid, Result, TypeOK, CreditsOf
    <3> QED BY <2>2, <3>1, <3>2 DEF PayStep, Remember, TypeOK
  <2>3. ASSUME NEW f \in Facts, PostStep(f)
        PROVE  TypeOK'
    <3>1. balance' \in [Account -> Int] /\ journal' \in Seq(BookingType)
      BY <2>3, BookAppends DEF PostStep
    <3> QED BY <2>3, <3>1 DEF PostStep, TypeOK
  <2> QED BY <2>1, <2>2, <2>3, NextCases
<1> QED BY <1>1, <1>2, PTL DEF Spec

\* ADR 0006, invariant 1, for every set of accounts: the sum of all balances
\* stays zero through transfers, payrolls, escheats, issuances and facts.
THEOREM SupplyIsClosed == Spec => []SupplyClosed
<1>1. Init => SupplyClosed
  <2> SUFFICES ASSUME Init PROVE SupplyClosed
    OBVIOUS
  <2>1. \A x \in Account : balance[x] = IF x \in {} THEN balance[x] ELSE 0
    BY DEF Init
  <2>2. \A x \in Account \cap {} : balance[x] \in Int
    OBVIOUS
  <2>3. SumOver(balance, Account) = SumOver(balance, Account \cap {})
    BY <2>1, <2>2, AccountAssumption, SumRestrict
  <2>4. Account \cap {} = {} /\ DOMAIN balance = Account
    BY DEF Init
  <2> QED BY <2>3, <2>4, SumEmpty DEF SupplyClosed, SumOf
<1>2. TypeOK /\ SupplyClosed /\ [Next]_vars => SupplyClosed'
  <2> SUFFICES ASSUME TypeOK, SupplyClosed, [Next]_vars PROVE SupplyClosed'
    OBVIOUS
  <2>1. ASSUME NEW id, NEW payer, NEW credits, NEW kind, NEW tick,
               CreditsOf(payer, credits), Book(id, payer, credits, kind, tick)
        PROVE  SupplyClosed'
    <3> DEFINE rows == Rows(payer, credits)
    <3>1. rows \in [Account -> Int]
      BY <2>1, RowsType
    <3>2. \A x \in Account : /\ balance[x] \in Int /\ rows[x] \in Int
                             /\ balance'[x] = balance[x] + rows[x]
      BY <2>1, <3>1 DEF Book, TypeOK
    <3>3. SumOver(rows, Account) = 0
      BY <2>1, RowsBalance
    <3>4. SumOver(balance, Account) = 0
      BY DEF SupplyClosed, SumOf, TypeOK
    <3>5. DOMAIN balance' = Account
      BY <2>1 DEF Book
    <3> HIDE DEF rows
    <3>6. SumOver(balance', Account) = SumOver(balance, Account) + SumOver(rows, Account)
      BY <3>2, AccountAssumption, SumAdd
    <3> QED BY <3>3, <3>4, <3>5, <3>6 DEF SupplyClosed, SumOf
  <2>2. CASE UNCHANGED vars
    BY <2>2 DEF vars, SupplyClosed
  <2> QED BY <2>1, <2>2, NextCases DEF PayStep, PostStep
<1> QED BY <1>1, <1>2, TypeCorrect, PTL DEF Spec

\* Retried calls and redelivered facts move money once: a key or fact id has
\* exactly one booking when it is remembered, and none otherwise.
THEOREM BooksExactlyOnce == Spec => []BookedExactlyOnce
<1>1. Init => BookedExactlyOnce
  BY DEF Init, BookedExactlyOnce
<1>2. TypeOK /\ BookedExactlyOnce /\ [Next]_vars => BookedExactlyOnce'
  <2> SUFFICES ASSUME TypeOK, BookedExactlyOnce, [Next]_vars
               PROVE  BookedExactlyOnce'
    OBVIOUS
  <2>1. CASE UNCHANGED vars
    BY <2>1 DEF vars, BookedExactlyOnce
  <2>2. ASSUME NEW id \in Key \cup FactId, NEW payer, NEW credits,
               NEW kind \in Kind, NEW tick \in Tick,
               CreditsOf(payer, credits), Book(id, payer, credits, kind, tick),
               id \notin DOMAIN idempotent \cup posted,
               DOMAIN idempotent' \cup posted' = DOMAIN idempotent \cup posted \cup {id}
        PROVE  BookedExactlyOnce'
    <3>1. /\ DOMAIN journal = 1..Len(journal)
          /\ DOMAIN journal' = 1..(Len(journal) + 1)
          /\ Len(journal) \in Nat
      BY <2>2, BookAppends DEF TypeOK
    <3>2. /\ \A n \in 1..Len(journal) : journal'[n].id = journal[n].id
          /\ journal'[Len(journal) + 1].id = id
      <4>1. /\ \A n \in 1..Len(journal) : journal'[n] = journal[n]
            /\ journal'[Len(journal) + 1] = Booking(id, payer, credits, kind, tick)
        BY <2>2, BookAppends
      <4>2. Booking(id, payer, credits, kind, tick).id = id
        BY DEF Booking
      <4> QED BY <4>1, <4>2
    <3>3. \A n \in DOMAIN journal : journal[n].id # id
      BY <2>2 DEF BookedExactlyOnce
    <3>4. {journal'[n].id : n \in DOMAIN journal'} =
          {journal[n].id : n \in DOMAIN journal} \cup {id}
      BY <3>1, <3>2
    <3>5. \A m, n \in DOMAIN journal' : journal'[m].id = journal'[n].id => m = n
      BY <3>1, <3>2, <3>3 DEF BookedExactlyOnce
    <3> QED BY <2>2, <3>4, <3>5 DEF BookedExactlyOnce
  <2>3. ASSUME NEW key, NEW payer, NEW credits, NEW kind, NEW tick,
               PayStep(key, payer, credits, kind, tick)
        PROVE  BookedExactlyOnce'
    <3>1. key \notin DOMAIN idempotent \cup posted
      BY <2>3, FactIdAssumption DEF PayStep, TypeOK
    <3>2. DOMAIN idempotent' \cup posted' = DOMAIN idempotent \cup posted \cup {key}
      BY <2>3 DEF PayStep, Remember
    <3> QED BY <2>2, <2>3, <3>1, <3>2 DEF PayStep
  <2>4. ASSUME NEW f \in Facts, PostStep(f)
        PROVE  BookedExactlyOnce'
    <3>1. f.id \notin DOMAIN idempotent \cup posted
      BY <2>4, FactIdAssumption DEF PostStep, TypeOK
    <3>2. DOMAIN idempotent' \cup posted' = DOMAIN idempotent \cup posted \cup {f.id}
      BY <2>4 DEF PostStep
    <3> QED BY <2>2, <2>4, <3>1, <3>2 DEF PostStep
  <2> QED BY <2>1, <2>3, <2>4, NextCases
<1> QED BY <1>1, <1>2, TypeCorrect, PTL DEF Spec

\* Solvency is gated: Transfer and BatchTransfer cannot leave an account other
\* than the treasury below zero; only a fact decided elsewhere can.
THEOREM OnlyFactsCanOverdraw == Spec => []OnlyFactsOverdraw
<1>1. Init => OnlyFactsOverdraw
  BY DEF Init, OnlyFactsOverdraw
<1>2. TypeOK /\ OnlyFactsOverdraw /\ [Next]_vars => OnlyFactsOverdraw'
  <2> SUFFICES ASSUME TypeOK, OnlyFactsOverdraw, [Next]_vars
               PROVE  OnlyFactsOverdraw'
    OBVIOUS
  <2>1. CASE UNCHANGED vars
    BY <2>1 DEF vars, OnlyFactsOverdraw
  <2>2. ASSUME NEW a \in Account \ {Treasury}, balance[a] < 0, posted \subseteq posted',
               Len(journal') = Len(journal) + 1,
               \A n \in 1..Len(journal) : journal'[n] = journal[n],
               journal' \in Seq(BookingType)
        PROVE  \E n \in DOMAIN journal' : journal'[n].id \in posted' /\ journal'[n].rows[a] < 0
    <3>1. PICK n \in DOMAIN journal : journal[n].id \in posted /\ journal[n].rows[a] < 0
      BY <2>2 DEF OnlyFactsOverdraw
    <3>2. n \in 1..Len(journal) /\ n \in DOMAIN journal'
      BY <2>2 DEF TypeOK
    <3> QED BY <2>2, <3>1, <3>2
  <2>3. ASSUME NEW key, NEW payer, NEW credits, NEW kind, NEW tick,
               PayStep(key, payer, credits, kind, tick)
        PROVE  OnlyFactsOverdraw'
    <3> SUFFICES ASSUME NEW a \in Account \ {Treasury}, balance'[a] < 0
                 PROVE  balance[a] < 0
      <4>1. /\ Len(journal') = Len(journal) + 1
            /\ \A n \in 1..Len(journal) : journal'[n] = journal[n]
            /\ journal' \in Seq(BookingType)
            /\ posted \subseteq posted'
        BY <2>3, BookAppends DEF PayStep
      <4> QED BY <2>2, <4>1 DEF OnlyFactsOverdraw
    <3>1. /\ balance'[a] = balance[a] + Rows(payer, credits)[a]
          /\ balance[a] \in Int
      BY <2>3 DEF PayStep, Book, TypeOK
    <3>2. SumOf(credits) \in Int
      BY <2>3, TotalInt DEF PayStep
    <3>3. CASE a = payer
      <4>1. balance[a] >= SumOf(credits)
        BY <2>3, <3>3 DEF PayStep, CanPay
      <4>2. Rows(payer, credits)[a] = 0 - SumOf(credits)
        BY <2>3, <3>3, RowsType DEF PayStep
      <4> QED BY <3>1, <3>2, <4>1, <4>2
    <3>4. CASE a # payer
      <4>1. Rows(payer, credits)[a] \in Int /\ Rows(payer, credits)[a] >= 0
        BY <2>3, <3>4, RowsType DEF PayStep
      <4> QED BY <3>1, <4>1
    <3> QED BY <3>3, <3>4
  <2>4. ASSUME NEW f \in Facts, PostStep(f)
        PROVE  OnlyFactsOverdraw'
    <3> SUFFICES ASSUME NEW a \in Account \ {Treasury}, balance'[a] < 0
                 PROVE  \E n \in DOMAIN journal' :
                          journal'[n].id \in posted' /\ journal'[n].rows[a] < 0
      BY DEF OnlyFactsOverdraw
    <3>1. /\ Len(journal') = Len(journal) + 1
          /\ \A n \in 1..Len(journal) : journal'[n] = journal[n]
          /\ journal' \in Seq(BookingType)
          /\ journal'[Len(journal) + 1] =
               Booking(f.id, f.payer, OneCredit(f), f.kind, f.tick)
      BY <2>4, BookAppends DEF PostStep
    <3>2. CASE balance[a] < 0
      BY <2>2, <2>4, <3>1, <3>2 DEF PostStep
    <3>3. CASE balance[a] >= 0
      <4>1. Rows(f.payer, OneCredit(f))[a] < 0
        <5>1. /\ balance'[a] = balance[a] + Rows(f.payer, OneCredit(f))[a]
              /\ balance[a] \in Int
          BY <2>4 DEF PostStep, Book, TypeOK
        <5>2. Rows(f.payer, OneCredit(f))[a] \in Int
          BY <2>4, RowsType DEF PostStep
        <5> QED BY <3>3, <5>1, <5>2
      <4>2. Len(journal) + 1 \in DOMAIN journal'
        BY <3>1 DEF TypeOK
      <4>3. journal'[Len(journal) + 1].id \in posted'
        BY <2>4, <3>1 DEF PostStep, Booking
      <4>4. journal'[Len(journal) + 1].rows[a] < 0
        BY <3>1, <4>1 DEF Booking
      <4> QED BY <4>2, <4>3, <4>4
    <3>4. balance[a] \in Int
      BY DEF TypeOK
    <3> QED BY <3>2, <3>3, <3>4
  <2> QED BY <2>1, <2>3, <2>4, NextCases
<1> QED BY <1>1, <1>2, TypeCorrect, PTL DEF Spec

\* Appending a booking leaves every earlier replay alone and adds its own rows
\* to the last one.
LEMMA ReplayAppend ==
    ASSUME NEW j \in Seq(BookingType), NEW b \in BookingType, NEW a \in Account,
           NEW k, k = Append(j, b)
    PROVE  /\ \A n \in 0..Len(j) : Replay(k, a, n) = Replay(j, a, n)
           /\ Replay(j, a, Len(j)) \in Int
           /\ Replay(k, a, Len(j) + 1) = Replay(j, a, Len(j)) + b.rows[a]
<1> DEFINE len == Len(j)
           old == [i \in 1..len |-> j[i].rows[a]]
           new == [i \in 1..(len + 1) |-> k[i].rows[a]]
<1>1. len \in Nat /\ DOMAIN j = 1..len
  OBVIOUS
<1>2. (\A n \in 1..len : k[n] = j[n]) /\ k[len + 1] = b
  OBVIOUS
<1>3. \A x \in BookingType : x.rows[a] \in Int
  BY DEF BookingType
<1>4. \A n \in 1..len : j[n] \in BookingType
  OBVIOUS
<1>5. /\ \A x \in 1..len : old[x] \in Int
      /\ \A x \in 1..(len + 1) : new[x] \in Int
      /\ \A x \in 1..len : new[x] = old[x]
      /\ new[len + 1] = b.rows[a]
  BY <1>1, <1>2, <1>3, <1>4
<1>6. ASSUME NEW n \in 0..len PROVE Replay(k, a, n) = Replay(j, a, n)
  <2>1. [i \in 1..n |-> k[i].rows[a]] = [i \in 1..n |-> j[i].rows[a]]
    BY <1>1, <1>2
  <2> QED BY <2>1 DEF Replay
<1>7. IsFiniteSet(1..len) /\ IsFiniteSet(1..(len + 1))
  BY <1>1, FS_Interval
<1>8. len + 1 \in 1..(len + 1) /\ (1..(len + 1)) \ {len + 1} = 1..len
  BY <1>1
<1>9. DOMAIN old = 1..len /\ DOMAIN new = 1..(len + 1)
  OBVIOUS
<1>10. Replay(j, a, len) = SumOver(old, 1..len)
  BY <1>9 DEF Replay, SumOf
<1>11. Replay(k, a, len + 1) = SumOver(new, 1..(len + 1))
  BY <1>9 DEF Replay, SumOf
<1> HIDE DEF old, new, len
<1>12. SumOver(old, 1..len) \in Int
  BY <1>5, <1>7, SumInt
<1>13. SumOver(new, 1..(len + 1)) = new[len + 1] + SumOver(new, (1..(len + 1)) \ {len + 1})
  BY <1>5, <1>7, <1>8, SumRemove
<1>14. SumOver(new, (1..(len + 1)) \ {len + 1}) = SumOver(new, 1..len)
  BY <1>8
<1>15. SumOver(new, 1..len) = SumOver(old, 1..len)
  BY <1>5, <1>7, SumEqual
<1>16. b.rows[a] \in Int
  BY <1>3
<1>17. Replay(k, a, len + 1) = Replay(j, a, len) + b.rows[a]
  BY <1>5, <1>10, <1>11, <1>12, <1>13, <1>14, <1>15, <1>16
<1> QED BY <1>6, <1>10, <1>12, <1>17 DEF len

\* An empty journal replays to zero.
LEMMA ReplayEmpty == ASSUME NEW j, NEW a PROVE Replay(j, a, 0) = 0
<1> DEFINE f == [i \in 1..0 |-> j[i].rows[a]]
<1>1. DOMAIN f = {} OBVIOUS
<1>2. Replay(j, a, 0) = SumOver(f, {})
  BY <1>1 DEF Replay, SumOf
<1> HIDE DEF f
<1> QED BY <1>2, SumEmpty

\* "Replaying the journal reconstructs any balance" (ledger.go): the cached
\* balance of every account is always the fold of the journal.
THEOREM ReplayAlwaysReconstructs == Spec => []ReplayReconstructs
<1>1. Init => ReplayReconstructs
  <2> SUFFICES ASSUME Init, NEW a \in Account
               PROVE  balance[a] = Replay(journal, a, Len(journal))
    BY DEF ReplayReconstructs
  <2>1. balance[a] = 0 /\ Len(journal) = 0
    BY DEF Init
  <2> QED BY <2>1, ReplayEmpty
<1>2. TypeOK /\ ReplayReconstructs /\ [Next]_vars => ReplayReconstructs'
  <2> SUFFICES ASSUME TypeOK, ReplayReconstructs, [Next]_vars
               PROVE  ReplayReconstructs'
    OBVIOUS
  <2>1. CASE UNCHANGED vars
    BY <2>1 DEF vars, ReplayReconstructs
  <2>2. ASSUME NEW id \in Key \cup FactId, NEW payer, NEW credits,
               NEW kind \in Kind, NEW tick \in Tick,
               CreditsOf(payer, credits), Book(id, payer, credits, kind, tick)
        PROVE  ReplayReconstructs'
    <3> SUFFICES ASSUME NEW a \in Account
                 PROVE  balance'[a] = Replay(journal', a, Len(journal'))
      BY DEF ReplayReconstructs
    <3> DEFINE b == Booking(id, payer, credits, kind, tick)
    <3>1. b \in BookingType /\ b.rows = Rows(payer, credits)
      BY <2>2, RowsType DEF Booking, BookingType
    <3>2. balance'[a] = balance[a] + Rows(payer, credits)[a]
      BY <2>2 DEF Book
    <3>3. balance[a] = Replay(journal, a, Len(journal))
      BY DEF ReplayReconstructs
    <3>4. journal' = Append(journal, b) /\ journal \in Seq(BookingType)
      BY <2>2 DEF Book, TypeOK
    <3>5. Len(journal') = Len(journal) + 1
      BY <3>4
    <3> HIDE DEF b
    <3>6. Replay(journal', a, Len(journal) + 1) =
            Replay(journal, a, Len(journal)) + b.rows[a]
      BY <3>1, <3>4, ReplayAppend
    <3> QED BY <3>1, <3>2, <3>3, <3>5, <3>6
  <2> QED BY <2>1, <2>2, NextCases DEF PayStep, PostStep
<1> QED BY <1>1, <1>2, TypeCorrect, PTL DEF Spec

\* A retry is answered with the first call's result, for ever: what is cached
\* for a key is the payer's balance right after the booking made under it.
THEOREM CachedAnswersAreFirstAnswers == Spec => []CachedAnswerIsFirstAnswer
<1>1. Init => CachedAnswerIsFirstAnswer
  BY DEF Init, CachedAnswerIsFirstAnswer
<1>2. /\ TypeOK /\ BookedExactlyOnce /\ ReplayReconstructs
      /\ CachedAnswerIsFirstAnswer /\ [Next]_vars
      => CachedAnswerIsFirstAnswer'
  <2> SUFFICES ASSUME TypeOK, BookedExactlyOnce, ReplayReconstructs,
                      CachedAnswerIsFirstAnswer, [Next]_vars
               PROVE  CachedAnswerIsFirstAnswer'
    OBVIOUS
  <2>1. CASE UNCHANGED vars
    BY <2>1 DEF vars, CachedAnswerIsFirstAnswer
  \* An entry booked before the step keeps its answer and its replay.
  <2>2. ASSUME NEW b \in BookingType, journal' = Append(journal, b),
               NEW n \in DOMAIN journal, journal[n].id \in DOMAIN idempotent,
               idempotent'[journal[n].id] = idempotent[journal[n].id]
        PROVE  LET r == idempotent'[journal'[n].id]
               IN  r.ok /\ r.payerBalance = Replay(journal', journal'[n].id[1], n)
    <3> DEFINE id == journal[n].id
    <3>1. journal'[n] = journal[n] /\ n \in 0..Len(journal)
      BY <2>2 DEF TypeOK
    <3>2. id[1] \in Account
      BY <2>2 DEF TypeOK, Key
    <3>3. idempotent[id].ok /\ idempotent[id].payerBalance = Replay(journal, id[1], n)
      BY <2>2 DEF CachedAnswerIsFirstAnswer
    <3>4. journal \in Seq(BookingType)
      BY DEF TypeOK
    <3> HIDE DEF id
    <3>5. Replay(journal', id[1], n) = Replay(journal, id[1], n)
      BY <2>2, <3>1, <3>2, <3>4, ReplayAppend
    <3> QED BY <2>2, <3>1, <3>3, <3>5 DEF id
  <2>3. ASSUME NEW key, NEW payer, NEW credits, NEW kind, NEW tick,
               PayStep(key, payer, credits, kind, tick)
        PROVE  CachedAnswerIsFirstAnswer'
    <3> DEFINE b == Booking(key, payer, credits, kind, tick)
    <3>1. b \in BookingType /\ b.rows = Rows(payer, credits) /\ b.id = key
      BY <2>3, RowsType DEF PayStep, Booking, BookingType
    <3>2. journal' = Append(journal, b) /\ journal \in Seq(BookingType)
      BY <2>3 DEF PayStep, Book, TypeOK
    <3>3. key \notin DOMAIN idempotent \cup posted
      BY <2>3, FactIdAssumption DEF PayStep, TypeOK
    <3> HIDE DEF b
    <3>4. /\ DOMAIN journal' = 1..(Len(journal) + 1) /\ Len(journal) \in Nat
          /\ DOMAIN journal = 1..Len(journal)
          /\ \A n \in DOMAIN journal : journal'[n] = journal[n]
          /\ journal'[Len(journal) + 1] = b
      BY <3>1, <3>2
    <3> SUFFICES ASSUME NEW n \in DOMAIN journal', journal'[n].id \in DOMAIN idempotent'
                 PROVE  LET r == idempotent'[journal'[n].id]
                        IN  r.ok /\ r.payerBalance = Replay(journal', journal'[n].id[1], n)
      BY DEF CachedAnswerIsFirstAnswer
    <3>5. CASE n \in DOMAIN journal
      <4>1. journal[n].id # key
        BY <3>3, <3>5 DEF BookedExactlyOnce
      <4>2. /\ journal[n].id \in DOMAIN idempotent
            /\ idempotent'[journal[n].id] = idempotent[journal[n].id]
        BY <2>3, <3>4, <3>5, <4>1 DEF PayStep, Remember
      <4> QED BY <2>2, <3>1, <3>2, <3>5, <4>2
    <3>6. CASE n = Len(journal) + 1
      <4>1. idempotent'[key] = Paid(payer, credits)
        BY <2>3 DEF PayStep, Remember
      <4>2. Replay(journal', payer, Len(journal) + 1) =
              Replay(journal, payer, Len(journal)) + b.rows[payer]
        <5>1. payer \in Account
          BY <2>3 DEF PayStep, CreditsOf
        <5> QED BY <3>1, <3>2, <5>1, ReplayAppend
      <4>3. /\ balance[payer] = Replay(journal, payer, Len(journal))
            /\ balance[payer] \in Int
        BY <2>3 DEF ReplayReconstructs, PayStep, CreditsOf, TypeOK
      <4>4. b.rows[payer] = 0 - SumOf(credits) /\ SumOf(credits) \in Int
        BY <2>3, <3>1, RowsType, TotalInt DEF PayStep
      <4>5. /\ Paid(payer, credits).ok
            /\ Paid(payer, credits).payerBalance = balance[payer] - SumOf(credits)
        BY DEF Paid
      <4>6. journal'[n].id = key /\ key[1] = payer
        BY <2>3, <3>1, <3>4, <3>6 DEF PayStep
      <4>7. balance[payer] - SumOf(credits) = Replay(journal', payer, Len(journal) + 1)
        BY <4>2, <4>3, <4>4
      <4> QED BY <3>6, <4>1, <4>5, <4>6, <4>7
    <3> QED BY <3>4, <3>5, <3>6
  <2>4. ASSUME NEW f \in Facts, PostStep(f)
        PROVE  CachedAnswerIsFirstAnswer'
    <3> DEFINE b == Booking(f.id, f.payer, OneCredit(f), f.kind, f.tick)
    <3>1. b \in BookingType /\ b.id = f.id
      BY <2>4, RowsType DEF PostStep, Booking, BookingType
    <3>2. journal' = Append(journal, b) /\ journal \in Seq(BookingType)
      BY <2>4 DEF PostStep, Book, TypeOK
    <3>3. idempotent' = idempotent /\ f.id \notin DOMAIN idempotent
      BY <2>4, FactIdAssumption DEF PostStep, TypeOK
    <3> HIDE DEF b
    <3>4. /\ DOMAIN journal' = DOMAIN journal \cup {Len(journal) + 1}
          /\ \A n \in DOMAIN journal : journal'[n] = journal[n]
          /\ journal'[Len(journal) + 1] = b
      BY <3>1, <3>2
    <3> SUFFICES ASSUME NEW n \in DOMAIN journal', journal'[n].id \in DOMAIN idempotent'
                 PROVE  LET r == idempotent'[journal'[n].id]
                        IN  r.ok /\ r.payerBalance = Replay(journal', journal'[n].id[1], n)
      BY DEF CachedAnswerIsFirstAnswer
    <3>5. n \in DOMAIN journal /\ journal[n].id \in DOMAIN idempotent
      BY <3>1, <3>3, <3>4
    <3> QED BY <2>2, <3>1, <3>2, <3>3, <3>5
  <2> QED BY <2>1, <2>3, <2>4, NextCases
<1> QED BY <1>1, <1>2, TypeCorrect, BooksExactlyOnce, ReplayAlwaysReconstructs, PTL
        DEF Spec

\* The journal is append-only and a cached result is never replaced.
THEOREM HistoryStaysFinal == Spec => HistoryIsFinal
<1> DEFINE A == /\ Len(journal') >= Len(journal)
                /\ \A n \in DOMAIN journal : journal'[n] = journal[n]
                /\ \A k \in DOMAIN idempotent :
                      k \in DOMAIN idempotent' /\ idempotent'[k] = idempotent[k]
<1>1. TypeOK /\ [Next]_vars => [A]_vars
  <2> SUFFICES ASSUME TypeOK, [Next]_vars, ~(UNCHANGED vars) PROVE A
    OBVIOUS
  <2>1. ASSUME NEW key, NEW payer, NEW credits, NEW kind, NEW tick,
               PayStep(key, payer, credits, kind, tick)
        PROVE  A
    <3>1. /\ Len(journal') = Len(journal) + 1
          /\ \A n \in 1..Len(journal) : journal'[n] = journal[n]
      BY <2>1, BookAppends DEF PayStep
    <3>2. \A k \in DOMAIN idempotent :
            k \in DOMAIN idempotent' /\ idempotent'[k] = idempotent[k]
      BY <2>1 DEF PayStep, Remember
    <3> QED BY <3>1, <3>2 DEF TypeOK
  <2>2. ASSUME NEW f \in Facts, PostStep(f)
        PROVE  A
    <3>1. /\ Len(journal') = Len(journal) + 1
          /\ \A n \in 1..Len(journal) : journal'[n] = journal[n]
      BY <2>2, BookAppends DEF PostStep
    <3> QED BY <2>2, <3>1 DEF PostStep, TypeOK
  <2> QED BY <2>1, <2>2, NextCases
<1> QED BY <1>1, TypeCorrect, PTL DEF Spec, HistoryIsFinal
=============================================================================
