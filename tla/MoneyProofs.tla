----------------------------- MODULE MoneyProofs ----------------------------
(***************************************************************************)
(* The two books' guarantees for every number of pips, every price,        *)
(* capital and wage, and any number of faults.                             *)
(***************************************************************************)
EXTENDS Money, SumTheorems, SequenceTheorems

-----------------------------------------------------------------------------
(* What is on its way. *)

\* Wages the bank has paid p and the core has still to credit.
Owed(i, p) == IF i.op = "credit" /\ p \in DOMAIN i.credits THEN i.credits[p] ELSE 0
OwedIn(is, p) == SumOf([n \in DOMAIN is |-> Owed(is[n], p)])
Mirrored(p) ==
    IF payroll # Idle /\ payroll.stage = "mirror" /\ p \in DOMAIN payroll.credits
    THEN payroll.credits[p] ELSE 0
Uncredited(p) == OwedIn(intents, p) + Mirrored(p)

\* What the bank has issued and the core has still to.
ToIssue(i) == IF i.op = "issue" THEN i.amount ELSE 0
ToIssueIn(is) == SumOf([n \in DOMAIN is |-> ToIssue(is[n])])
Endowed ==
    IF endowment # Idle /\ endowment.stage = "mirror" THEN endowment.amount ELSE 0
Unissued == ToIssueIn(intents) + Endowed

\* What the bank would hold for p had it booked every purchase once.
Held(p) == balance[p] + twice[p]

\* What of that is beyond the core's balance and all that is on its way.
Gap(p) == Held(p) - replica[p] - Unbooked(p) - Uncredited(p)
Gaps == [p \in Pip |-> Gap(p)]

DeathIn(s, p) == \E n \in DOMAIN s : s[n].topic = "lifecycle" /\ s[n].pip = p /\ ~s[n].done

\* The bank has still to handle the death of p.
Mourned(p) == DeathIn(outbox, p) \/ DeathIn(log["lifecycle"], p)

-----------------------------------------------------------------------------
(* The inductive invariant, beside TypeOK and BothBooksClosed. *)

\* The core gates every purchase, and the dead own nothing.
NoDebtInTheCore ==
    \A p \in Pip : replica[p] >= 0 /\ (p \notin alive => replica[p] = 0)

NoDebtAtTheBank == upsets = {} => \A p \in Pip : Held(p) >= 0

InTheirTopics == \A t \in Topic : \A n \in DOMAIN log[t] : log[t][n].topic = t

\* Within one world, who is reported dead is.
TheDeadAreDead ==
    "restart" \notin upsets =>
        /\ \A n \in DOMAIN outbox : outbox[n].topic = "lifecycle" => outbox[n].pip \notin alive
        /\ \A n \in DOMAIN log["lifecycle"] : log["lifecycle"][n].pip \notin alive

\* The estate being transferred is that of the death in hand.
EscheatInHand ==
    escheat # Idle => Waiting("lifecycle") /\ NextFact("lifecycle").pip = escheat.pip

StillBuilt == "restart" \notin upsets => built

\* PoorerInTheCore counts what is on its way to the bank; this also counts what
\* is on its way to the core.
PoorerOnTheWay ==
    upsets \intersect {"replayed", "restart"} = {} => \A p \in alive : Gap(p) >= 0

\* Of a dead pip's estate no more is left than its purchases cost it again.
Spent(p) == p \notin alive /\ Gap(p) <= twice[p]

\* Only such a rest, and the estate of a pip whose death the bank has still to
\* handle, is missing from the core's books, and the treasury holds it there.
Accounted ==
    /\ \A p \in Pip : Gap(p) # 0 => Mourned(p) \/ Spent(p)
    /\ \A p \in Pip : escheat # Idle /\ escheat.pip = p => escheat.amount + twice[p] >= Gap(p)
    /\ replica[Treasury] = balance[Treasury] + Unissued + SumOver(Gaps, Pip)

BooksMeet == upsets = {} => Accounted

-----------------------------------------------------------------------------
LEMMA Setting ==
    /\ IsFiniteSet(Pip) /\ IsFiniteSet(Account) /\ Pip \subseteq Account
    /\ Farm \in Account \ Pip /\ Treasury \in Account \ Pip /\ Farm # Treasury
    /\ Account \ Pip = {Farm, Treasury}
    /\ Price \in Nat \ {0} /\ Capital \in Nat /\ MaxTicksPerWork \in Nat
    /\ MaxTick \in Nat /\ MaxQueue \in Nat \ {0} /\ MaxFaults \in Nat
    /\ "lifecycle" \in Topic /\ "purchases" \in Topic
<1>1. IsFiniteSet(Account)
  <2>1. IsFiniteSet({Farm}) /\ IsFiniteSet({Treasury})  BY FS_Singleton
  <2>2. Account = (Pip \union {Farm}) \union {Treasury}  BY DEF Account
  <2>3. IsFiniteSet(Pip \union {Farm})  BY <2>1, MoneyAssumption, FS_Union
  <2> QED BY <2>1, <2>2, <2>3, FS_Union
<1>2. Farm \notin Pip /\ Treasury \notin Pip /\ Farm # Treasury  BY MoneyAssumption
<1>4. Pip \subseteq Account /\ Farm \in Account \ Pip /\ Treasury \in Account \ Pip
  BY <1>2 DEF Account
<1>5. Account \ Pip = {Farm, Treasury}
  BY <1>2 DEF Account
<1>3. "lifecycle" \in Topic /\ "purchases" \in Topic  BY DEF Topic
<1> QED BY <1>1, <1>2, <1>3, <1>4, <1>5, MoneyAssumption

\* A book is the farm's account, the treasury's and the pips'.
LEMMA BookSplit ==
    ASSUME NEW b \in [Account -> Int]
    PROVE  /\ SumOf(b) = b[Farm] + b[Treasury] + SumOver(b, Pip)
           /\ SumOver(b, Pip) \in Int
<1> DEFINE R == Account \ {Farm}
<1>1. DOMAIN b = Account /\ \A a \in Account : b[a] \in Int  OBVIOUS
<1>2. SumOver(b, Account) = b[Farm] + SumOver(b, R)  BY <1>1, Setting, SumRemove
<1>3. R \ {Treasury} = Pip /\ Treasury \in R /\ \A a \in R : b[a] \in Int
  BY Setting
<1>4. IsFiniteSet(R)  BY Setting, FS_Subset
<1>5. SumOver(b, R) = b[Treasury] + SumOver(b, R \ {Treasury})
  <2> HIDE DEF R
  <2> QED BY <1>3, <1>4, SumRemove
<1>6. SumOver(b, Pip) \in Int  BY <1>1, Setting, SumInt
<1>7. b[Farm] \in Int /\ b[Treasury] \in Int  BY Setting
<1>8. SumOf(b) = SumOver(b, Account)  BY <1>1 DEF SumOf
<1>9. SumOver(b, R) = b[Treasury] + SumOver(b, Pip)  BY <1>3, <1>5
<1> HIDE DEF R
<1> QED BY <1>2, <1>6, <1>7, <1>8, <1>9

\* Whatever is paid out of a book is paid into it.
LEMMA PaidIs ==
    ASSUME NEW b \in [Account -> Int], NEW payer \in Account, NEW credits,
           DOMAIN credits \subseteq Account, \A a \in DOMAIN credits : credits[a] \in Int
    PROVE  /\ Paid(b, payer, credits) \in [Account -> Int]
           /\ SumOf(Paid(b, payer, credits)) = SumOf(b)
           /\ SumOf(credits) \in Int
<1> DEFINE D == DOMAIN credits
           total == SumOf(credits)
           g == Paid(b, payer, credits)
<1>1. IsFiniteSet(D)  BY Setting, FS_Subset
<1>2. total \in Int  BY <1>1, SumInt DEF SumOf
<1>3. \A x \in Account : g[x] = b[x] + (IF x \in D THEN credits[x] ELSE 0)
                                    - (IF x = payer THEN total ELSE 0)
  BY DEF Paid
<1>4. g \in [Account -> Int]  BY <1>2 DEF Paid
<1>5. total = SumOver(credits, D)  BY DEF SumOf
<1>6. /\ IsFiniteSet(Account) /\ payer \in Account /\ D \subseteq Account
      /\ \A x \in Account : b[x] \in Int
      /\ \A x \in D : credits[x] \in Int
  BY Setting
<1>7. SumOver(g, Account) = SumOver(b, Account)
  <2> HIDE DEF D, total, g
  <2>1. Paying(b, g, Account, payer, credits, D, total)  BY <1>3, <1>5, <1>6 DEF Paying
  <2> QED BY <2>1, SumPaid
<1>8. DOMAIN g = Account /\ DOMAIN b = Account  BY <1>4
<1> HIDE DEF g
<1> QED BY <1>2, <1>4, <1>7, <1>8 DEF SumOf, g

Book == [Account -> Int]
Coins == Int

\* From book b to book g, n coins passed from payer to payee.
Passed(b, g, payer, payee, n) ==
    /\ g \in Book /\ SumOf(g) = SumOf(b)
    /\ g[payer] = b[payer] - n /\ g[payee] = b[payee] + n
    /\ \A a \in Account \ {payer, payee} : g[a] = b[a]

LEMMA PaidOne ==
    ASSUME NEW b \in Book, NEW payer \in Account, NEW payee \in Account,
           payer # payee, NEW n \in Coins
    PROVE  Passed(b, Paid(b, payer, One(payee, n)), payer, payee, n)
<1> DEFINE o == One(payee, n)
           g == Paid(b, payer, o)
<1>1. DOMAIN o = {payee} /\ o[payee] = n /\ n \in Int  BY DEF One, Coins
<1> HIDE DEF o
<1>2. SumOf(o) = n
  <2>1. SumOver(o, {payee}) = o[payee]  BY <1>1, SumSingle
  <2> QED BY <1>1, <2>1 DEF SumOf
<1>3. \A a \in Account : g[a] = b[a] + (IF a = payee THEN n ELSE 0)
                                     - (IF a = payer THEN n ELSE 0)
  BY <1>1, <1>2 DEF Paid
<1>4. g \in Book /\ SumOf(g) = SumOf(b)
  <2>1. DOMAIN o \subseteq Account /\ \A a \in DOMAIN o : o[a] \in Int  BY <1>1
  <2> QED BY <2>1, PaidIs DEF Book
<1>5. \A a \in Account : b[a] \in Int  BY DEF Book
<1> HIDE DEF g
<1>6. g[payer] = b[payer] - n  BY <1>1, <1>3, <1>5
<1>7. g[payee] = b[payee] + n  BY <1>1, <1>3, <1>5
<1>8. \A a \in Account \ {payer, payee} : g[a] = b[a]  BY <1>3, <1>5
<1> QED BY <1>4, <1>6, <1>7, <1>8 DEF Passed, g, o

-----------------------------------------------------------------------------
(* Totals over queues. *)

LEMMA TotalNat == ASSUME NEW f \in Seq(Nat) PROVE SumOf(f) \in Nat
<1>1. IsFiniteSet(1..Len(f)) /\ DOMAIN f = 1..Len(f)  BY FS_Interval
<1>2. \A i \in 1..Len(f) : f[i] \in Nat  OBVIOUS
<1> QED BY <1>1, <1>2, SumNat DEF SumOf

LEMMA TotalNothing == SumOf(<< >>) = 0
<1>1. DOMAIN << >> = {}  OBVIOUS
<1> QED BY <1>1, SumEmpty DEF SumOf

LEMMA TotalJoined ==
    ASSUME NEW f \in Seq(Nat), NEW g \in Seq(Nat)
    PROVE  SumOf(f \o g) = SumOf(f) + SumOf(g)
<1> DEFINE h == f \o g
           n == Len(f)
           m == Len(g)
           G == {j \in 0..m : SumOver(h, 1..n + j) = SumOver(f, 1..n) + SumOver(g, 1..j)}
<1>1. /\ n \in Nat /\ m \in Nat /\ h \in Seq(Nat) /\ Len(h) = n + m
      /\ \A i \in 1..n : h[i] = f[i] /\ f[i] \in Nat
      /\ \A i \in 1..m : h[n + i] = g[i] /\ g[i] \in Nat
      /\ \A i \in 1..n + m : h[i] \in Nat
  OBVIOUS
<1>2. /\ DOMAIN f = 1..n /\ DOMAIN g = 1..m /\ DOMAIN h = 1..n + m
  BY <1>1
<1> HIDE DEF h, n, m
<1>3. IsFiniteSet(1..n) /\ \A j \in 0..m : IsFiniteSet(1..j)
  <2>1. n \in Int /\ 1 \in Int /\ \A j \in 0..m : j \in Int  BY <1>1
  <2> QED BY <2>1, FS_Interval
<1>4. SumOver(f, 1..n) \in Nat  BY <1>1, <1>3, SumNat
<1>5. ASSUME NEW j \in 0..m PROVE SumOver(g, 1..j) \in Nat
  <2>1. \A i \in 1..j : g[i] \in Nat  BY <1>1
  <2> QED BY <1>3, <2>1, SumNat
<1>6. 0 \in G
  <2>1. 1..0 = {} /\ n + 0 = n /\ 0 \in 0..m  BY <1>1
  <2>2. SumOver(g, {}) = 0  BY SumEmpty
  <2>3. \A i \in 1..n : h[i] = f[i] /\ f[i] \in Int  BY <1>1
  <2>4. SumOver(h, 1..n) = SumOver(f, 1..n)  BY <1>3, <2>3, SumEqual
  <2> QED BY <1>4, <2>1, <2>2, <2>4
<1>7. ASSUME NEW j \in 0..m - 1, j \in G PROVE j + 1 \in G
  <2>1. SumOver(h, 1..(n + j) + 1) = SumOver(h, 1..n + j) + h[(n + j) + 1]
    <3>1. n + j \in Nat /\ \A i \in 1..(n + j) + 1 : h[i] \in Int  BY <1>1
    <3> QED BY <3>1, SumNext
  <2>2. SumOver(g, 1..j + 1) = SumOver(g, 1..j) + g[j + 1]
    <3>1. j \in Nat /\ \A i \in 1..j + 1 : g[i] \in Int  BY <1>1
    <3> QED BY <3>1, SumNext
  <2>3. /\ h[(n + j) + 1] = g[j + 1] /\ g[j + 1] \in Nat /\ n + (j + 1) = (n + j) + 1
        /\ j \in 0..m /\ j + 1 \in 0..m
    <3>1. j + 1 \in 1..m /\ n + (j + 1) = (n + j) + 1  BY <1>1
    <3> QED BY <1>1, <3>1
  <2>4. SumOver(g, 1..j) \in Nat  BY <1>5, <2>3
  <2>5. SumOver(h, 1..n + j) = SumOver(f, 1..n) + SumOver(g, 1..j)  BY <1>7
  <2>6. SumOver(h, 1..(n + j) + 1) = SumOver(f, 1..n) + SumOver(g, 1..j + 1)
    BY <1>4, <2>1, <2>2, <2>3, <2>4, <2>5
  <2> QED BY <2>3, <2>6
<1>8. m \in G
  <2> HIDE DEF G
  <2> QED BY <1>1, <1>6, <1>7, IntervalInduction
<1>9. SumOver(h, 1..n + m) = SumOver(f, 1..n) + SumOver(g, 1..m)  BY <1>8
<1>10. SumOf(f) = SumOver(f, 1..n) /\ SumOf(g) = SumOver(g, 1..m)
       /\ SumOf(h) = SumOver(h, 1..n + m)
  BY <1>2 DEF SumOf
<1>11. SumOf(h) = SumOf(f) + SumOf(g)  BY <1>9, <1>10
<1> QED BY <1>11 DEF h

LEMMA TotalAppended ==
    ASSUME NEW f \in Seq(Nat), NEW x \in Nat
    PROVE  SumOf(Append(f, x)) = SumOf(f) + x
<1>1. Append(f, x) = f \o <<x>> /\ <<x>> \in Seq(Nat)  BY AppendIsConcat
<1>2. SumOf(<<x>>) = x
  <2>1. DOMAIN <<x>> = {1} /\ <<x>>[1] = x  OBVIOUS
  <2> QED BY <2>1, SumSingle DEF SumOf
<1> QED BY <1>1, <1>2, TotalJoined

LEMMA TotalDropped ==
    ASSUME NEW f \in Seq(Nat), NEW k \in 0..Len(f)
    PROVE  SumOf(f) = SumOf(SubSeq(f, 1, k)) + SumOf(SubSeq(f, k + 1, Len(f)))
<1> DEFINE a == SubSeq(f, 1, k)
           b == SubSeq(f, k + 1, Len(f))
<1> DEFINE n == Len(f)
<1>1. a \in Seq(Nat) /\ b \in Seq(Nat)
  <2>1. n \in Int /\ k \in Int /\ \A i \in 1..n : f[i] \in Nat  OBVIOUS
  <2>2. SubSeq(f, 1, k) \in Seq(Nat)
    <3>1. \A i \in 1..k : f[i] \in Nat  OBVIOUS
    <3> QED BY <2>1, <3>1, SubSeqProperties
  <2>3. SubSeq(f, k + 1, n) \in Seq(Nat)
    <3> DEFINE m == k + 1
    <3>1. m \in Int /\ \A i \in m..n : f[i] \in Nat  OBVIOUS
    <3> HIDE DEF m, n
    <3>2. SubSeq(f, m, n) \in Seq(Nat)  BY ONLY <2>1, <3>1, SubSeqProperties
    <3> QED BY <3>2 DEF m
  <2> QED BY <2>2, <2>3
<1>2. f = a \o b
  <2>1. 1 \in 1..Len(f) + 1 /\ k \in 1 - 1..Len(f) /\ Len(f) \in k..Len(f)  OBVIOUS
  <2>2. a \o b = SubSeq(f, 1, Len(f))  BY <2>1, ConcatAdjacentSubSeq
  <2> QED BY <2>2, SubSeqFull
<1> HIDE DEF a, b
<1>3. SumOf(f) = SumOf(a) + SumOf(b)  BY <1>1, <1>2, TotalJoined
<1> QED BY <1>3 DEF a, b

LEMMA TotalChanged ==
    ASSUME NEW f \in Seq(Nat), NEW g \in Seq(Nat), Len(g) = Len(f),
           NEW k \in 1..Len(f), \A i \in 1..Len(f) : i # k => g[i] = f[i]
    PROVE  SumOf(g) = SumOf(f) - f[k] + g[k]
<1> DEFINE S == 1..Len(f)
           d == g[k] - f[k]
<1>1. /\ k \in S /\ DOMAIN f = S /\ DOMAIN g = S /\ d \in Int
      /\ f[k] \in Nat /\ g[k] \in Nat
  OBVIOUS
<1>6. IsFiniteSet(S)  BY FS_Interval
<1>2. Changed(f, g, S, k, d)  BY DEF Changed
<1> HIDE DEF S, d
<1>3. SumOver(g, S) = SumOver(f, S) + d  BY <1>1, <1>2, <1>6, SumChanged
<1>4. SumOf(f) = SumOver(f, S) /\ SumOf(g) = SumOver(g, S)  BY <1>1 DEF SumOf
<1>5. SumOf(f) \in Nat  BY TotalNat
<1> QED BY <1>1, <1>3, <1>4, <1>5 DEF d

\* Purchases due in a queue of facts: published, taken, handled, given up.
Dues(s, p) == [n \in DOMAIN s |-> Due(s[n], p)]

LEMMA DueNat == ASSUME NEW f, NEW p PROVE Due(f, p) \in Nat
BY Setting DEF Due

LEMMA DuesTyped ==
    ASSUME NEW s \in Seq(Fact), NEW p
    PROVE  /\ Dues(s, p) \in Seq(Nat) /\ Len(Dues(s, p)) = Len(s)
           /\ \A n \in 1..Len(s) : Dues(s, p)[n] = Due(s[n], p)
           /\ DueIn(s, p) = SumOf(Dues(s, p)) /\ DueIn(s, p) \in Nat
<1>1. /\ Dues(s, p) \in Seq(Nat) /\ Len(Dues(s, p)) = Len(s)
      /\ \A n \in 1..Len(s) : Dues(s, p)[n] = Due(s[n], p)
  BY DueNat DEF Dues
<1>2. DueIn(s, p) = SumOf(Dues(s, p))  BY DEF DueIn, Dues
<1> QED BY <1>1, <1>2, TotalNat

LEMMA DueNothing == ASSUME NEW p PROVE DueIn(<< >>, p) = 0
<1>1. Dues(<< >>, p) = << >>  BY DEF Dues
<1> QED BY <1>1, TotalNothing DEF DueIn, Dues

LEMMA DueAppended ==
    ASSUME NEW s \in Seq(Fact), NEW f \in Fact, NEW p
    PROVE  DueIn(Append(s, f), p) = DueIn(s, p) + Due(f, p)
<1> DEFINE d == Due(f, p)
           t == Append(s, f)
<1>1. d \in Nat  BY DueNat
<1>2. t \in Seq(Fact) /\ Len(t) = Len(s) + 1 /\ t[Len(s) + 1] = f
      /\ \A i \in 1..Len(s) : t[i] = s[i]
  OBVIOUS
<1>3. Dues(t, p) = Append(Dues(s, p), d)
  <2> DEFINE n == Len(s)
             u == Dues(s, p)
             v == Append(u, d)
  <2>1. /\ u \in Seq(Nat) /\ Len(u) = n /\ n \in Nat
        /\ \A i \in 1..n : u[i] = Due(s[i], p)
    BY DuesTyped
  <2> HIDE DEF u, d
  <2>2. /\ v \in Seq(Nat) /\ Len(v) = n + 1 /\ v[n + 1] = d
        /\ \A i \in 1..n : v[i] = u[i]
    BY <1>1, <2>1
  <2> HIDE DEF v, t
  <2>3. /\ Dues(t, p) \in Seq(Nat) /\ Len(Dues(t, p)) = n + 1
        /\ \A i \in 1..n + 1 : Dues(t, p)[i] = Due(t[i], p)
    BY <1>2, DuesTyped
  <2>4. \A i \in 1..n + 1 : v[i] = Due(t[i], p)
    <3> SUFFICES ASSUME NEW i \in 1..n + 1 PROVE v[i] = Due(t[i], p)  OBVIOUS
    <3>1. CASE i = n + 1  BY <1>2, <2>2, <3>1 DEF d
    <3>2. CASE i # n + 1
      <4>1. i \in 1..n  BY <2>1, <3>2
      <4> QED BY <1>2, <2>1, <2>2, <4>1
    <3> QED BY <3>1, <3>2
  <2> QED BY <2>2, <2>3, <2>4, SeqEqual DEF v, u
<1> HIDE DEF t, d
<1> QED BY <1>1, <1>2, <1>3, DuesTyped, TotalAppended DEF t, d

\* Once the first k facts leave the queue, only their purchases are gone.
LEMMA DueDropped ==
    ASSUME NEW s \in Seq(Fact), NEW p, NEW k \in 0..Len(s)
    PROVE  LET t == SubSeq(s, k + 1, Len(s))
           IN  /\ t \in Seq(Fact) /\ Len(t) = Len(s) - k
               /\ \A i \in 1..Len(t) : t[i] = s[k + i]
               /\ DueIn(s, p) = SumOf(SubSeq(Dues(s, p), 1, k)) + DueIn(t, p)
               /\ SubSeq(Dues(s, p), 1, k) \in Seq(Nat)
<1> DEFINE n == Len(s)
           t == SubSeq(s, k + 1, n)
           d == Dues(s, p)
           e == SubSeq(d, k + 1, n)
<1>1. n \in Nat /\ d \in Seq(Nat) /\ Len(d) = n /\ \A i \in 1..n : d[i] = Due(s[i], p)
  BY DuesTyped
<1>2. t \in Seq(Fact) /\ Len(t) = n - k /\ \A i \in 1..n - k : t[i] = s[k + i]
  OBVIOUS
<1>3. e \in Seq(Nat) /\ Len(e) = n - k /\ \A i \in 1..n - k : e[i] = d[k + i]
  BY <1>1
<1>4. SubSeq(d, 1, k) \in Seq(Nat)  BY <1>1
<1>5. k \in 0..Len(d)  BY <1>1
<1> HIDE DEF t, d, e, n
<1>6. Dues(t, p) = e
  <2>1. Dues(t, p) \in Seq(Nat) /\ Len(Dues(t, p)) = Len(e)  BY <1>2, <1>3, DuesTyped
  <2>2. \A i \in 1..Len(e) : Dues(t, p)[i] = Due(t[i], p)  BY <1>2, <1>3, DuesTyped
  <2>3. \A i \in 1..Len(e) : Dues(t, p)[i] = e[i]
    <3> SUFFICES ASSUME NEW i \in 1..Len(e) PROVE Dues(t, p)[i] = e[i]  OBVIOUS
    <3>1. i \in 1..n - k /\ k + i \in 1..n  BY <1>1, <1>3 DEF n
    <3> QED BY <1>1, <1>2, <1>3, <2>2, <3>1
  <2> QED BY <1>3, <2>1, <2>3, SeqEqual
<1>7. SumOf(d) = SumOf(SubSeq(d, 1, k)) + SumOf(e)
  BY <1>1, <1>5, TotalDropped DEF e
<1>8. DueIn(s, p) = SumOf(d) /\ DueIn(t, p) = SumOf(e)  BY <1>2, <1>6, DuesTyped DEF d
<1>9. \A i \in 1..Len(t) : t[i] = s[k + i]  BY <1>2
<1> QED BY <1>2, <1>4, <1>7, <1>8, <1>9 DEF t, d, n

\* One fact changes.
LEMMA DueChanged ==
    ASSUME NEW s \in Seq(Fact), NEW t \in Seq(Fact), Len(t) = Len(s), NEW p,
           NEW k \in 1..Len(s), \A i \in 1..Len(s) : i # k => t[i] = s[i]
    PROVE  DueIn(t, p) = DueIn(s, p) - Due(s[k], p) + Due(t[k], p)
<1> DEFINE d == Dues(s, p)
           e == Dues(t, p)
<1>1. /\ d \in Seq(Nat) /\ Len(d) = Len(s)
      /\ \A i \in 1..Len(s) : d[i] = Due(s[i], p)
      /\ DueIn(s, p) = SumOf(d)
  BY DuesTyped
<1>2. /\ e \in Seq(Nat) /\ Len(e) = Len(s)
      /\ \A i \in 1..Len(s) : e[i] = Due(t[i], p)
      /\ DueIn(t, p) = SumOf(e)
  BY DuesTyped
<1> HIDE DEF d, e
<1>3. \A i \in 1..Len(d) : i # k => e[i] = d[i]  BY <1>1, <1>2
<1>4. SumOf(e) = SumOf(d) - d[k] + e[k]  BY <1>1, <1>2, <1>3, TotalChanged
<1> QED BY <1>1, <1>2, <1>4

\* The first fact leaves the queue.
LEMMA DueTaken ==
    ASSUME NEW s \in Seq(Fact), s # << >>, NEW p
    PROVE  DueIn(s, p) = Due(Head(s), p) + DueIn(Tail(s), p)
<1> DEFINE d == Dues(s, p)
           t == SubSeq(s, 1 + 1, Len(s))
           a == SubSeq(d, 1, 1)
<1>1. 1 \in 0..Len(s) /\ 1 \in 1..Len(s)  OBVIOUS
<1>2. DueIn(s, p) = SumOf(a) + DueIn(t, p)
  <2> HIDE DEF d
  <2> QED BY <1>1, DueDropped DEF d
<1>3. Tail(s) = t  BY TailIsSubSeq
<1>4. d \in Seq(Nat) /\ Len(d) = Len(s) /\ d[1] = Due(Head(s), p)
  BY <1>1, DuesTyped
<1>5. SumOf(a) = d[1]
  <2> HIDE DEF d
  <2>1. d[1] \in Nat  BY <1>1, <1>4
  <2>2. DOMAIN a = {1} /\ a[1] = d[1]
    <3>1. 1 \in 1..Len(d) /\ Len(d) \in Nat  BY <1>1, <1>4
    <3>2. Len(a) = 1 /\ a[1] = d[1] /\ a \in Seq(Nat)  BY <1>4, <3>1
    <3> HIDE DEF a
    <3> QED BY <3>2
  <2> HIDE DEF a
  <2> QED BY <2>1, <2>2, SumSingle DEF SumOf
<1> QED BY <1>2, <1>3, <1>4, <1>5

LEMMA TotalGrown ==
    ASSUME NEW u \in Seq(Nat), NEW v \in Seq(Nat), Len(v) = Len(u) + 1,
           \A i \in 1..Len(u) : v[i] = u[i], NEW x \in Nat, v[Len(u) + 1] = x
    PROVE  SumOf(v) = SumOf(u) + x
<1> DEFINE n == Len(u)
           w == Append(u, x)
<1>1. /\ n \in Nat /\ w \in Seq(Nat) /\ Len(w) = n + 1 /\ w[n + 1] = x
      /\ \A i \in 1..n : w[i] = u[i]
  OBVIOUS
<1> HIDE DEF w
<1>2. \A i \in 1..n + 1 : w[i] = v[i]
  <2> SUFFICES ASSUME NEW i \in 1..n + 1 PROVE w[i] = v[i]  OBVIOUS
  <2>1. i = n + 1 \/ i \in 1..n  BY <1>1
  <2> QED BY <1>1, <2>1
<1>3. w = v  BY <1>1, <1>2, SeqEqual
<1> QED BY <1>3, TotalAppended DEF w

\* What the intents of a queue will credit and issue.
Oweds(is, p) == [n \in DOMAIN is |-> Owed(is[n], p)]
ToIssues(is) == [n \in DOMAIN is |-> ToIssue(is[n])]

LEMMA WagesAre ==
    ASSUME NEW c \in Wages
    PROVE  /\ DOMAIN c \subseteq Pip /\ DOMAIN c \subseteq Account
           /\ \A p \in DOMAIN c : c[p] \in Nat \ {0}
           /\ SumOf(c) \in Nat
<1>1. PICK S \in SUBSET Pip : c \in [S -> 1..MaxTicksPerWork]  BY DEF Wages
<1>2. DOMAIN c = S /\ \A p \in S : c[p] \in Nat \ {0}  BY <1>1, Setting
<1>3. IsFiniteSet(S)  BY Setting, FS_Subset
<1>4. SumOver(c, S) \in Nat  BY <1>2, <1>3, SumNat
<1> QED BY <1>2, <1>4, Setting DEF SumOf

LEMMA IntentIs ==
    ASSUME NEW i \in Intent
    PROVE  /\ i.op \in {"credit", "issue", "buy", "register"}
           /\ i.op = "credit" => i.credits \in Wages
           /\ i.op = "issue" => i.amount \in Nat
           /\ i.op = "buy" => i.pip \in Pip
BY DEF Intent

LEMMA OwedNat ==
    ASSUME NEW i \in Intent, NEW p PROVE Owed(i, p) \in Nat
BY IntentIs, WagesAre DEF Owed

LEMMA ToIssueNat == ASSUME NEW i \in Intent PROVE ToIssue(i) \in Nat
BY IntentIs DEF ToIssue

LEMMA OwedsTyped ==
    ASSUME NEW is \in Seq(Intent), NEW p
    PROVE  /\ Oweds(is, p) \in Seq(Nat) /\ Len(Oweds(is, p)) = Len(is)
           /\ \A n \in 1..Len(is) : Oweds(is, p)[n] = Owed(is[n], p)
           /\ OwedIn(is, p) = SumOf(Oweds(is, p)) /\ OwedIn(is, p) \in Nat
<1>1. /\ Oweds(is, p) \in Seq(Nat) /\ Len(Oweds(is, p)) = Len(is)
      /\ \A n \in 1..Len(is) : Oweds(is, p)[n] = Owed(is[n], p)
  BY OwedNat DEF Oweds
<1>2. OwedIn(is, p) = SumOf(Oweds(is, p))  BY DEF OwedIn, Oweds
<1> QED BY <1>1, <1>2, TotalNat

LEMMA ToIssuesTyped ==
    ASSUME NEW is \in Seq(Intent)
    PROVE  /\ ToIssues(is) \in Seq(Nat) /\ Len(ToIssues(is)) = Len(is)
           /\ \A n \in 1..Len(is) : ToIssues(is)[n] = ToIssue(is[n])
           /\ ToIssueIn(is) = SumOf(ToIssues(is)) /\ ToIssueIn(is) \in Nat
<1>1. /\ ToIssues(is) \in Seq(Nat) /\ Len(ToIssues(is)) = Len(is)
      /\ \A n \in 1..Len(is) : ToIssues(is)[n] = ToIssue(is[n])
  BY ToIssueNat DEF ToIssues
<1>2. ToIssueIn(is) = SumOf(ToIssues(is))  BY DEF ToIssueIn, ToIssues
<1> QED BY <1>1, <1>2, TotalNat

LEMMA OwedNothing == ASSUME NEW p PROVE OwedIn(<< >>, p) = 0
<1>1. Oweds(<< >>, p) = << >>  BY DEF Oweds
<1> QED BY <1>1, TotalNothing DEF OwedIn, Oweds

LEMMA ToIssueNothing == ToIssueIn(<< >>) = 0
<1>1. ToIssues(<< >>) = << >>  BY DEF ToIssues
<1> QED BY <1>1, TotalNothing DEF ToIssueIn, ToIssues

LEMMA OwedAppended ==
    ASSUME NEW is \in Seq(Intent), NEW i \in Intent, NEW p
    PROVE  OwedIn(Append(is, i), p) = OwedIn(is, p) + Owed(i, p)
<1> DEFINE js == Append(is, i)
           n == Len(is)
           u == Oweds(is, p)
           v == Oweds(js, p)
<1>1. /\ js \in Seq(Intent) /\ Len(js) = n + 1 /\ js[n + 1] = i /\ n \in Nat
      /\ \A m \in 1..n : js[m] = is[m]
  OBVIOUS
<1> HIDE DEF js
<1>2. u \in Seq(Nat) /\ Len(u) = n /\ \A m \in 1..n : u[m] = Owed(is[m], p)
  BY OwedsTyped
<1>3. v \in Seq(Nat) /\ Len(v) = n + 1 /\ \A m \in 1..n + 1 : v[m] = Owed(js[m], p)
  BY <1>1, OwedsTyped
<1> HIDE DEF u, v
<1>4. Owed(i, p) \in Nat  BY OwedNat
<1>5. /\ Len(v) = Len(u) + 1 /\ v[Len(u) + 1] = Owed(i, p)
      /\ \A m \in 1..Len(u) : v[m] = u[m]
  BY <1>1, <1>2, <1>3
<1>6. SumOf(v) = SumOf(u) + Owed(i, p)  BY <1>2, <1>3, <1>4, <1>5, TotalGrown
<1> QED BY <1>1, <1>6, OwedsTyped DEF u, v, js

LEMMA ToIssueAppended ==
    ASSUME NEW is \in Seq(Intent), NEW i \in Intent
    PROVE  ToIssueIn(Append(is, i)) = ToIssueIn(is) + ToIssue(i)
<1> DEFINE js == Append(is, i)
           n == Len(is)
           u == ToIssues(is)
           v == ToIssues(js)
<1>1. /\ js \in Seq(Intent) /\ Len(js) = n + 1 /\ js[n + 1] = i /\ n \in Nat
      /\ \A m \in 1..n : js[m] = is[m]
  OBVIOUS
<1> HIDE DEF js
<1>2. u \in Seq(Nat) /\ Len(u) = n /\ \A m \in 1..n : u[m] = ToIssue(is[m])
  BY ToIssuesTyped
<1>3. v \in Seq(Nat) /\ Len(v) = n + 1 /\ \A m \in 1..n + 1 : v[m] = ToIssue(js[m])
  BY <1>1, ToIssuesTyped
<1> HIDE DEF u, v
<1>4. ToIssue(i) \in Nat  BY ToIssueNat
<1>5. /\ Len(v) = Len(u) + 1 /\ v[Len(u) + 1] = ToIssue(i)
      /\ \A m \in 1..Len(u) : v[m] = u[m]
  BY <1>1, <1>2, <1>3
<1>6. SumOf(v) = SumOf(u) + ToIssue(i)  BY <1>2, <1>3, <1>4, <1>5, TotalGrown
<1> QED BY <1>1, <1>6, ToIssuesTyped DEF u, v, js

-----------------------------------------------------------------------------
(* What an intent, a death and an errand do to the world. *)

World == [book : Book, alive : SUBSET Pip, built : BOOLEAN, facts : Seq(Fact),
          upsets : SUBSET Upsets]

\* What a world and its facts hold for p: a purchase changes neither.
Worth(w, p) == w.book[p] + DueIn(w.facts, p)

\* Deaths are reported of nobody in a.
NoneOf(s, a) == \A n \in DOMAIN s : s[n].topic = "lifecycle" => s[n].pip \notin a

LEMMA DeathAppended ==
    ASSUME NEW s \in Seq(Fact), NEW f \in Fact, NEW p
    PROVE  DeathIn(Append(s, f), p) <=>
               \/ DeathIn(s, p)
               \/ f.topic = "lifecycle" /\ f.pip = p /\ ~f.done
<1> DEFINE n == Len(s)
           t == Append(s, f)
<1>1. /\ n \in Nat /\ DOMAIN s = 1..n /\ DOMAIN t = 1..n + 1 /\ t[n + 1] = f
      /\ \A i \in 1..n : t[i] = s[i]
  OBVIOUS
<1>2. \A i : i \in 1..n + 1 <=> i \in 1..n \/ i = n + 1  BY <1>1
<1> HIDE DEF t, n
<1> QED BY <1>1, <1>2 DEF DeathIn, t

LEMMA NoneAppended ==
    ASSUME NEW s \in Seq(Fact), NEW f \in Fact, NEW a
    PROVE  NoneOf(Append(s, f), a) <=>
               NoneOf(s, a) /\ (f.topic = "lifecycle" => f.pip \notin a)
<1> DEFINE n == Len(s)
           t == Append(s, f)
<1>1. /\ n \in Nat /\ DOMAIN s = 1..n /\ DOMAIN t = 1..n + 1 /\ t[n + 1] = f
      /\ \A i \in 1..n : t[i] = s[i]
  OBVIOUS
<1>2. \A i : i \in 1..n + 1 <=> i \in 1..n \/ i = n + 1  BY <1>1
<1> HIDE DEF t, n
<1> QED BY <1>1, <1>2 DEF NoneOf, t

LEMMA FactsAre ==
    ASSUME tick \in Nat, NEW p \in Pip
    PROVE  /\ Purchase(p) \in Fact /\ Death(p) \in Fact
           /\ \A q : /\ Due(Purchase(p), q) = IF q = p THEN Price ELSE 0
                     /\ Due(Death(p), q) = 0
BY Setting DEF Purchase, Death, Fact, Topic, Due

\* What an errand changes: a coin less is a coin on its way.
Errand(w, v) ==
    /\ v.alive = w.alive /\ v.built = w.built /\ v.upsets = w.upsets
    /\ SumOf(v.book) = SumOf(w.book) /\ v.book[Treasury] = w.book[Treasury]
    /\ \A p \in Pip : Worth(v, p) = Worth(w, p)
    /\ \A p \in Pip : w.book[p] >= 0 => v.book[p] >= 0
    /\ \A p \in Pip \ w.alive : v.book[p] = w.book[p]
    /\ \A p \in Pip : DeathIn(w.facts, p) => DeathIn(v.facts, p)
    /\ \A a : NoneOf(w.facts, a) => NoneOf(v.facts, a)

LEMMA SaleIs ==
    ASSUME tick \in Nat, NEW w \in World, NEW p \in Pip
    PROVE  Sale(w, p) \in World /\ Errand(w, Sale(w, p))
<1>1. CASE ~(w.built /\ p \in w.alive /\ w.book[p] >= Price)
  <2>1. Sale(w, p) = w  BY <1>1 DEF Sale
  <2> QED BY <2>1 DEF Errand
<1>2. CASE w.built /\ p \in w.alive /\ w.book[p] >= Price
  <2> DEFINE b == Paid(w.book, p, One(Farm, Price))
             s == Append(w.facts, Purchase(p))
             v == [w EXCEPT !.book = b, !.facts = s]
  <2>1. Sale(w, p) = v  BY <1>2 DEF Sale
  <2>2. w.book \in [Account -> Int] /\ w.facts \in Seq(Fact)  BY DEF World, Book
  <2>3. /\ b \in [Account -> Int] /\ SumOf(b) = SumOf(w.book)
        /\ b[p] = w.book[p] - Price
        /\ \A a \in Account \ {p, Farm} : b[a] = w.book[a]
    <3>1. p \in Account /\ Farm \in Account /\ p # Farm /\ Price \in Coins
      BY Setting DEF Coins
    <3>2. w.book \in Book  BY <2>2 DEF Book
    <3>3. Passed(w.book, b, p, Farm, Price)  BY <3>1, <3>2, PaidOne
    <3> HIDE DEF b
    <3> QED BY <3>3 DEF Passed, Book
  <2>4. Purchase(p) \in Fact /\ \A q : Due(Purchase(p), q) = IF q = p THEN Price ELSE 0
    BY FactsAre
  <2>5. s \in Seq(Fact)  BY <2>2, <2>4
  <2>6. \A q \in Pip : /\ DueIn(s, q) = DueIn(w.facts, q) + (IF q = p THEN Price ELSE 0)
                       /\ DueIn(w.facts, q) \in Nat
    BY <2>2, <2>4, DueAppended, DuesTyped
  <2>7. /\ \A q \in Pip : DeathIn(w.facts, q) => DeathIn(s, q)
        /\ \A a : NoneOf(w.facts, a) => NoneOf(s, a)
    <3>1. Purchase(p).topic # "lifecycle"  BY DEF Purchase
    <3> QED BY <2>2, <2>4, <3>1, DeathAppended, NoneAppended
  <2> HIDE DEF b, s
  <2>8. /\ v \in World /\ v.book = b /\ v.facts = s /\ v.alive = w.alive
        /\ v.built = w.built /\ v.upsets = w.upsets
    BY <2>3, <2>5 DEF World, Book
  <2> HIDE DEF v
  <2>9. \A q \in Pip : /\ w.book[q] \in Int /\ q \in Account \ {Farm, Treasury}
                       /\ b[q] = w.book[q] - (IF q = p THEN Price ELSE 0)
    BY <2>2, <2>3, Setting
  <2>10. \A q \in Pip : Worth(v, q) = Worth(w, q)
    BY <2>6, <2>8, <2>9, Setting DEF Worth
  <2>11. b[Treasury] = w.book[Treasury]  BY <2>3, Setting
  <2>12. /\ \A q \in Pip : w.book[q] >= 0 => b[q] >= 0
         /\ \A q \in Pip \ w.alive : b[q] = w.book[q]
    BY <1>2, <2>9, Setting
  <2> QED BY <2>1, <2>3, <2>7, <2>8, <2>10, <2>11, <2>12 DEF Errand
<1> QED BY <1>1, <1>2

\* What the intents of a tick change, of which the wages come to o and the
\* endowments to n: nobody is richer than that, and unless an upset came between
\* nobody is poorer.
Told(w, v, o, n) ==
    /\ v.alive = w.alive /\ (w.built => v.built) /\ w.upsets \subseteq v.upsets
    /\ SumOf(v.book) = SumOf(w.book)
    /\ \A p \in Pip : Worth(v, p) <= Worth(w, p) + o[p]
    /\ \A p \in Pip : w.book[p] >= 0 => v.book[p] >= 0
    /\ \A p \in Pip \ w.alive : v.book[p] = w.book[p]
    /\ w.built /\ v.upsets = {} =>
          /\ \A p \in Pip : Worth(v, p) = Worth(w, p) + o[p]
          /\ v.book[Treasury] = w.book[Treasury] - n
    /\ \A a : NoneOf(w.facts, a) => NoneOf(v.facts, a)

Owes(i) == [p \in Pip |-> Owed(i, p)]
Owing(is) == [p \in Pip |-> OwedIn(is, p)]

LEMMA WorldIs ==
    ASSUME NEW w \in World
    PROVE  /\ w.book \in Book /\ w.alive \in SUBSET Pip /\ w.built \in BOOLEAN
           /\ w.facts \in Seq(Fact) /\ w.upsets \in SUBSET Upsets
           /\ \A a \in Account : w.book[a] \in Int
           /\ \A p \in Pip : DueIn(w.facts, p) \in Nat /\ Worth(w, p) \in Int
<1>1. w.book \in [Account -> Int] /\ w.facts \in Seq(Fact)  BY DEF World, Book
<1>2. \A a \in Account : w.book[a] \in Int  BY <1>1
<1>3. \A p \in Pip : DueIn(w.facts, p) \in Nat  BY <1>1, DuesTyped
<1>4. \A p \in Pip : Worth(w, p) \in Int
  <2>1. \A p \in Pip : w.book[p] \in Int  BY <1>2, Setting
  <2> QED BY <1>3, <2>1 DEF Worth
<1> QED BY <1>1, <1>2, <1>3, <1>4 DEF World, Book

LEMMA ErrandTells ==
    ASSUME NEW w \in World, NEW v \in World, Errand(w, v),
           NEW o, \A p \in Pip : o[p] = 0
    PROVE  Told(w, v, o, 0)
<1>1. \A p \in Pip : Worth(v, p) \in Int /\ Worth(w, p) \in Int  BY WorldIs
<1>2. v.book[Treasury] \in Int /\ w.book[Treasury] \in Int  BY WorldIs, Setting
<1> QED BY <1>1, <1>2 DEF Errand, Told

LEMMA ToldBoth ==
    ASSUME NEW w \in World, NEW v \in World, NEW u \in World,
           NEW o1 \in [Pip -> Nat], NEW o2 \in [Pip -> Nat], NEW o,
           \A p \in Pip : o[p] = o1[p] + o2[p],
           NEW n1 \in Nat, NEW n2 \in Nat,
           Told(w, v, o1, n1), Told(v, u, o2, n2)
    PROVE  Told(w, u, o, n1 + n2)
<1>1. \A p \in Pip : /\ Worth(w, p) \in Int /\ Worth(v, p) \in Int /\ Worth(u, p) \in Int
                     /\ o1[p] \in Nat /\ o2[p] \in Nat
  BY WorldIs
<1>2. /\ w.book[Treasury] \in Int /\ v.book[Treasury] \in Int /\ u.book[Treasury] \in Int
  BY WorldIs, Setting
<1>3. u.alive = w.alive /\ (w.built => u.built) /\ w.upsets \subseteq u.upsets
  BY DEF Told
<1>4. \A p \in Pip : Worth(u, p) <= Worth(w, p) + o[p]
  BY <1>1 DEF Told
<1>5. w.built /\ u.upsets = {} =>
          /\ \A p \in Pip : Worth(u, p) = Worth(w, p) + o[p]
          /\ u.book[Treasury] = w.book[Treasury] - (n1 + n2)
  <2> SUFFICES ASSUME w.built, u.upsets = {}
               PROVE  /\ \A p \in Pip : Worth(u, p) = Worth(w, p) + o[p]
                      /\ u.book[Treasury] = w.book[Treasury] - (n1 + n2)
    OBVIOUS
  <2>1. v.built /\ v.upsets = {}  BY DEF Told
  <2>2. \A p \in Pip : Worth(v, p) = Worth(w, p) + o1[p] /\ Worth(u, p) = Worth(v, p) + o2[p]
    BY <2>1 DEF Told
  <2>3. \A p \in Pip : Worth(u, p) = Worth(w, p) + o[p]  BY <1>1, <2>2
  <2>4. /\ v.book[Treasury] = w.book[Treasury] - n1
        /\ u.book[Treasury] = v.book[Treasury] - n2
    BY <2>1 DEF Told
  <2> QED BY <1>2, <2>3, <2>4
<1>6. /\ SumOf(u.book) = SumOf(w.book)
      /\ \A p \in Pip : w.book[p] >= 0 => u.book[p] >= 0
      /\ \A p \in Pip \ w.alive : u.book[p] = w.book[p]
      /\ \A a : NoneOf(w.facts, a) => NoneOf(u.facts, a)
  BY DEF Told
<1> HIDE DEF Worth
<1> QED BY <1>3, <1>4, <1>5, <1>6 DEF Told

\* A payroll: those who live are paid.
LEMMA CreditIs ==
    ASSUME NEW w \in World, NEW c \in Wages,
           NEW o \in [Pip -> Nat],
           \A p \in Pip : o[p] = IF p \in DOMAIN c THEN c[p] ELSE 0
    PROVE  Credited(w, c) \in World /\ Told(w, Credited(w, c), o, 0)
<1> DEFINE payable == [p \in DOMAIN c \intersect w.alive |-> c[p]]
           u == w.upsets \union (IF payable = c THEN {} ELSE {"late_wage"})
           b == Paid(w.book, Farm, payable)
<1>1. /\ w.book \in Book /\ w.alive \in SUBSET Pip /\ w.built \in BOOLEAN
      /\ w.facts \in Seq(Fact) /\ w.upsets \in SUBSET Upsets
      /\ \A p \in Pip : w.book[p] \in Int /\ DueIn(w.facts, p) \in Nat
      /\ w.book[Treasury] \in Int
  BY WorldIs, Setting
<1>2. DOMAIN c \subseteq Pip /\ \A p \in DOMAIN c : c[p] \in Nat  BY WagesAre
<1>3. CASE w.built /\ w.book[Farm] >= SumOf(payable)
  <2> DEFINE v == [w EXCEPT !.book = b, !.upsets = u]
  <2>1. Credited(w, c) = v  BY <1>3 DEF Credited
  <2>2. /\ DOMAIN payable \subseteq Account /\ \A a \in DOMAIN payable : payable[a] \in Int
        /\ DOMAIN payable = DOMAIN c \intersect w.alive
        /\ \A p \in DOMAIN payable : payable[p] = c[p]
    BY <1>2, Setting
  <2> HIDE DEF payable
  <2>3. b \in Book /\ SumOf(b) = SumOf(w.book) /\ SumOf(payable) \in Int
    <3>1. w.book \in [Account -> Int] /\ Farm \in Account  BY <1>1, Setting DEF Book
    <3>2. DOMAIN payable \subseteq Account  BY <2>2
    <3>3. \A a \in DOMAIN payable : payable[a] \in Int  BY <2>2
    <3> QED BY ONLY <3>1, <3>2, <3>3, PaidIs DEF Book, b
  <2>4. \A p \in Pip : b[p] = w.book[p] + (IF p \in DOMAIN payable THEN c[p] ELSE 0)
    <3> SUFFICES ASSUME NEW p \in Pip
                 PROVE  b[p] = w.book[p] + (IF p \in DOMAIN payable THEN c[p] ELSE 0)
      OBVIOUS
    <3>1. p \in Account /\ p # Farm /\ w.book[p] \in Int  BY <1>1, Setting
    <3>2. b[p] = w.book[p] + (IF p \in DOMAIN payable THEN payable[p] ELSE 0) - 0
      BY <3>1 DEF Paid
    <3> QED BY <1>2, <2>2, <3>1, <3>2
  <2>5. b[Treasury] = w.book[Treasury]
    <3>1. Treasury \in Account /\ Treasury # Farm /\ Treasury \notin DOMAIN payable
      BY <1>2, <2>2, Setting
    <3>2. b[Treasury] = w.book[Treasury] + 0 - 0  BY <3>1 DEF Paid
    <3> QED BY <1>1, <3>2
  <2>6. u \in SUBSET Upsets /\ w.upsets \subseteq u
    BY <1>1 DEF Upsets
  <2>7. u = {} => \A p \in DOMAIN c : p \in DOMAIN payable
    <3>1. u = {} => payable = c  OBVIOUS
    <3> QED BY <3>1
  <2> HIDE DEF b, u
  <2>8. /\ v \in World /\ v.book = b /\ v.upsets = u /\ v.alive = w.alive
        /\ v.built = w.built /\ v.facts = w.facts
    BY <2>3, <2>6 DEF World
  <2> HIDE DEF v
  <2>9. \A p \in Pip : /\ o[p] \in Nat /\ o[p] = IF p \in DOMAIN c THEN c[p] ELSE 0
                       /\ p \in DOMAIN payable <=> p \in DOMAIN c /\ p \in w.alive
                       /\ p \in DOMAIN c => c[p] \in Nat
    BY <1>2, <2>2
  <2>10. \A p \in Pip : b[p] <= w.book[p] + o[p]
    BY <1>1, <2>4, <2>9
  <2>11. \A p \in Pip : Worth(v, p) <= Worth(w, p) + o[p]
    BY <1>1, <2>4, <2>8, <2>9 DEF Worth
  <2>12. u = {} => \A p \in Pip : Worth(v, p) = Worth(w, p) + o[p]
    BY <1>1, <2>4, <2>7, <2>8, <2>9 DEF Worth
  <2>13. /\ \A p \in Pip : w.book[p] >= 0 => b[p] >= 0
         /\ \A p \in Pip \ w.alive : b[p] = w.book[p]
    BY <1>1, <2>4, <2>9
  <2> QED BY <1>1, <2>1, <2>3, <2>5, <2>6, <2>8, <2>11, <2>12, <2>13 DEF Told
<1>4. CASE ~(w.built /\ w.book[Farm] >= SumOf(payable))
  <2> DEFINE v == [w EXCEPT !.upsets = @ \union {"credit_refused"}]
  <2>1. Credited(w, c) = v  BY <1>4 DEF Credited
  <2>2. /\ v \in World /\ v.book = w.book /\ v.alive = w.alive /\ v.built = w.built
        /\ v.facts = w.facts /\ w.upsets \subseteq v.upsets /\ v.upsets # {}
    BY <1>1 DEF World, Upsets
  <2> HIDE DEF v
  <2>3. \A p \in Pip : Worth(v, p) <= Worth(w, p) + o[p]
    BY <1>1, <2>2 DEF Worth
  <2> QED BY <2>1, <2>2, <2>3 DEF Told
<1> QED BY <1>3, <1>4

\* An endowment: the treasury pays the farm.
LEMMA IssueIs ==
    ASSUME NEW w \in World, NEW n \in Nat, NEW o, \A p \in Pip : o[p] = 0
    PROVE  Issued(w, n) \in World /\ Told(w, Issued(w, n), o, n)
<1>1. \A p \in Pip : Worth(w, p) \in Int  BY WorldIs
<1>2. CASE ~w.built
  <2>1. Issued(w, n) = w  BY <1>2 DEF Issued
  <2>2. \A p \in Pip : Worth(w, p) <= Worth(w, p) + o[p]  BY <1>1
  <2> QED BY <1>2, <2>1, <2>2 DEF Told
<1>3. CASE w.built
  <2> DEFINE b == Paid(w.book, Treasury, One(Farm, n))
             v == [w EXCEPT !.book = b]
  <2>1. Issued(w, n) = v  BY <1>3 DEF Issued
  <2>2. Passed(w.book, b, Treasury, Farm, n)
    <3>1. w.book \in Book /\ Treasury \in Account /\ Farm \in Account /\ Treasury # Farm
      BY WorldIs, Setting
    <3>2. n \in Coins  BY DEF Coins
    <3> QED BY <3>1, <3>2, PaidOne
  <2> HIDE DEF b
  <2>3. b \in Book  BY <2>2 DEF Passed
  <2>4. /\ v \in World /\ v.book = b /\ v.alive = w.alive /\ v.built = w.built
        /\ v.facts = w.facts /\ v.upsets = w.upsets
    BY <2>3 DEF World
  <2> HIDE DEF v
  <2>5. \A p \in Pip : b[p] = w.book[p]  BY <2>2, Setting DEF Passed
  <2>6. \A p \in Pip : Worth(v, p) = Worth(w, p) /\ Worth(w, p) + o[p] = Worth(w, p)
    BY <1>1, <2>4, <2>5 DEF Worth
  <2>7. b[Treasury] = w.book[Treasury] - n /\ SumOf(b) = SumOf(w.book)  BY <2>2 DEF Passed
  <2>8. \A p \in Pip : Worth(v, p) <= Worth(w, p) + o[p]  BY <1>1, <2>6
  <2> QED BY <2>1, <2>4, <2>5, <2>6, <2>7, <2>8, Setting DEF Told
<1> QED BY <1>2, <1>3

LEMMA ApplyIs ==
    ASSUME tick \in Nat, NEW w \in World, NEW i \in Intent, NEW here
    PROVE  /\ Apply(w, i, here) \in World
           /\ Told(w, Apply(w, i, here), Owes(i), ToIssue(i))
<1> DEFINE v == Apply(w, i, here)
           o == Owes(i)
           n == ToIssue(i)
<1>1. o \in [Pip -> Nat] /\ \A p \in Pip : o[p] = Owed(i, p)  BY OwedNat DEF Owes
<1>2. CASE i.op = "credit"
  <2>1. v = Credited(w, i.credits) /\ i.credits \in Wages  BY <1>2, IntentIs DEF Apply
  <2>2. \A p \in Pip : o[p] = IF p \in DOMAIN i.credits THEN i.credits[p] ELSE 0
    BY <1>1, <1>2 DEF Owed
  <2>3. n = 0  BY <1>2 DEF ToIssue
  <2> HIDE DEF v, o, n
  <2>4. v \in World /\ Told(w, v, o, 0)  BY <1>1, <2>1, <2>2, CreditIs
  <2> QED BY <2>3, <2>4 DEF v, o, n
<1>3. CASE i.op = "issue"
  <2>1. v = Issued(w, i.amount) /\ i.amount \in Nat /\ n = i.amount
    BY <1>3, IntentIs DEF Apply, ToIssue
  <2>2. \A p \in Pip : o[p] = 0  BY <1>1, <1>3 DEF Owed
  <2> HIDE DEF v, o, n
  <2>3. v \in World /\ Told(w, v, o, n)  BY <2>1, <2>2, IssueIs
  <2> QED BY <2>3 DEF v, o, n
<1>4. CASE i.op = "buy"
  <2>1. v = w \/ (v = Sale(w, i.pip) /\ i.pip \in Pip)  BY <1>4, IntentIs DEF Apply
  <2>2. n = 0 /\ \A p \in Pip : o[p] = 0  BY <1>1, <1>4 DEF Owed, ToIssue
  <2> HIDE DEF v, o, n
  <2>3. v \in World /\ Errand(w, v)
    <3>1. CASE v = w  BY <3>1 DEF Errand
    <3>2. CASE v = Sale(w, i.pip) /\ i.pip \in Pip  BY <3>2, SaleIs
    <3> QED BY <2>1, <3>1, <3>2
  <2>4. Told(w, v, o, 0)  BY <2>2, <2>3, ErrandTells
  <2> QED BY <2>2, <2>3, <2>4 DEF v, o, n
<1>5. CASE i.op = "register"
  <2>1. v = [w EXCEPT !.built = TRUE]  BY <1>5 DEF Apply
  <2>2. n = 0 /\ \A p \in Pip : o[p] = 0  BY <1>1, <1>5 DEF Owed, ToIssue
  <2>3. /\ v \in World /\ v.book = w.book /\ v.alive = w.alive /\ v.built = TRUE
        /\ v.facts = w.facts /\ v.upsets = w.upsets
    BY <2>1 DEF World
  <2> HIDE DEF v, o, n
  <2>4. \A p \in Pip : Worth(v, p) = Worth(w, p) /\ Worth(w, p) \in Int
    BY <2>3, WorldIs DEF Worth
  <2>5. \A p \in Pip : Worth(v, p) <= Worth(w, p) + o[p] /\ Worth(v, p) = Worth(w, p) + o[p]
    BY <2>2, <2>4
  <2>6. w.book[Treasury] = w.book[Treasury] - n  BY <2>2, WorldIs, Setting
  <2>7. Told(w, v, o, n)  BY <2>3, <2>5, <2>6 DEF Told
  <2> QED BY <2>3, <2>7 DEF v, o, n
<1> QED BY <1>2, <1>3, <1>4, <1>5, IntentIs

-----------------------------------------------------------------------------
(* The three folds of a tick. *)

Informed(w0, is, here) == FoldLeft(LAMBDA w, i : Apply(w, i, here), w0, is)

\* Once all intents are applied.
LEMMA AllTold ==
    ASSUME tick \in Nat, NEW is \in Seq(Intent), NEW here, NEW w0 \in World
    PROVE  /\ Informed(w0, is, here) \in World
           /\ Told(w0, Informed(w0, is, here), Owing(is), ToIssueIn(is))
<1> DEFINE n == Len(is)
           R == [k \in 1..n |-> [w \in World |-> Apply(w, is[k], here)]]
           Rec(g) == g = [T \in SUBSET (1..n) |->
                            IF T = {} THEN w0
                            ELSE Apply(g[T \ {Max(T)}], is[Max(T)], here)]
           it == CHOOSE g : Rec(g)
<1>1. n \in Nat /\ DOMAIN is = 1..n /\ \A k \in 1..n : is[k] \in Intent  OBVIOUS
<1>2. ASSUME NEW w \in World, NEW k \in 1..n
      PROVE  /\ Apply(w, is[k], here) \in World
             /\ Told(w, Apply(w, is[k], here), Owes(is[k]), ToIssue(is[k]))
  BY <1>1, ApplyIs
<1>3. R \in [1..n -> [World -> World]]  BY <1>2
<1>4. ASSUME NEW T \in SUBSET (1..n), T # {}
      PROVE  Max(T) \in 1..n /\ T \ {Max(T)} \in SUBSET (1..n)
  BY <1>1, <1>4, MaxIn
<1>5. \E g \in [SUBSET (1..n) -> World] : Rec(g)
  <2> HIDE DEF R, n
  <2>1. PICK g \in [SUBSET (1..n) -> World] : IsFold(g, w0, R, n)
    BY <1>1, <1>3, FoldExists
  <2>2. ASSUME NEW T \in SUBSET (1..n), T # {}
        PROVE  g[T] = Apply(g[T \ {Max(T)}], is[Max(T)], here)
    <3>1. g[T \ {Max(T)}] \in World  BY <1>4, <2>2
    <3> QED BY <1>4, <2>1, <2>2, <3>1 DEF R, IsFold
  <2>3. Rec(g)  BY <2>1, <2>2 DEF IsFold
  <2> HIDE DEF Rec
  <2> QED BY <2>3
<1>6. Rec(it)
  <2> HIDE DEF Rec
  <2> QED BY <1>5
<1>7. Informed(w0, is, here) = it[1..n]
  BY <1>1 DEF Informed, FoldLeft, MapThenFoldSet
<1> HIDE DEF it
<1>8. it[{}] = w0
  <2>1. {} \in SUBSET (1..n)  OBVIOUS
  <2> QED BY <1>6, <2>1
<1>9. ASSUME NEW T \in SUBSET (1..n), T # {}, it[T \ {Max(T)}] \in World
      PROVE  it[T] = R[Max(T)][it[T \ {Max(T)}]]
  BY <1>4, <1>6, <1>9
<1>10. PICK h \in [0..n -> World] : Traced(h, it, w0, R, n)
  <2> HIDE DEF R, n, Rec
  <2>1. Unfolds(it, World, w0, R, n)  BY <1>8, <1>9 DEF Unfolds
  <2> QED BY <1>1, <1>3, <2>1, Unrolled
<1> DEFINE Prefix(k) == SubSeq(is, 1, k)
           G == {k \in 0..n : Told(w0, h[k], Owing(Prefix(k)), ToIssueIn(Prefix(k)))}
<1>11. 0 \in G
  <2>1. Prefix(0) = << >>  OBVIOUS
  <2>2. \A p \in Pip : Owing(<< >>)[p] = 0  BY OwedNothing DEF Owing
  <2>3. ToIssueIn(<< >>) = 0  BY ToIssueNothing
  <2>4. h[0] = w0  BY <1>10 DEF Traced, IsTrace
  <2>5. Told(w0, w0, Owing(<< >>), 0)
    <3>1. Errand(w0, w0)  BY DEF Errand
    <3> QED BY <2>2, <3>1, ErrandTells
  <2> QED BY <1>1, <2>1, <2>3, <2>4, <2>5
<1>12. ASSUME NEW k \in 0..n - 1, k \in G PROVE k + 1 \in G
  <2> DEFINE i == is[k + 1]
             js == Prefix(k)
  <2>1. k + 1 \in 1..n /\ i \in Intent /\ k \in 0..n /\ k + 1 \in 0..n /\ (k + 1) - 1 = k
    BY <1>1
  <2>2. h[k + 1] = Apply(h[k], i, here)
    <3>1. h[k + 1] = R[k + 1][h[k]]  BY <1>10, <2>1 DEF Traced, IsTrace
    <3> QED BY <2>1, <3>1
  <2>3. js \in Seq(Intent) /\ Prefix(k + 1) = Append(js, i)
    <3>1. js \in Seq(Intent) /\ Len(js) = k /\ \A m \in 1..k : js[m] = is[m]
      BY <1>1
    <3>2. Prefix(k + 1) \in Seq(Intent) /\ Len(Prefix(k + 1)) = k + 1
          /\ \A m \in 1..k + 1 : Prefix(k + 1)[m] = is[m]
      BY <1>1, <2>1
    <3> DEFINE t == Append(js, i)
               u == Prefix(k + 1)
    <3> HIDE DEF js
    <3>3. t \in Seq(Intent) /\ Len(t) = k + 1 /\ t[k + 1] = i /\ \A m \in 1..k : t[m] = js[m]
      BY <2>1, <3>1
    <3> HIDE DEF t, u
    <3>4. \A m \in 1..k + 1 : t[m] = is[m]
      <4> SUFFICES ASSUME NEW m \in 1..k + 1 PROVE t[m] = is[m]  OBVIOUS
      <4>1. m = k + 1 \/ m \in 1..k  OBVIOUS
      <4> QED BY <3>1, <3>3, <4>1
    <3>5. u = t  BY <3>2, <3>3, <3>4, SeqEqual DEF u
    <3> QED BY <3>1, <3>5 DEF t, u
  <2> HIDE DEF i, js, Prefix, R
  <2>4. h[k] \in World /\ Told(w0, h[k], Owing(js), ToIssueIn(js))
    BY <1>12, <2>1 DEF js
  <2>5. Told(h[k], h[k + 1], Owes(i), ToIssue(i)) /\ h[k + 1] \in World
    BY <1>2, <2>1, <2>2, <2>4 DEF i
  <2>6. Owing(js) \in [Pip -> Nat] /\ Owes(i) \in [Pip -> Nat]
    BY <2>1, <2>3, OwedsTyped, OwedNat DEF Owing, Owes
  <2>7. \A p \in Pip : Owing(Append(js, i))[p] = Owing(js)[p] + Owes(i)[p]
    BY <2>1, <2>3, OwedAppended DEF Owing, Owes
  <2>8. ToIssueIn(Append(js, i)) = ToIssueIn(js) + ToIssue(i)
    BY <2>1, <2>3, ToIssueAppended
  <2>9. ToIssueIn(js) \in Nat /\ ToIssue(i) \in Nat  BY <2>1, <2>3, ToIssuesTyped, ToIssueNat
  <2>10. Told(w0, h[k + 1], Owing(Append(js, i)), ToIssueIn(js) + ToIssue(i))
    BY <2>4, <2>5, <2>6, <2>7, <2>9, ToldBoth
  <2> QED BY <2>1, <2>3, <2>8, <2>10
<1>13. n \in G
  <2> HIDE DEF G, n
  <2> QED BY <1>1, <1>11, <1>12, IntervalInduction
<1>14. Prefix(n) = is  OBVIOUS
<1>15. h[n] \in World /\ Told(w0, h[n], Owing(is), ToIssueIn(is))
  BY <1>1, <1>13, <1>14
<1> HIDE DEF Prefix, R, Rec, n
<1>16. it[1..n] = h[n]  BY <1>10 DEF Traced
<1> QED BY <1>7, <1>15, <1>16

\* What has changed once those in D are buried.
Graves(w, v, D) ==
    /\ v.alive = w.alive \ D /\ v.built = w.built /\ v.upsets = w.upsets
    /\ SumOf(v.book) = SumOf(w.book)
    /\ v.book[Treasury] = w.book[Treasury] + SumOver(w.book, D)
    /\ \A p \in Pip : v.book[p] = IF p \in D THEN 0 ELSE w.book[p]
    /\ \A p \in Pip : DueIn(v.facts, p) = DueIn(w.facts, p)
    /\ \A p \in D : DeathIn(v.facts, p)
    /\ \A a : NoneOf(w.facts, a) => NoneOf(v.facts, a \ D)

\* What one burial changes.
Burial(v, u, p) ==
    /\ u.alive = v.alive \ {p} /\ u.built = v.built /\ u.upsets = v.upsets
    /\ Passed(v.book, u.book, p, Treasury, v.book[p])
    /\ \A q \in Pip : DueIn(u.facts, q) = DueIn(v.facts, q)
    /\ \A q : DeathIn(u.facts, q) <=> DeathIn(v.facts, q) \/ p = q
    /\ \A a : NoneOf(u.facts, a) <=> NoneOf(v.facts, a) /\ p \notin a

LEMMA BuriedIs ==
    ASSUME tick \in Nat, NEW v \in World, NEW p \in Pip
    PROVE  Buried(v, p) \in World /\ Burial(v, Buried(v, p), p)
<1> DEFINE b == Paid(v.book, p, One(Treasury, v.book[p]))
           s == Append(v.facts, Death(p))
           u == [v EXCEPT !.book = b, !.alive = @ \ {p}, !.facts = s]
<1>1. Buried(v, p) = u  BY DEF Buried
<1>2. Passed(v.book, b, p, Treasury, v.book[p])
  <2>1. /\ v.book \in Book /\ p \in Account /\ Treasury \in Account /\ p # Treasury
        /\ v.book[p] \in Coins
    BY WorldIs, Setting DEF Coins
  <2> QED BY <2>1, PaidOne
<1>3. /\ Death(p) \in Fact /\ \A q : Due(Death(p), q) = 0
  BY FactsAre
<1>4. Death(p).topic = "lifecycle" /\ Death(p).pip = p /\ ~Death(p).done  BY DEF Death
<1>5. v.facts \in Seq(Fact) /\ v.alive \in SUBSET Pip  BY WorldIs
<1>6. s \in Seq(Fact)  BY <1>3, <1>5
<1>7. \A q \in Pip : DueIn(s, q) = DueIn(v.facts, q)
  <2>1. \A q \in Pip : DueIn(v.facts, q) \in Nat /\ DueIn(s, q) = DueIn(v.facts, q) + 0
    BY <1>3, <1>5, DueAppended, DuesTyped
  <2> QED BY <2>1
<1>8. /\ \A q : DeathIn(s, q) <=> DeathIn(v.facts, q) \/ p = q
      /\ \A a : NoneOf(s, a) <=> NoneOf(v.facts, a) /\ p \notin a
  BY <1>3, <1>4, <1>5, DeathAppended, NoneAppended
<1> HIDE DEF b, s
<1>9. b \in Book /\ SumOf(b) = SumOf(v.book)  BY <1>2 DEF Passed
<1>10. /\ u \in World /\ u.book = b /\ u.facts = s /\ u.alive = v.alive \ {p}
       /\ u.built = v.built /\ u.upsets = v.upsets
  BY <1>5, <1>6, <1>9 DEF World
<1> HIDE DEF u
<1> QED BY <1>1, <1>2, <1>7, <1>8, <1>10 DEF Burial

LEMMA GraveDug ==
    ASSUME NEW w \in World, NEW v \in World, NEW u \in World, NEW D \in SUBSET Pip,
           NEW p \in Pip, p \notin D, Graves(w, v, D), Burial(v, u, p)
    PROVE  Graves(w, u, D \union {p})
<1> DEFINE E == D \union {p}
<1>0. /\ u.alive = v.alive \ {p} /\ u.built = v.built /\ u.upsets = v.upsets
      /\ Passed(v.book, u.book, p, Treasury, v.book[p])
      /\ SumOf(u.book) = SumOf(v.book)
      /\ \A q \in Pip : DueIn(u.facts, q) = DueIn(v.facts, q)
      /\ \A q : DeathIn(u.facts, q) <=> DeathIn(v.facts, q) \/ p = q
      /\ \A a : NoneOf(u.facts, a) <=> NoneOf(v.facts, a) /\ p \notin a
  BY DEF Burial, Passed
<1>1. v.book[p] = w.book[p] /\ w.book[p] \in Int  BY WorldIs, Setting DEF Graves
<1>2. SumOver(w.book, E) = w.book[p] + SumOver(w.book, D) /\ SumOver(w.book, D) \in Int
  <2>1. IsFiniteSet(E) /\ E \ {p} = D /\ p \in E  BY Setting, FS_Subset
  <2>2. \A a \in E : w.book[a] \in Int  BY WorldIs, Setting
  <2>3. IsFiniteSet(D) /\ \A a \in D : w.book[a] \in Int  BY <2>1, <2>2, FS_Subset
  <2> HIDE DEF E
  <2> QED BY <2>1, <2>2, <2>3, SumRemove, SumInt
<1>3. u.book[Treasury] = v.book[Treasury] + v.book[p] /\ w.book[Treasury] \in Int
  BY <1>0, WorldIs, Setting DEF Passed
<1>4. v.book[Treasury] = w.book[Treasury] + SumOver(w.book, D)  BY DEF Graves
<1>5. u.book[Treasury] = w.book[Treasury] + SumOver(w.book, E)
  BY <1>1, <1>2, <1>3, <1>4
<1>6. u.book[p] = 0 /\ \A q \in Pip : q # p => u.book[q] = v.book[q]
  <2>1. u.book[p] = v.book[p] - v.book[p]  BY <1>0 DEF Passed
  <2> QED BY <1>0, <1>1, <2>1, Setting DEF Passed
<1>7. \A q \in Pip : u.book[q] = IF q \in E THEN 0 ELSE w.book[q]
  BY <1>6 DEF Graves
<1>8. \A q \in E : DeathIn(u.facts, q)  BY <1>0 DEF Graves
<1>9. \A a : NoneOf(w.facts, a) => NoneOf(u.facts, a \ E)
  <2>1. ASSUME NEW a, NoneOf(w.facts, a) PROVE NoneOf(u.facts, a \ E)
    <3>1. NoneOf(v.facts, a \ D)  BY <2>1 DEF Graves
    <3>2. NoneOf(v.facts, a \ E)  BY <3>1 DEF NoneOf
    <3> QED BY <1>0, <3>2
  <2> QED BY <2>1
<1>10. v.alive \ {p} = w.alive \ E  BY DEF Graves
<1> HIDE DEF E
<1>11. Graves(w, u, E)
  BY <1>0, <1>5, <1>7, <1>8, <1>9, <1>10 DEF Graves
<1> QED BY <1>11 DEF E


\* The pips of a set, one after the other.
LEMMA ListIs ==
    ASSUME NEW S \in SUBSET Pip
    PROVE  LET s == SetToSeq(S)
           IN  /\ s \in Seq(Pip) /\ DOMAIN s = 1..Len(s)
               /\ \A p : p \in S <=> \E k \in DOMAIN s : s[k] = p
               /\ \A j, k \in DOMAIN s : s[j] = s[k] => j = k
<1> DEFINE n == Cardinality(S)
           s == SetToSeq(S)
<1>1. IsFiniteSet(S)  BY Setting, FS_Subset
<1>2. n \in Nat /\ ExistsBijection(1..n, S)  BY <1>1, FS_CardinalityType
<1> HIDE DEF n
<1>3. PICK f : f \in Bijection(1..n, S)  BY <1>2 DEF ExistsBijection
<1>4. f \in [1..n -> S] /\ IsInjective(f)
  BY <1>3 DEF Bijection, Injection, IsInjective
<1>5. s \in [1..n -> S] /\ IsInjective(s)
  BY <1>4 DEF SetToSeq, n
<1> HIDE DEF s
<1>6. s \in Injection(1..n, S)  BY <1>5 DEF Injection, IsInjective
<1>7. IsFiniteSet(1..n) /\ Cardinality(1..n) = n  BY <1>2, FS_Interval
<1>8. s \in Surjection(1..n, S)  BY <1>1, <1>6, <1>7, FS_Injection DEF n
<1>9. \A p \in S : \E k \in 1..n : s[k] = p  BY <1>8 DEF Surjection
<1>10. s \in Seq(Pip) /\ Len(s) = n /\ DOMAIN s = 1..n  BY <1>2, <1>5
<1>11. \A j, k \in DOMAIN s : s[j] = s[k] => j = k  BY <1>5 DEF IsInjective
<1> QED BY <1>5, <1>9, <1>10, <1>11 DEF s

\* Once all who die are buried.
LEMMA AllBuried ==
    ASSUME tick \in Nat, NEW S \in SUBSET Pip, NEW w0 \in World
    PROVE  LET v == FoldLeft(Buried, w0, SetToSeq(S))
           IN  v \in World /\ Graves(w0, v, S)
<1> DEFINE s == SetToSeq(S)
<1>0. /\ s \in Seq(Pip) /\ DOMAIN s = 1..Len(s)
      /\ \A p : p \in S <=> \E k \in DOMAIN s : s[k] = p
      /\ \A j, k \in DOMAIN s : s[j] = s[k] => j = k
  BY ListIs
<1> HIDE DEF s
<1> DEFINE n == Len(s)
           R == [k \in 1..n |-> [w \in World |-> Buried(w, s[k])]]
           Rec(g) == g = [T \in SUBSET (1..n) |->
                            IF T = {} THEN w0 ELSE Buried(g[T \ {Max(T)}], s[Max(T)])]
           it == CHOOSE g : Rec(g)
<1>1. n \in Nat /\ DOMAIN s = 1..n /\ \A k \in 1..n : s[k] \in Pip  BY <1>0
<1>2. ASSUME NEW w \in World, NEW k \in 1..n PROVE Buried(w, s[k]) \in World
  BY <1>1, BuriedIs
<1>3. R \in [1..n -> [World -> World]]  BY <1>2
<1>4. ASSUME NEW T \in SUBSET (1..n), T # {}
      PROVE  Max(T) \in 1..n /\ T \ {Max(T)} \in SUBSET (1..n)
  BY <1>1, <1>4, MaxIn
<1>5. \E g \in [SUBSET (1..n) -> World] : Rec(g)
  <2> HIDE DEF R, n
  <2>1. PICK g \in [SUBSET (1..n) -> World] : IsFold(g, w0, R, n)
    BY <1>1, <1>3, FoldExists
  <2>2. ASSUME NEW T \in SUBSET (1..n), T # {}
        PROVE  g[T] = Buried(g[T \ {Max(T)}], s[Max(T)])
    <3>1. g[T \ {Max(T)}] \in World  BY <1>4, <2>2
    <3> QED BY <1>4, <2>1, <2>2, <3>1 DEF R, IsFold
  <2>3. Rec(g)  BY <2>1, <2>2 DEF IsFold
  <2> HIDE DEF Rec
  <2> QED BY <2>3
<1>6. Rec(it)
  <2> HIDE DEF Rec
  <2> QED BY <1>5
<1>7. FoldLeft(Buried, w0, s) = it[1..n]
  BY <1>1 DEF FoldLeft, MapThenFoldSet
<1> HIDE DEF it
<1>8. Unfolds(it, World, w0, R, n)
  <2>1. it[{}] = w0
    <3>1. {} \in SUBSET (1..n)  OBVIOUS
    <3> QED BY <1>6, <3>1
  <2>2. ASSUME NEW T \in SUBSET (1..n), T # {}, it[T \ {Max(T)}] \in World
        PROVE  it[T] = R[Max(T)][it[T \ {Max(T)}]]
    BY <1>4, <1>6, <2>2
  <2> QED BY <2>1, <2>2 DEF Unfolds
<1>9. PICK h \in [0..n -> World] : Traced(h, it, w0, R, n)
  <2> HIDE DEF R, n, Rec
  <2> QED BY <1>1, <1>3, <1>8, Unrolled
<1>10. h[0] = w0 /\ \A k \in 1..n : h[k] = Buried(h[k - 1], s[k])
  <2>1. h[0] = w0 /\ \A k \in 1..n : h[k] = R[k][h[k - 1]]  BY <1>9 DEF Traced, IsTrace
  <2>2. \A k \in 1..n : h[k - 1] \in World  BY <1>1
  <2> QED BY <2>1, <2>2
<1>11. FoldLeft(Buried, w0, s) = h[n]  BY <1>7, <1>9 DEF Traced
<1> HIDE DEF R, Rec
<1> DEFINE Gone(k) == {s[j] : j \in 1..k}
           G == {k \in 0..n : Graves(w0, h[k], Gone(k))}
<1>12. 0 \in G
  <2>1. Gone(0) = {} /\ 0 \in 0..n
    <3>1. 1..0 = {}  OBVIOUS
    <3> QED BY <1>1, <3>1
  <2>2. Graves(w0, w0, {})
    <3>1. SumOver(w0.book, {}) = 0 /\ w0.book[Treasury] \in Int
      BY SumEmpty, WorldIs, Setting
    <3>2. w0.book[Treasury] = w0.book[Treasury] + SumOver(w0.book, {})  BY <3>1
    <3>3. \A a : a \ {} = a  OBVIOUS
    <3> QED BY <3>2, <3>3 DEF Graves
  <2> QED BY <1>10, <2>1, <2>2
<1>13. ASSUME NEW k \in 0..n - 1, k \in G PROVE k + 1 \in G
  <2> DEFINE p == s[k + 1]
  <2>1. /\ k + 1 \in 1..n /\ k \in 0..n /\ k + 1 \in 0..n /\ (k + 1) - 1 = k
        /\ \A j \in 1..k : j \in 1..n /\ j # k + 1
    BY <1>1
  <2>2. p \in Pip /\ p \notin Gone(k) /\ Gone(k) \in SUBSET Pip
    <3>1. p \in Pip /\ Gone(k) \in SUBSET Pip  BY <1>1, <2>1
    <3>2. \A j \in 1..k : s[j] # p  BY <1>0, <1>1, <2>1
    <3> QED BY <3>1, <3>2
  <2>3. Gone(k + 1) = Gone(k) \union {p}
    <3>1. \A j : j \in 1..k + 1 <=> j \in 1..k \/ j = k + 1  BY <2>1
    <3> QED BY <3>1
  <2>4. h[k + 1] = Buried(h[k], p)  BY <1>10, <2>1
  <2>5. h[k] \in World /\ Graves(w0, h[k], Gone(k))  BY <1>13, <2>1
  <2> HIDE DEF p, Gone, n
  <2>6. h[k + 1] \in World /\ Burial(h[k], h[k + 1], p)  BY <2>2, <2>4, <2>5, BuriedIs
  <2>7. Graves(w0, h[k + 1], Gone(k) \union {p})  BY <2>2, <2>5, <2>6, GraveDug
  <2> QED BY <2>1, <2>3, <2>7
<1>14. n \in G
  <2> HIDE DEF G, n
  <2> QED BY <1>1, <1>12, <1>13, IntervalInduction
<1>15. Gone(n) = S  BY <1>0, <1>1
<1>16. h[n] \in World /\ Graves(w0, h[n], S)  BY <1>1, <1>14, <1>15
<1> QED BY <1>11, <1>16 DEF s

\* Once all who are hungry are served.
LEMMA AllServed ==
    ASSUME tick \in Nat, NEW S \in SUBSET Pip, NEW w0 \in World
    PROVE  LET v == FoldLeft(Sale, w0, SetToSeq(S))
           IN  v \in World /\ Errand(w0, v)
<1> DEFINE s == SetToSeq(S)
<1>0. s \in Seq(Pip) /\ DOMAIN s = 1..Len(s)  BY ListIs
<1> HIDE DEF s
<1> DEFINE n == Len(s)
           R == [k \in 1..n |-> [w \in World |-> Sale(w, s[k])]]
           Rec(g) == g = [T \in SUBSET (1..n) |->
                            IF T = {} THEN w0 ELSE Sale(g[T \ {Max(T)}], s[Max(T)])]
           it == CHOOSE g : Rec(g)
<1>1. n \in Nat /\ DOMAIN s = 1..n /\ \A k \in 1..n : s[k] \in Pip  BY <1>0
<1>2. ASSUME NEW w \in World, NEW k \in 1..n PROVE Sale(w, s[k]) \in World
  BY <1>1, SaleIs
<1>3. R \in [1..n -> [World -> World]]  BY <1>2
<1>4. ASSUME NEW T \in SUBSET (1..n), T # {}
      PROVE  Max(T) \in 1..n /\ T \ {Max(T)} \in SUBSET (1..n)
  BY <1>1, <1>4, MaxIn
<1>5. \E g \in [SUBSET (1..n) -> World] : Rec(g)
  <2> HIDE DEF R, n
  <2>1. PICK g \in [SUBSET (1..n) -> World] : IsFold(g, w0, R, n)
    BY <1>1, <1>3, FoldExists
  <2>2. ASSUME NEW T \in SUBSET (1..n), T # {}
        PROVE  g[T] = Sale(g[T \ {Max(T)}], s[Max(T)])
    <3>1. g[T \ {Max(T)}] \in World  BY <1>4, <2>2
    <3> QED BY <1>4, <2>1, <2>2, <3>1 DEF R, IsFold
  <2>3. Rec(g)  BY <2>1, <2>2 DEF IsFold
  <2> HIDE DEF Rec
  <2> QED BY <2>3
<1>6. Rec(it)
  <2> HIDE DEF Rec
  <2> QED BY <1>5
<1>7. FoldLeft(Sale, w0, s) = it[1..n]
  BY <1>1 DEF FoldLeft, MapThenFoldSet
<1> HIDE DEF it
<1>8. Unfolds(it, World, w0, R, n)
  <2>1. it[{}] = w0
    <3>1. {} \in SUBSET (1..n)  OBVIOUS
    <3> QED BY <1>6, <3>1
  <2>2. ASSUME NEW T \in SUBSET (1..n), T # {}, it[T \ {Max(T)}] \in World
        PROVE  it[T] = R[Max(T)][it[T \ {Max(T)}]]
    BY <1>4, <1>6, <2>2
  <2> QED BY <2>1, <2>2 DEF Unfolds
<1>9. PICK h \in [0..n -> World] : Traced(h, it, w0, R, n)
  <2> HIDE DEF R, n, Rec
  <2> QED BY <1>1, <1>3, <1>8, Unrolled
<1>10. h[0] = w0 /\ \A k \in 1..n : h[k] = Sale(h[k - 1], s[k])
  <2>1. h[0] = w0 /\ \A k \in 1..n : h[k] = R[k][h[k - 1]]  BY <1>9 DEF Traced, IsTrace
  <2>2. \A k \in 1..n : h[k - 1] \in World  BY <1>1
  <2> QED BY <2>1, <2>2
<1>11. FoldLeft(Sale, w0, s) = h[n]  BY <1>7, <1>9 DEF Traced
<1> HIDE DEF R, Rec
<1> DEFINE G == {k \in 0..n : Errand(w0, h[k])}
<1>12. 0 \in G
  <2>1. Errand(w0, w0)  BY DEF Errand
  <2> QED BY <1>1, <1>10, <2>1
<1>13. ASSUME NEW k \in 0..n - 1, k \in G PROVE k + 1 \in G
  <2>1. k + 1 \in 1..n /\ k \in 0..n /\ k + 1 \in 0..n /\ (k + 1) - 1 = k  BY <1>1
  <2>2. h[k] \in World /\ Errand(w0, h[k])  BY <1>13, <2>1
  <2>3. s[k + 1] \in Pip  BY <1>1, <2>1
  <2>4. h[k + 1] = Sale(h[k], s[k + 1])  BY <1>10, <2>1
  <2>5. Errand(h[k], h[k + 1])  BY <2>2, <2>3, <2>4, SaleIs
  <2>6. Errand(w0, h[k + 1])
    <3> HIDE DEF Worth
    <3> QED BY <2>2, <2>5 DEF Errand
  <2> QED BY <2>1, <2>6
<1>14. n \in G
  <2> HIDE DEF G, n
  <2> QED BY <1>1, <1>12, <1>13, IntervalInduction
<1>15. h[n] \in World /\ Errand(w0, h[n])  BY <1>1, <1>14
<1> QED BY <1>11, <1>15 DEF s

\* What a tick leaves: e is what the pips that die in it had left, which goes to
\* the treasury.
Ticked(dying, e) ==
    /\ replica' \in Book /\ SumOf(replica') = SumOf(replica)
    /\ alive' = alive \ dying /\ built' \in BOOLEAN /\ (built => built')
    /\ outbox' \in Seq(Fact) /\ upsets' \in SUBSET Upsets /\ upsets \subseteq upsets'
    /\ \A p \in Pip : replica[p] >= 0 => replica'[p] >= 0
    /\ \A p \in dying : replica'[p] = 0
    /\ \A p \in Pip \ alive : replica'[p] = replica[p]
    /\ \A p \in Pip \ dying : e[p] = 0
    /\ \A p \in Pip \ dying :
          replica'[p] + DueIn(outbox', p) <= replica[p] + OwedIn(intents, p)
    /\ built /\ upsets' = {} =>
          /\ \A p \in Pip : replica'[p] + DueIn(outbox', p) + e[p]
                              = replica[p] + OwedIn(intents, p)
          /\ replica'[Treasury] = replica[Treasury] - ToIssueIn(intents) + SumOver(e, Pip)
    /\ \A p \in dying : DeathIn(outbox', p)
    /\ NoneOf(outbox', alive \ dying)

LEMMA TickIs ==
    ASSUME TypeOK, NEW here, NEW dying \in SUBSET alive,
           NEW hungry \in SUBSET (alive \ dying), Tick(here, dying, hungry)
    PROVE  \E e \in [Pip -> Int] : Ticked(dying, e)
<1> DEFINE w0 == [book |-> replica, alive |-> alive, built |-> built,
                  facts |-> << >>, upsets |-> upsets]
           w1 == Informed(w0, intents, here)
           w2 == FoldLeft(Buried, w1, SetToSeq(dying))
           w3 == FoldLeft(Sale, w2, SetToSeq(hungry))
           o == Owing(intents)
           n == ToIssueIn(intents)
<1>1. /\ tick \in Nat /\ alive \in SUBSET Pip /\ dying \in SUBSET Pip
      /\ hungry \in SUBSET Pip /\ intents \in Seq(Intent)
  BY DEF TypeOK
<1>2. w0 \in World
  <2>1. /\ replica \in Book /\ built \in BOOLEAN /\ upsets \in SUBSET Upsets
        /\ << >> \in Seq(Fact)
    BY DEF TypeOK, Book
  <2> QED BY <1>1, <2>1 DEF World
<1>3. /\ replica' = w3.book /\ alive' = w3.alive /\ built' = w3.built
      /\ outbox' = w3.facts /\ upsets' = w3.upsets
  BY DEF Tick, Informed
<1>4. /\ w0.book = replica /\ w0.alive = alive /\ w0.built = built /\ w0.facts = << >>
      /\ w0.upsets = upsets
  OBVIOUS
<1> HIDE DEF w0
<1>5. w1 \in World /\ Told(w0, w1, o, n)  BY <1>1, <1>2, AllTold
<1> HIDE DEF w1
<1>6. w2 \in World /\ Graves(w1, w2, dying)  BY <1>1, <1>5, AllBuried
<1> HIDE DEF w2
<1>7. w3 \in World /\ Errand(w2, w3)  BY <1>1, <1>6, AllServed
<1> HIDE DEF w3
<1> DEFINE e == [p \in Pip |-> IF p \in dying THEN w1.book[p] ELSE 0]
<1>8. /\ w1.alive = alive /\ (built => w1.built) /\ upsets \subseteq w1.upsets
      /\ SumOf(w1.book) = SumOf(replica)
      /\ \A p \in Pip : replica[p] >= 0 => w1.book[p] >= 0
      /\ \A p \in Pip \ alive : w1.book[p] = replica[p]
      /\ \A a : NoneOf(w1.facts, a)
  <2>1. \A a : NoneOf(<< >>, a)  BY DEF NoneOf
  <2> QED BY <1>4, <1>5, <2>1 DEF Told
<1>9. /\ w2.alive = alive \ dying /\ w2.built = w1.built /\ w2.upsets = w1.upsets
      /\ SumOf(w2.book) = SumOf(w1.book)
      /\ w2.book[Treasury] = w1.book[Treasury] + SumOver(w1.book, dying)
      /\ \A p \in Pip : w2.book[p] = IF p \in dying THEN 0 ELSE w1.book[p]
      /\ \A p \in Pip : DueIn(w2.facts, p) = DueIn(w1.facts, p)
      /\ \A p \in dying : DeathIn(w2.facts, p)
      /\ NoneOf(w2.facts, alive \ dying)
  BY <1>6, <1>8 DEF Graves
<1>10. /\ alive' = w2.alive /\ built' = w2.built /\ upsets' = w2.upsets
       /\ SumOf(replica') = SumOf(w2.book) /\ replica'[Treasury] = w2.book[Treasury]
       /\ \A p \in Pip : replica'[p] + DueIn(outbox', p) = w2.book[p] + DueIn(w2.facts, p)
       /\ \A p \in Pip : w2.book[p] >= 0 => replica'[p] >= 0
       /\ \A p \in Pip \ w2.alive : replica'[p] = w2.book[p]
       /\ \A p \in Pip : DeathIn(w2.facts, p) => DeathIn(outbox', p)
       /\ \A a : NoneOf(w2.facts, a) => NoneOf(outbox', a)
  <2>1. /\ w3.alive = w2.alive /\ w3.built = w2.built /\ w3.upsets = w2.upsets
        /\ SumOf(w3.book) = SumOf(w2.book) /\ w3.book[Treasury] = w2.book[Treasury]
        /\ \A p \in Pip : Worth(w3, p) = Worth(w2, p)
        /\ \A p \in Pip : w2.book[p] >= 0 => w3.book[p] >= 0
        /\ \A p \in Pip \ w2.alive : w3.book[p] = w2.book[p]
        /\ \A p \in Pip : DeathIn(w2.facts, p) => DeathIn(w3.facts, p)
        /\ \A a : NoneOf(w2.facts, a) => NoneOf(w3.facts, a)
    BY <1>7 DEF Errand
  <2>2. \A p \in Pip : replica'[p] + DueIn(outbox', p) = w2.book[p] + DueIn(w2.facts, p)
    BY <1>3, <2>1 DEF Worth
  <2> QED BY <1>3, <2>1, <2>2
<1>11. /\ replica' \in Book /\ built' \in BOOLEAN /\ outbox' \in Seq(Fact)
       /\ upsets' \in SUBSET Upsets
  BY <1>3, <1>7, WorldIs
<1>12. \A p \in Pip : /\ replica[p] \in Int /\ w1.book[p] \in Int /\ w2.book[p] \in Int
                      /\ replica'[p] \in Int /\ o[p] = OwedIn(intents, p) /\ o[p] \in Nat
                      /\ DueIn(outbox', p) \in Nat /\ DueIn(w1.facts, p) \in Nat
                      /\ Worth(w0, p) = replica[p]
  <2>1. \A p \in Pip : o[p] = OwedIn(intents, p) /\ o[p] \in Nat
    BY <1>1, OwedsTyped DEF Owing
  <2>2. \A p \in Pip : Worth(w0, p) = replica[p] /\ replica[p] \in Int
    <3>1. \A p \in Pip : w0.book[p] \in Int  BY <1>2, WorldIs, Setting
    <3> QED BY <1>4, <3>1, DueNothing DEF Worth
  <2>3. \A p \in Pip : w1.book[p] \in Int /\ w2.book[p] \in Int /\ DueIn(w1.facts, p) \in Nat
    BY <1>5, <1>6, WorldIs, Setting
  <2>4. \A p \in Pip : replica'[p] \in Int /\ DueIn(outbox', p) \in Nat
    BY <1>3, <1>7, WorldIs, Setting
  <2> QED BY <2>1, <2>2, <2>3, <2>4
<1>13. e \in [Pip -> Int] /\ \A p \in Pip : e[p] = IF p \in dying THEN w1.book[p] ELSE 0
  BY <1>12
<1>14. SumOver(e, Pip) = SumOver(w1.book, dying)
  <2>1. dying \subseteq Pip /\ IsFiniteSet(Pip)  BY <1>1, Setting
  <2>2. \A p \in Pip : w1.book[p] \in Int  BY <1>12
  <2> HIDE DEF e
  <2> QED BY <1>13, <2>1, <2>2, SumRestrict
<1> HIDE DEF e, o, n
<1>15. \A p \in Pip \ dying :
          replica'[p] + DueIn(outbox', p) <= replica[p] + OwedIn(intents, p)
  <2> SUFFICES ASSUME NEW p \in Pip, p \notin dying
               PROVE  replica'[p] + DueIn(outbox', p) <= replica[p] + OwedIn(intents, p)
    OBVIOUS
  <2>1. Worth(w1, p) <= Worth(w0, p) + o[p]  BY <1>5 DEF Told
  <2>2. replica'[p] + DueIn(outbox', p) = w1.book[p] + DueIn(w1.facts, p)
    BY <1>9, <1>10
  <2> QED BY <1>12, <2>1, <2>2 DEF Worth
<1>16. ASSUME built, upsets' = {}
       PROVE  /\ \A p \in Pip : replica'[p] + DueIn(outbox', p) + e[p]
                                  = replica[p] + OwedIn(intents, p)
              /\ replica'[Treasury] = replica[Treasury] - n + SumOver(e, Pip)
  <2>1. w0.built /\ w1.upsets = {}  BY <1>4, <1>9, <1>10, <1>16
  <2>2. \A p \in Pip : Worth(w1, p) = Worth(w0, p) + o[p]  BY <1>5, <2>1 DEF Told
  <2>3. w1.book[Treasury] = w0.book[Treasury] - n  BY <1>5, <2>1 DEF Told
  <2>4. \A p \in Pip : w1.book[p] + DueIn(w1.facts, p) = replica[p] + OwedIn(intents, p)
    BY <1>12, <2>2 DEF Worth
  <2>5. \A p \in Pip : replica'[p] + DueIn(outbox', p) + e[p]
                         = w1.book[p] + DueIn(w1.facts, p)
    BY <1>9, <1>10, <1>12, <1>13
  <2>6. replica'[Treasury] = replica[Treasury] - n + SumOver(e, Pip)
    BY <1>4, <1>9, <1>10, <1>14, <2>3
  <2> QED BY <2>4, <2>5, <2>6
<1>17. /\ \A p \in Pip : replica[p] >= 0 => replica'[p] >= 0
       /\ \A p \in dying : replica'[p] = 0
       /\ \A p \in Pip \ alive : replica'[p] = replica[p]
  <2>1. \A p \in Pip : replica[p] >= 0 => w2.book[p] >= 0
    BY <1>8, <1>9, <1>12
  <2> QED BY <1>1, <1>8, <1>9, <1>10, <2>1
<1>18. /\ \A p \in dying : DeathIn(outbox', p)
       /\ NoneOf(outbox', alive \ dying)
  BY <1>1, <1>9, <1>10
<1>19. /\ SumOf(replica') = SumOf(replica) /\ alive' = alive \ dying /\ (built => built')
       /\ upsets \subseteq upsets'
  BY <1>8, <1>9, <1>10
<1>20. \A p \in Pip \ dying : e[p] = 0  BY <1>13
<1>21. Ticked(dying, e)
  BY <1>11, <1>15, <1>16, <1>17, <1>18, <1>19, <1>20 DEF Ticked, n
<1> QED BY <1>13, <1>21

-----------------------------------------------------------------------------
(* What the other steps are made of. *)

CoreOK ==
    /\ tick \in Nat /\ lived \in Nat /\ lived + tick <= MaxTick
    /\ alive \subseteq Pip /\ built \in BOOLEAN /\ replica \in Book

QueueOK == intents \in Seq(Intent) /\ Len(intents) <= MaxQueue

LogOK ==
    /\ log \in [Topic -> Seq(Fact)] /\ ahead \in [Topic -> Nat]
    /\ \A t \in Topic : ahead[t] <= Len(log[t]) /\ Len(log[t]) <= MaxQueue

CallsOK ==
    /\ payroll \in Payroll \union {Idle} /\ endowment \in Endowment \union {Idle}
    /\ escheat \in Inheritance \union {Idle}

BankOK == balance \in Book /\ twice \in [Pip -> Nat]

CountsOK == faults \in 0..MaxFaults /\ upsets \subseteq Upsets

LEMMA TypeParts ==
    TypeOK <=> /\ CoreOK /\ QueueOK /\ outbox \in Seq(Fact) /\ LogOK /\ BankOK
               /\ worked \in [Pip -> 0..MaxTick] /\ CallsOK /\ CountsOK
BY DEF TypeOK, CoreOK, QueueOK, LogOK, CallsOK, BankOK, CountsOK, Book

LEMMA Blamed ==
    ASSUME CountsOK, Fault \/ NoFault, NEW S \in SUBSET Upsets, Upset(S) \/ NoUpset
    PROVE  CountsOK' /\ upsets \subseteq upsets'
BY Setting DEF CountsOK, Fault, NoFault, Upset, NoUpset

\* A list of credits, to whomever.
Listed(c) == DOMAIN c \subseteq Account /\ \A a \in DOMAIN c : c[a] \in Int

LEMMA CreditsListed ==
    /\ \A c \in Wages : Listed(c)
    /\ \A a \in Account, n \in Coins : Listed(One(a, n))
<1>1. \A c \in Wages : Listed(c)  BY WagesAre DEF Listed
<1>2. ASSUME NEW a \in Account, NEW n \in Coins PROVE Listed(One(a, n))
  <2>1. DOMAIN One(a, n) = {a} /\ One(a, n)[a] = n  BY DEF One
  <2> QED BY <2>1 DEF Listed, Coins
<1> QED BY <1>1, <1>2

LEMMA PaidListed ==
    ASSUME NEW b \in Book, NEW payer \in Account, NEW c, Listed(c)
    PROVE  Paid(b, payer, c) \in Book /\ SumOf(Paid(b, payer, c)) = SumOf(b)
<1>1. b \in [Account -> Int]  BY DEF Book
<1>2. DOMAIN c \subseteq Account  BY DEF Listed
<1>3. \A a \in DOMAIN c : c[a] \in Int  BY DEF Listed
<1>4. payer \in Account  OBVIOUS
<1> QED BY ONLY <1>1, <1>2, <1>3, <1>4, PaidIs DEF Book

LEMMA MoveIs ==
    ASSUME BankOK, NEW key, NEW payer \in Account, NEW c, Listed(c),
           Move(key, payer, c)
    PROVE  /\ BankOK' /\ SumOf(balance') = SumOf(balance) /\ twice' = twice
           /\ IF Answer(key, payer, c) = "paid" THEN balance' = Paid(balance, payer, c)
                                                ELSE balance' = balance
BY PaidListed DEF Move, bank, BankOK

\* Booked again, a purchase costs the pip its price; for what the bank would
\* otherwise hold for it that is no matter.
LEMMA PostIs ==
    ASSUME BankOK, NEW f \in Fact, Post(f)
    PROVE  /\ BankOK' /\ SumOf(balance') = SumOf(balance)
           /\ Passed(balance, balance', f.pip, Farm, Price)
           /\ \A p \in Pip : /\ twice'[p] >= twice[p]
                             /\ Held(p)' = Held(p) - IF p = f.pip /\ ~f.done
                                                     THEN Price ELSE 0
<1>1. /\ f.pip \in Pip /\ f.pip \in Account /\ Farm \in Account /\ f.pip # Farm
      /\ Price \in Coins /\ Price \in Nat
  BY Setting DEF Fact, Coins
<1>2. balance \in Book /\ twice \in [Pip -> Nat]  BY DEF BankOK
<1>3. Passed(balance, balance', f.pip, Farm, Price)
  <2>1. balance' = Paid(balance, f.pip, One(Farm, Price))  BY DEF Post
  <2> QED BY <1>1, <1>2, <2>1, PaidOne
<1>4. twice' = [twice EXCEPT ![f.pip] = IF f.done THEN @ + Price ELSE @]  BY DEF Post
<1>5. twice' \in [Pip -> Nat]  BY <1>1, <1>2, <1>4
<1>6. ASSUME NEW p \in Pip
      PROVE  /\ twice'[p] >= twice[p]
             /\ Held(p)' = Held(p) - IF p = f.pip /\ ~f.done THEN Price ELSE 0
  <2>1. /\ balance[p] \in Int /\ twice[p] \in Nat /\ p \in Account /\ p # Farm
    BY <1>2, Setting DEF Book
  <2>2. balance'[p] = balance[p] - IF p = f.pip THEN Price ELSE 0
    BY <1>1, <1>3, <2>1 DEF Passed
  <2>3. twice'[p] = twice[p] + IF p = f.pip /\ f.done THEN Price ELSE 0
    BY <1>1, <1>2, <1>4, <2>1
  <2> QED BY <1>1, <2>1, <2>2, <2>3 DEF Held
<1> QED BY <1>2, <1>3, <1>5, <1>6 DEF BankOK, Passed

LEMMA SubmitIs ==
    ASSUME QueueOK, CountsOK, NEW i \in Intent, Submit(i)
    PROVE  /\ QueueOK' /\ CountsOK' /\ upsets \subseteq upsets'
           /\ \/ intents' = Append(intents, i) /\ upsets' = upsets
              \/ intents' = intents /\ (i.op # "buy" => "lost" \in upsets')
<1>1. "lost" \in Upsets  BY DEF Upsets
<1>2. CASE Len(intents) < MaxQueue /\ intents' = Append(intents, i) /\ NoFault /\ NoUpset
  <2>1. QueueOK'
    <3>1. intents \in Seq(Intent) /\ Len(intents) \in Nat  BY DEF QueueOK
    <3>2. intents' \in Seq(Intent) /\ Len(intents') = Len(intents) + 1  BY <1>2, <3>1
    <3> QED BY <1>2, <3>1, <3>2, Setting DEF QueueOK
  <2>2. CountsOK' /\ upsets \subseteq upsets'
    <3>1. {} \in SUBSET Upsets  OBVIOUS
    <3> QED BY <1>2, <3>1, Blamed
  <2> QED BY <1>2, <2>1, <2>2 DEF NoUpset
<1>3. CASE /\ Fault /\ UNCHANGED intents
           /\ IF i.op = "buy" THEN NoUpset ELSE Upset({"lost"})
  <2>1. QueueOK'  BY <1>3 DEF QueueOK
  <2>2. CountsOK' /\ upsets \subseteq upsets'
    <3>1. {"lost"} \in SUBSET Upsets  BY <1>1
    <3> QED BY <1>3, <3>1, Blamed
  <2>3. i.op # "buy" => "lost" \in upsets'  BY <1>3 DEF Upset
  <2> QED BY <1>3, <2>1, <2>2, <2>3
<1> QED BY <1>2, <1>3 DEF Submit

LEMMA NextFactIs ==
    ASSUME LogOK, NEW t \in Topic, Waiting(t)
    PROVE  /\ ahead[t] \in Nat /\ ahead[t] + 1 \in 1..Len(log[t])
           /\ log[t] \in Seq(Fact) /\ NextFact(t) \in Fact
           /\ NextFact(t) = log[t][ahead[t] + 1]
<1>1. log[t] \in Seq(Fact) /\ ahead[t] \in Nat /\ Len(log[t]) \in Nat  BY DEF LogOK
<1>2. ahead[t] + 1 \in 1..Len(log[t])  BY <1>1 DEF Waiting
<1> QED BY <1>1, <1>2 DEF NextFact

\* The queue starts behind the fact that was handled.
Cut(t) ==
    /\ log'[t] = SubSeq(log[t], ahead[t] + 2, Len(log[t])) /\ ahead'[t] = 0
    /\ \A u \in Topic : u # t => log'[u] = log[u] /\ ahead'[u] = ahead[u]

LEMMA CommitIs ==
    ASSUME LogOK, NEW t \in Topic, Waiting(t), Commit(t)
    PROVE  LogOK' /\ Cut(t)
<1> DEFINE s == log[t]
           k == ahead[t] + 1
           r == SubSeq(s, k + 1, Len(s))
<1>1. /\ k \in 1..Len(s) /\ s \in Seq(Fact) /\ Len(s) <= MaxQueue /\ MaxQueue \in Nat
      /\ k + 1 = ahead[t] + 2
  BY NextFactIs, Setting DEF LogOK
<1>2. log' = [log EXCEPT ![t] = r] /\ ahead' = [ahead EXCEPT ![t] = 0]
  BY <1>1 DEF Commit
<1> HIDE DEF s, k
<1>3. r \in Seq(Fact) /\ Len(r) <= MaxQueue /\ 0 <= Len(r)
  <2>1. r \in Seq(Fact) /\ Len(r) = Len(s) - k /\ Len(s) \in Nat  BY <1>1
  <2> HIDE DEF r
  <2> QED BY <1>1, <2>1
<1> HIDE DEF r
<1>4. /\ log'[t] = r /\ ahead'[t] = 0
      /\ \A u \in Topic : u # t => log'[u] = log[u] /\ ahead'[u] = ahead[u]
  BY <1>2 DEF LogOK
<1>5. log' \in [Topic -> Seq(Fact)] /\ ahead' \in [Topic -> Nat]
  BY <1>2, <1>3 DEF LogOK
<1>6. \A u \in Topic : ahead'[u] <= Len(log'[u]) /\ Len(log'[u]) <= MaxQueue
  BY <1>3, <1>4 DEF LogOK
<1>7. LogOK'  BY <1>5, <1>6 DEF LogOK
<1>8. Cut(t)  BY <1>1, <1>4 DEF Cut, r, s
<1> QED BY <1>7, <1>8

\* The fact was looked at, and perhaps handled.
Marked(t, d) ==
    /\ Len(log'[t]) = Len(log[t])
    /\ \A n \in 1..Len(log[t]) : n # ahead[t] + 1 => log'[t][n] = log[t][n]
    /\ log'[t][ahead[t] + 1] = [NextFact(t) EXCEPT !.done = @ \/ d]
    /\ \A u \in Topic : u # t => log'[u] = log[u] /\ ahead'[u] = ahead[u]

LEMMA SkipIs ==
    ASSUME LogOK, NEW t \in Topic, Waiting(t), NEW d \in BOOLEAN, Skip(t, d)
    PROVE  LogOK' /\ Marked(t, d)
<1> DEFINE s == log[t]
           k == ahead[t] + 1
           f == [s[k] EXCEPT !.done = @ \/ d]
           r == [s EXCEPT ![k] = f]
<1>1. /\ k \in 1..Len(s) /\ s \in Seq(Fact) /\ Len(s) <= MaxQueue /\ MaxQueue \in Nat
      /\ s[k] = NextFact(t) /\ s[k] \in Fact
  BY NextFactIs, Setting DEF LogOK
<1>2. log' = [log EXCEPT ![t] = r] /\ ahead' = [ahead EXCEPT ![t] = k]
  BY DEF Skip
<1>3. f \in Fact  BY <1>1 DEF Fact
<1> HIDE DEF s, k, f
<1>4. /\ r \in Seq(Fact) /\ Len(r) = Len(s) /\ r[k] = f
      /\ \A n \in 1..Len(s) : n # k => r[n] = s[n]
  BY <1>1, <1>3
<1> HIDE DEF r
<1>5. /\ log'[t] = r /\ ahead'[t] = k
      /\ \A u \in Topic : u # t => log'[u] = log[u] /\ ahead'[u] = ahead[u]
  <2>1. DOMAIN log = Topic /\ DOMAIN ahead = Topic  BY DEF LogOK
  <2> QED BY ONLY <1>2, <2>1, t \in Topic
<1>6. log' \in [Topic -> Seq(Fact)] /\ ahead' \in [Topic -> Nat]
  <2>1. k \in Nat  BY <1>1
  <2> QED BY <1>2, <1>4, <2>1 DEF LogOK
<1>7. \A u \in Topic : ahead'[u] <= Len(log'[u]) /\ Len(log'[u]) <= MaxQueue
  <2>1. k <= Len(r) /\ Len(r) <= MaxQueue  BY <1>1, <1>4
  <2> QED BY <1>5, <2>1 DEF LogOK
<1>8. LogOK'  BY <1>6, <1>7 DEF LogOK
<1>9. Marked(t, d)  BY <1>1, <1>4, <1>5 DEF Marked, s, k, f
<1> QED BY <1>8, <1>9

LEMMA FinishIs ==
    ASSUME LogOK, CountsOK, NEW t \in Topic, Waiting(t), NEW odd \in SUBSET Upsets,
           Finish(t, odd)
    PROVE  /\ LogOK' /\ CountsOK' /\ upsets \subseteq upsets' /\ odd \subseteq upsets'
           /\ \/ Cut(t) /\ (PassedOver(t) = {} \/ "passed_over" \in upsets')
              \/ Marked(t, TRUE)
<1>1. CASE /\ Commit(t) /\ NoFault
           /\ Upset(odd \union IF PassedOver(t) = {} THEN {} ELSE {"passed_over"})
  <2>1. (odd \union IF PassedOver(t) = {} THEN {} ELSE {"passed_over"}) \in SUBSET Upsets
    BY DEF Upsets
  <2>2. CountsOK' /\ upsets \subseteq upsets'  BY <1>1, <2>1, Blamed
  <2>3. odd \subseteq upsets' /\ (PassedOver(t) = {} \/ "passed_over" \in upsets')
    BY <1>1 DEF Upset
  <2>4. LogOK' /\ Cut(t)  BY <1>1, CommitIs
  <2> QED BY <2>2, <2>3, <2>4
<1>2. CASE Skip(t, TRUE) /\ Fault /\ Upset(odd)
  <2>1. CountsOK' /\ upsets \subseteq upsets'  BY <1>2, Blamed
  <2>2. odd \subseteq upsets'  BY <1>2 DEF Upset
  <2>3. LogOK' /\ Marked(t, TRUE)  BY <1>2, SkipIs
  <2> QED BY <2>1, <2>2, <2>3
<1> QED BY <1>1, <1>2 DEF Finish

-----------------------------------------------------------------------------
(* Types, and both books closed. *)

LEMMA LeastOfTwo ==
    ASSUME NEW a \in Int, NEW b \in Int
    PROVE  Min({a, b}) = IF a <= b THEN a ELSE b
<1> DEFINE m == IF a <= b THEN a ELSE b
<1>1. m \in {a, b} /\ \A y \in {a, b} : m <= y  OBVIOUS
<1>2. \A x \in {a, b} : (\A y \in {a, b} : x <= y) => x = m  OBVIOUS
<1> HIDE DEF m
<1> QED BY <1>1, <1>2 DEF Min, m

LEMMA ElapsedIs ==
    ASSUME tick \in Nat, worked \in [Pip -> 0..MaxTick], NEW p \in Pip
    PROVE  Elapsed(p) \in 0..MaxTicksPerWork
<1>1. worked[p] \in Nat /\ MaxTicksPerWork \in Nat  BY Setting
<1>2. CASE tick > worked[p]
  <2> DEFINE a == tick - worked[p]
  <2>1. a \in Nat /\ a > 0  BY <1>1, <1>2
  <2>2. Min({a, MaxTicksPerWork}) = IF a <= MaxTicksPerWork THEN a ELSE MaxTicksPerWork
    BY <1>1, <2>1, LeastOfTwo
  <2>3. Elapsed(p) = Min({a, MaxTicksPerWork})  BY <1>2 DEF Elapsed
  <2> HIDE DEF a
  <2> QED BY <1>1, <2>1, <2>2, <2>3
<1>3. CASE ~(tick > worked[p])  BY <1>1, <1>3 DEF Elapsed
<1> QED BY <1>2, <1>3

LEMMA EndowmentForIs == ASSUME NEW held \in Int PROVE EndowmentFor(held) \in Nat
<1>1. Capital \div 2 <= Capital /\ Capital \in Nat /\ Capital \div 2 \in Int  BY Setting
<1> QED BY <1>1 DEF EndowmentFor

LEMMA NothingClosed ==
    LET b == [a \in Account |-> 0] IN b \in Book /\ SumOf(b) = 0
<1> DEFINE b == [a \in Account |-> 0]
<1>1. b \in Book /\ DOMAIN b = Account /\ \A a \in Account : b[a] = 0  BY DEF Book
<1> HIDE DEF b
<1>2. SumOver(b, Account) = 0  BY <1>1, Setting, SumZero
<1>3. SumOf(b) = 0  BY <1>1, <1>2 DEF SumOf
<1> QED BY <1>1, <1>3 DEF b

Sound == TypeOK /\ BothBooksClosed

LEMMA SoundInit == ASSUME Init PROVE Sound
<1>1. replica \in Book /\ BankOK /\ SumOf(replica) = 0 /\ SumOf(balance) = 0
  <2>1. replica \in Book /\ balance \in Book /\ SumOf(replica) = 0 /\ SumOf(balance) = 0
    BY NothingClosed DEF Init
  <2>2. twice \in [Pip -> Nat]  BY DEF Init
  <2> QED BY <2>1, <2>2 DEF BankOK
<1>2. CoreOK  BY <1>1, Setting DEF Init, CoreOK
<1>3. QueueOK /\ outbox \in Seq(Fact)  BY Setting DEF Init, QueueOK
<1>4. LogOK
  <2>1. << >> \in Seq(Fact) /\ Len(<< >>) = 0  OBVIOUS
  <2>2. log \in [Topic -> Seq(Fact)] /\ ahead \in [Topic -> Nat]
        /\ \A t \in Topic : log[t] = << >> /\ ahead[t] = 0
    BY <2>1 DEF Init
  <2> QED BY <2>1, <2>2, Setting DEF LogOK
<1>5. worked \in [Pip -> 0..MaxTick]  BY Setting DEF Init
<1>6. CallsOK /\ CountsOK  BY Setting DEF Init, CallsOK, CountsOK
<1> QED BY <1>1, <1>2, <1>3, <1>4, <1>5, <1>6, TypeParts DEF Sound, BothBooksClosed

LEMMA SoundParts ==
    ASSUME CoreOK', QueueOK', outbox' \in Seq(Fact), LogOK', BankOK',
           worked' \in [Pip -> 0..MaxTick], CallsOK', CountsOK',
           SumOf(balance') = 0, SumOf(replica') = 0
    PROVE  Sound'
BY DEF Sound, BothBooksClosed, TypeOK, CoreOK, QueueOK, LogOK, CallsOK, BankOK, CountsOK, Book

\* Every step keeps the types and closes both books, and no upset is forgotten.
LEMMA SoundCore ==
    ASSUME Sound, Core
    PROVE  Sound' /\ upsets \subseteq upsets'
<1>1. /\ CoreOK /\ QueueOK /\ outbox \in Seq(Fact) /\ LogOK /\ BankOK
      /\ worked \in [Pip -> 0..MaxTick] /\ CallsOK /\ CountsOK
      /\ SumOf(balance) = 0 /\ SumOf(replica) = 0
  BY TypeParts DEF Sound, BothBooksClosed
<1>2. ASSUME NEW dying \in SUBSET alive, NEW here,
             NEW hungry \in SUBSET (alive \ dying), Tick(here, dying, hungry)
      PROVE  Sound' /\ upsets \subseteq upsets'
  <2>1. PICK e \in [Pip -> Int] : Ticked(dying, e)  BY <1>2, TickIs DEF Sound
  <2>2. /\ lived + tick < MaxTick /\ tick' = tick + 1 /\ intents' = << >>
        /\ UNCHANGED <<lived, log, ahead, balance, twice, worked, payroll, endowment, escheat,
                       faults>>
    BY <1>2 DEF Tick, kafka, bank, calls
  <2>3. CoreOK'  BY <1>1, <2>1, <2>2, Setting DEF CoreOK, Ticked
  <2>4. QueueOK' /\ outbox' \in Seq(Fact)
    BY <2>1, <2>2, Setting DEF QueueOK, Ticked
  <2>5. LogOK' /\ CallsOK' /\ BankOK' /\ worked' \in [Pip -> 0..MaxTick]
    BY <1>1, <2>2 DEF LogOK, CallsOK, BankOK
  <2>6. CountsOK' /\ upsets \subseteq upsets'
    BY <1>1, <2>1, <2>2 DEF CountsOK, Ticked
  <2>7. SumOf(balance') = 0 /\ SumOf(replica') = 0  BY <1>1, <2>1, <2>2 DEF Ticked
  <2> QED BY <2>3, <2>4, <2>5, <2>6, <2>7, SoundParts
<1>3. ASSUME Publish PROVE Sound' /\ upsets \subseteq upsets'
  <2>1. /\ outbox # << >> /\ outbox' = Tail(outbox)
        /\ UNCHANGED <<tick, alive, built, replica, lived, intents, ahead, balance, twice, keys,
                       worked, payroll, endowment, escheat>>
    BY <1>3 DEF Publish, core, bank, calls
  <2>2. Head(outbox) \in Fact /\ outbox' \in Seq(Fact)  BY <1>1, <2>1
  <2>3. LogOK' /\ CountsOK' /\ upsets \subseteq upsets'
    <3> DEFINE f == Head(outbox)
               s == log[f.topic]
    <3>1. f.topic \in Topic  BY <2>2 DEF Fact
    <3>2. s \in Seq(Fact) /\ Len(s) \in Nat /\ ahead[f.topic] <= Len(s)
      BY <1>1, <3>1 DEF LogOK
    <3>3. CASE /\ Len(s) < MaxQueue /\ log' = [log EXCEPT ![f.topic] = Append(s, f)]
               /\ NoFault /\ NoUpset
      <4>1. Append(s, f) \in Seq(Fact) /\ Len(Append(s, f)) = Len(s) + 1
        BY <2>2, <3>2
      <4> DEFINE r == Append(s, f)
                 t == f.topic
      <4>4. r \in Seq(Fact) /\ Len(r) <= MaxQueue /\ ahead[t] <= Len(r) /\ ahead[t] \in Nat
        BY <1>1, <3>1, <3>2, <3>3, <4>1, Setting DEF LogOK
      <4> HIDE DEF f, s, r, t
      <4>5. log' = [log EXCEPT ![t] = r] /\ t \in Topic /\ ahead' = ahead
        BY <2>1, <3>1, <3>3 DEF r, t
      <4>6. /\ log \in [Topic -> Seq(Fact)] /\ ahead \in [Topic -> Nat]
            /\ \A u \in Topic : ahead[u] <= Len(log[u]) /\ Len(log[u]) <= MaxQueue
        BY <1>1 DEF LogOK
      <4>7. log'[t] = r /\ \A u \in Topic : u # t => log'[u] = log[u]
        BY <4>5, <4>6
      <4>8. log' \in [Topic -> Seq(Fact)]  BY <4>4, <4>5, <4>6
      <4>9. \A u \in Topic : ahead'[u] <= Len(log'[u]) /\ Len(log'[u]) <= MaxQueue
        BY <4>4, <4>5, <4>6, <4>7
      <4>2. LogOK'  BY <4>5, <4>6, <4>8, <4>9 DEF LogOK
      <4>3. CountsOK' /\ upsets \subseteq upsets'
        BY <1>1, <3>3 DEF CountsOK, NoFault, NoUpset
      <4> QED BY <4>2, <4>3
    <3>4. CASE Fault /\ Upset({"lost"}) /\ UNCHANGED log
      <4>1. {"lost"} \in SUBSET Upsets  BY DEF Upsets
      <4>2. CountsOK' /\ upsets \subseteq upsets'  BY <1>1, <3>4, <4>1, Blamed
      <4>3. LogOK'  BY <1>1, <2>1, <3>4 DEF LogOK
      <4> QED BY <4>2, <4>3
    <3> QED BY <1>3, <3>3, <3>4 DEF Publish
  <2>4. CoreOK' /\ QueueOK' /\ CallsOK' /\ BankOK'
        /\ worked' \in [Pip -> 0..MaxTick] /\ SumOf(balance') = 0 /\ SumOf(replica') = 0
    BY <1>1, <2>1 DEF CoreOK, QueueOK, CallsOK, BankOK
  <2> QED BY <2>2, <2>3, <2>4, SoundParts
<1>4. ASSUME CoreRestarts PROVE Sound' /\ upsets \subseteq upsets'
  <2>1. /\ tick' = 0 /\ alive' = Pip /\ built' = FALSE /\ lived' = lived + tick
        /\ replica' = [a \in Account |-> 0] /\ intents' = << >> /\ outbox' = << >>
        /\ UNCHANGED <<log, ahead, balance, twice, keys, worked, payroll, endowment, escheat>>
    BY <1>4 DEF CoreRestarts, kafka, bank, calls
  <2>2. {"restart"} \in SUBSET Upsets  BY DEF Upsets
  <2>3. CountsOK' /\ upsets \subseteq upsets'
    BY <1>1, <1>4, <2>2, Blamed DEF CoreRestarts
  <2>4. replica' \in Book /\ SumOf(replica') = 0  BY <2>1, NothingClosed
  <2>5. CoreOK'
    <3>1. /\ lived \in Nat /\ tick \in Nat /\ lived + tick <= MaxTick
      BY <1>1 DEF CoreOK
    <3>2. tick' \in Nat /\ lived' \in Nat /\ lived' + tick' <= MaxTick
      BY <2>1, <3>1, Setting
    <3> QED BY <2>1, <2>4, <3>2 DEF CoreOK
  <2>6. QueueOK' /\ outbox' \in Seq(Fact)  BY <2>1, Setting DEF QueueOK
  <2>7. LogOK' /\ CallsOK' /\ BankOK' /\ worked' \in [Pip -> 0..MaxTick]
        /\ SumOf(balance') = 0
    BY <1>1, <2>1 DEF LogOK, CallsOK, BankOK
  <2> QED BY <2>3, <2>4, <2>5, <2>6, <2>7, SoundParts
<1> QED
  <2>1. CASE Publish  BY <1>3, <2>1
  <2>2. CASE CoreRestarts  BY <1>4, <2>2
  <2>3. CASE \E dying \in SUBSET alive :
                \E here \in SUBSET alive, hungry \in SUBSET (alive \ dying) :
                   Tick(here, dying, hungry)
    BY <1>2, <2>3
  <2> QED BY <2>1, <2>2, <2>3 DEF Core

\* What every step finds.
Found ==
    /\ CoreOK /\ QueueOK /\ outbox \in Seq(Fact) /\ LogOK /\ BankOK
    /\ worked \in [Pip -> 0..MaxTick] /\ CallsOK /\ CountsOK
    /\ SumOf(balance) = 0 /\ SumOf(replica) = 0

LEMMA SoundIs == Sound <=> Found
BY TypeParts DEF Sound, Found, BothBooksClosed

LEMMA AgreedCalls ==
    /\ \A c \in Wages, n \in Nat, s \in Stage :
          [stage |-> s, tick |-> n, credits |-> c] \in Payroll
    /\ \A n, m \in Nat, s \in Stage : [stage |-> s, tick |-> n, amount |-> m] \in Endowment
    /\ "bank" \in Stage /\ "mirror" \in Stage
BY DEF Payroll, Endowment, Stage

LEMMA CallsAre ==
    ASSUME CallsOK
    PROVE  /\ payroll # Idle => /\ payroll.credits \in Wages /\ payroll.tick \in Nat
                                /\ [payroll EXCEPT !.stage = "mirror"] \in Payroll
                                /\ [payroll EXCEPT !.stage = "mirror"].credits = payroll.credits
                                /\ [payroll EXCEPT !.stage = "mirror"].stage = "mirror"
           /\ endowment # Idle => /\ endowment.amount \in Nat /\ endowment.tick \in Nat
                                  /\ [endowment EXCEPT !.stage = "mirror"] \in Endowment
                                  /\ [endowment EXCEPT !.stage = "mirror"].amount
                                        = endowment.amount
                                  /\ [endowment EXCEPT !.stage = "mirror"].stage = "mirror"
           /\ escheat # Idle => /\ escheat.pip \in Pip /\ escheat.tick \in Nat
                                /\ escheat.amount \in Nat \ {0}
BY DEF CallsOK, Payroll, Endowment, Inheritance, Stage

\* A call of the gateway that was answered, or not.
LEMMA SoundCalls ==
    ASSUME Found, UNCHANGED <<core, outbox, kafka, worked, escheat>>,
           QueueOK', BankOK', SumOf(balance') = 0, CountsOK',
           payroll' \in Payroll \union {Idle}, endowment' \in Endowment \union {Idle}
    PROVE  Sound'
<1>1. CoreOK' /\ LogOK' /\ outbox' \in Seq(Fact) /\ worked' \in [Pip -> 0..MaxTick]
      /\ SumOf(replica') = 0
  BY DEF Found, core, kafka, CoreOK, LogOK
<1>2. CallsOK'  BY DEF Found, CallsOK
<1> QED BY <1>1, <1>2, SoundParts

LEMMA SoundGateway ==
    ASSUME Sound, Gateway
    PROVE  Sound' /\ upsets \subseteq upsets'
<1>1. Found  BY SoundIs
<1>2. /\ QueueOK /\ BankOK /\ SumOf(balance) = 0 /\ CountsOK /\ CallsOK
      /\ payroll \in Payroll \union {Idle} /\ endowment \in Endowment \union {Idle}
      /\ tick \in Nat /\ worked \in [Pip -> 0..MaxTick] /\ alive \subseteq Pip
  BY <1>1 DEF Found, CallsOK, CoreOK
<1>3. ASSUME Register PROVE Sound' /\ upsets \subseteq upsets'
  <2>1. /\ intents' = <<[op |-> "register"]>>
        /\ UNCHANGED <<core, outbox, kafka, worked, escheat, balance, twice, payroll, endowment,
                       faults, upsets>>
    BY <1>3 DEF Register, bank, calls
  <2>2. QueueOK'
    <3>1. [op |-> "register"] \in Intent  BY DEF Intent
    <3>2. MaxQueue \in Nat \ {0}  BY Setting
    <3>3. <<[op |-> "register"]>> \in Seq(Intent) /\ Len(<<[op |-> "register"]>>) = 1
      BY <3>1
    <3> QED BY <2>1, <3>2, <3>3 DEF QueueOK
  <2>3. CountsOK' /\ upsets \subseteq upsets' /\ BankOK'
    BY <1>2, <2>1 DEF CountsOK, BankOK
  <2> QED BY <1>1, <1>2, <2>1, <2>2, <2>3, SoundCalls
<1>4. ASSUME NEW S \in SUBSET alive, Cycle(S) PROVE Sound' /\ upsets \subseteq upsets'
  <2> DEFINE owed == {p \in S : Elapsed(p) > 0}
             c == [p \in owed |-> Elapsed(p)]
  <2>1. /\ UNCHANGED <<core, outbox, kafka, escheat, intents, balance, twice, endowment, faults,
                       upsets>>
        /\ worked' = [p \in Pip |-> IF p \in S THEN tick ELSE worked[p]]
        /\ payroll' = IF owed = {} THEN Idle
                      ELSE [stage |-> "bank", tick |-> tick, credits |-> c]
    BY <1>4 DEF Cycle, bank
  <2>2. c \in Wages
    <3>1. \A p \in owed : Elapsed(p) \in 1..MaxTicksPerWork
      <4>1. \A p \in S : Elapsed(p) \in 0..MaxTicksPerWork  BY <1>2, ElapsedIs
      <4> QED BY <4>1, Setting
    <3>2. owed \in SUBSET Pip  BY <1>2
    <3> HIDE DEF owed
    <3> QED BY <3>1, <3>2 DEF Wages
  <2> HIDE DEF c, owed
  <2>3. payroll' \in Payroll \union {Idle}  BY <1>2, <2>1, <2>2, AgreedCalls
  <2>4. worked' \in [Pip -> 0..MaxTick]
    <3>1. tick \in 0..MaxTick  BY <1>1, Setting DEF Found, CoreOK
    <3> QED BY <1>2, <2>1, <3>1
  <2>5. CoreOK' /\ LogOK' /\ outbox' \in Seq(Fact) /\ SumOf(replica') = 0 /\ QueueOK'
        /\ BankOK' /\ SumOf(balance') = 0
    BY <1>1, <2>1 DEF Found, core, kafka, CoreOK, LogOK, QueueOK, BankOK
  <2>6. CallsOK'  BY <1>1, <2>1, <2>3 DEF Found, CallsOK
  <2>7. CountsOK' /\ upsets \subseteq upsets'  BY <1>2, <2>1 DEF CountsOK
  <2> QED BY <2>4, <2>5, <2>6, <2>7, SoundParts
<1>5. ASSUME PayWages PROVE Sound' /\ upsets \subseteq upsets'
  <2> DEFINE key == <<Farm, "batch", payroll.tick, "WAGE">>
  <2>1. /\ payroll # Idle
        /\ UNCHANGED <<core, intents, outbox, kafka, worked, endowment, escheat>>
    BY <1>5 DEF PayWages
  <2>2. payroll.credits \in Wages /\ [payroll EXCEPT !.stage = "mirror"] \in Payroll
    BY <1>2, <2>1, CallsAre
  <2>3. Move(key, Farm, payroll.credits) \/ UNCHANGED <<balance, twice>>
    BY <1>5 DEF PayWages, bank
  <2>4. BankOK' /\ SumOf(balance') = 0
    BY <1>2, <2>2, <2>3, MoveIs, CreditsListed, Setting DEF BankOK
  <2>5. CountsOK' /\ upsets \subseteq upsets'
    <3>1. {"lost"} \in SUBSET Upsets /\ {"replayed"} \in SUBSET Upsets  BY DEF Upsets
    <3>2. Fault \/ NoFault  BY <1>5 DEF PayWages
    <3>3. Upset({"lost"}) \/ Upset({"replayed"}) \/ NoUpset  BY <1>5 DEF PayWages
    <3> QED BY <1>2, <3>1, <3>2, <3>3, Blamed
  <2>6. payroll' \in Payroll \union {Idle}  BY <1>5, <2>2 DEF PayWages
  <2>7. QueueOK' /\ endowment' \in Endowment \union {Idle}  BY <1>2, <2>1 DEF QueueOK
  <2> QED BY <1>1, <2>1, <2>4, <2>5, <2>6, <2>7, SoundCalls
<1>6. ASSUME MirrorWages PROVE Sound' /\ upsets \subseteq upsets'
  <2> DEFINE i == [op |-> "credit", credits |-> payroll.credits]
  <2>1. /\ payroll # Idle /\ Submit(i) /\ payroll' = Idle
        /\ UNCHANGED <<core, outbox, kafka, balance, twice, worked, endowment, escheat>>
    BY <1>6 DEF MirrorWages, bank
  <2>2. i \in Intent  BY <1>2, <2>1, CallsAre DEF Intent
  <2> HIDE DEF i
  <2>3. QueueOK' /\ CountsOK' /\ upsets \subseteq upsets'  BY <1>2, <2>1, <2>2, SubmitIs
  <2>4. BankOK'  BY <1>2, <2>1 DEF BankOK
  <2> QED BY <1>1, <1>2, <2>1, <2>3, <2>4, SoundCalls
<1>7. ASSUME Endow PROVE Sound' /\ upsets \subseteq upsets'
  <2>1. /\ endowment' = [stage |-> "bank", tick |-> tick,
                         amount |-> EndowmentFor(balance[Farm])]
        /\ UNCHANGED <<core, outbox, kafka, worked, escheat, intents, balance, twice, payroll,
                       faults, upsets>>
    BY <1>7 DEF Endow, bank
  <2>2. EndowmentFor(balance[Farm]) \in Nat
    BY <1>2, EndowmentForIs, Setting DEF Book, BankOK
  <2>3. endowment' \in Endowment \union {Idle}  BY <1>2, <2>1, <2>2, AgreedCalls
  <2>4. CountsOK' /\ upsets \subseteq upsets' /\ QueueOK' /\ BankOK'
    BY <1>2, <2>1 DEF CountsOK, QueueOK, BankOK
  <2> QED BY <1>1, <1>2, <2>1, <2>3, <2>4, SoundCalls
<1>8. ASSUME IssueEndowment PROVE Sound' /\ upsets \subseteq upsets'
  <2> DEFINE key == <<Treasury, Farm, endowment.tick, "ISSUANCE">>
             c == One(Farm, endowment.amount)
  <2>1. /\ endowment # Idle
        /\ UNCHANGED <<core, intents, outbox, kafka, worked, payroll, escheat>>
    BY <1>8 DEF IssueEndowment
  <2>2. endowment.amount \in Nat /\ [endowment EXCEPT !.stage = "mirror"] \in Endowment
    BY <1>2, <2>1, CallsAre
  <2>3. Move(key, Treasury, c) \/ UNCHANGED <<balance, twice>>
    BY <1>8 DEF IssueEndowment, bank
  <2>4. Listed(c)  BY <2>2, CreditsListed, Setting DEF Coins
  <2> HIDE DEF c, key
  <2>5. BankOK' /\ SumOf(balance') = 0
    BY <1>2, <2>3, <2>4, MoveIs, Setting DEF BankOK
  <2>6. CountsOK' /\ upsets \subseteq upsets'
    <3>1. {"lost"} \in SUBSET Upsets /\ {"replayed"} \in SUBSET Upsets  BY DEF Upsets
    <3>2. Fault \/ NoFault  BY <1>8 DEF IssueEndowment
    <3>3. Upset({"lost"}) \/ Upset({"replayed"}) \/ NoUpset  BY <1>8 DEF IssueEndowment
    <3> QED BY <1>2, <3>1, <3>2, <3>3, Blamed
  <2>7. endowment' \in Endowment \union {Idle}  BY <1>8, <2>2 DEF IssueEndowment
  <2>8. QueueOK' /\ payroll' \in Payroll \union {Idle}  BY <1>2, <2>1 DEF QueueOK
  <2> QED BY <1>1, <2>1, <2>5, <2>6, <2>7, <2>8, SoundCalls
<1>9. ASSUME MirrorEndowment PROVE Sound' /\ upsets \subseteq upsets'
  <2> DEFINE i == [op |-> "issue", amount |-> endowment.amount]
  <2>1. /\ endowment # Idle /\ Submit(i) /\ endowment' = Idle
        /\ UNCHANGED <<core, outbox, kafka, balance, twice, worked, payroll, escheat>>
    BY <1>9 DEF MirrorEndowment, bank
  <2>2. i \in Intent  BY <1>2, <2>1, CallsAre DEF Intent
  <2> HIDE DEF i
  <2>3. QueueOK' /\ CountsOK' /\ upsets \subseteq upsets'  BY <1>2, <2>1, <2>2, SubmitIs
  <2>4. BankOK'  BY <1>2, <2>1 DEF BankOK
  <2> QED BY <1>1, <1>2, <2>1, <2>3, <2>4, SoundCalls
<1>10. ASSUME NEW p \in Pip, Buy(p) PROVE Sound' /\ upsets \subseteq upsets'
  <2> DEFINE i == [op |-> "buy", pip |-> p]
  <2>1. /\ Submit(i)
        /\ UNCHANGED <<core, outbox, kafka, balance, twice, worked, escheat, payroll, endowment>>
    BY <1>10 DEF Buy, bank, calls
  <2>2. i \in Intent  BY DEF Intent
  <2> HIDE DEF i
  <2>3. QueueOK' /\ CountsOK' /\ upsets \subseteq upsets'  BY <1>2, <2>1, <2>2, SubmitIs
  <2>4. BankOK'  BY <1>2, <2>1 DEF BankOK
  <2> QED BY <1>1, <1>2, <2>1, <2>3, <2>4, SoundCalls
<1> QED
  BY <1>3, <1>4, <1>5, <1>6, <1>7, <1>8, <1>9, <1>10 DEF Gateway, PlayerBuys

\* A fact was looked at.
LEMMA SoundHandled ==
    ASSUME Found, UNCHANGED <<core, intents, outbox, worked, payroll, endowment>>,
           LogOK', BankOK', SumOf(balance') = 0, CountsOK',
           escheat' \in Inheritance \union {Idle}
    PROVE  Sound'
<1>1. CoreOK' /\ QueueOK' /\ outbox' \in Seq(Fact) /\ worked' \in [Pip -> 0..MaxTick]
      /\ SumOf(replica') = 0
  BY DEF Found, core, CoreOK, QueueOK
<1>2. CallsOK'  BY DEF Found, CallsOK
<1> QED BY <1>1, <1>2, SoundParts

LEMMA EstateListed ==
    ASSUME CallsOK, escheat # Idle
    PROVE  Listed(Estate) /\ escheat.pip \in Account
BY CallsAre, CreditsListed, Setting DEF Estate, Coins

LEMMA SoundConsumers ==
    ASSUME Sound, EscheatInHand, Consumers
    PROVE  Sound' /\ upsets \subseteq upsets'
<1>1. Found  BY SoundIs
<1>2. /\ LogOK /\ BankOK /\ SumOf(balance) = 0 /\ CountsOK /\ CallsOK
      /\ escheat \in Inheritance \union {Idle}
      /\ Idle \in Inheritance \union {Idle}
      /\ "purchases" \in Topic /\ "lifecycle" \in Topic
  BY <1>1, Setting DEF Found, CallsOK
<1>3. ASSUME NEW f PROVE Overtaken(f) \in SUBSET Upsets  BY DEF Overtaken, Upsets
<1>4. ASSUME BookPurchase PROVE Sound' /\ upsets \subseteq upsets'
  <2> DEFINE f == NextFact("purchases")
  <2>1. /\ Waiting("purchases") /\ Post(f) /\ Finish("purchases", Overtaken(f))
        /\ UNCHANGED <<core, intents, outbox, worked, payroll, endowment, escheat>>
    BY <1>4 DEF BookPurchase, calls
  <2>2. f \in Fact  BY <1>2, <2>1, NextFactIs
  <2> HIDE DEF f
  <2>3. BankOK' /\ SumOf(balance') = 0  BY <1>2, <2>1, <2>2, PostIs
  <2>4. LogOK' /\ CountsOK' /\ upsets \subseteq upsets'
    BY <1>2, <1>3, <2>1, FinishIs
  <2>5. escheat' \in Inheritance \union {Idle}  BY <1>2, <2>1
  <2> QED BY <1>1, <2>1, <2>3, <2>4, <2>5, SoundHandled
<1>5. ASSUME EscheatNothing PROVE Sound' /\ upsets \subseteq upsets'
  <2>1. /\ Waiting("lifecycle") /\ Finish("lifecycle", {})
        /\ UNCHANGED <<core, intents, outbox, balance, twice, worked, payroll, endowment, escheat>>
    BY <1>5 DEF EscheatNothing, calls, bank
  <2>2. {} \in SUBSET Upsets  OBVIOUS
  <2>3. LogOK' /\ CountsOK' /\ upsets \subseteq upsets'
    BY <1>2, <2>1, <2>2, FinishIs
  <2>4. BankOK' /\ SumOf(balance') = 0 /\ escheat' \in Inheritance \union {Idle}
    BY <1>2, <2>1 DEF BankOK
  <2> QED BY <1>1, <2>1, <2>3, <2>4, SoundHandled
<1>6. ASSUME EscheatReads PROVE Sound' /\ upsets \subseteq upsets'
  <2> DEFINE f == NextFact("lifecycle")
  <2>1. /\ Waiting("lifecycle") /\ balance[f.pip] > 0
        /\ escheat' = [pip |-> f.pip, tick |-> f.tick, amount |-> balance[f.pip]]
        /\ UNCHANGED <<core, intents, outbox, log, ahead, balance, twice, worked, payroll,
                       endowment, faults, upsets>>
    BY <1>6 DEF EscheatReads, bank, kafka
  <2>2. f.pip \in Pip /\ f.tick \in Nat /\ balance[f.pip] \in Int
    <3>1. f \in Fact  BY <1>2, <2>1, NextFactIs
    <3> QED BY <1>2, <3>1, Setting DEF Fact, Book, BankOK
  <2> HIDE DEF f
  <2>3. escheat' \in Inheritance \union {Idle}  BY <2>1, <2>2 DEF Inheritance
  <2>4. LogOK' /\ CountsOK' /\ upsets \subseteq upsets' /\ BankOK'
        /\ SumOf(balance') = 0
    BY <1>2, <2>1 DEF LogOK, CountsOK, BankOK
  <2> QED BY <1>1, <2>1, <2>3, <2>4, SoundHandled
<1>7. ASSUME EscheatTransfers PROVE Sound' /\ upsets \subseteq upsets'
  <2> DEFINE odd == IF Answer(EscheatKey, escheat.pip, Estate) = "paid"
                    THEN {} ELSE {"escheat_refused"}
  <2>1. /\ escheat # Idle /\ Move(EscheatKey, escheat.pip, Estate)
        /\ Finish("lifecycle", odd) /\ escheat' = Idle
        /\ UNCHANGED <<core, intents, outbox, worked, payroll, endowment>>
    BY <1>7 DEF EscheatTransfers
  <2>2. odd \in SUBSET Upsets  BY DEF Upsets
  <2> HIDE DEF odd
  <2>3. BankOK' /\ SumOf(balance') = 0
    BY <1>2, <2>1, MoveIs, EstateListed
  <2>5. Waiting("lifecycle")  BY <2>1 DEF EscheatInHand
  <2>4. LogOK' /\ CountsOK' /\ upsets \subseteq upsets'
    BY <1>2, <2>1, <2>2, <2>5, FinishIs
  <2>6. escheat' \in Inheritance \union {Idle}  BY <2>1
  <2> QED BY <1>1, <2>1, <2>3, <2>4, <2>6, SoundHandled
<1>8. ASSUME NEW t \in Topic, HandlingFails(t) PROVE Sound' /\ upsets \subseteq upsets'
  <2>1. /\ Waiting(t) /\ Fault /\ (escheat' = Idle \/ escheat' = escheat)
        /\ UNCHANGED <<core, intents, outbox, worked, payroll, endowment>>
    BY <1>8 DEF HandlingFails
  <2>2. NextFact(t) \in Fact  BY <1>2, <2>1, NextFactIs
  <2>3. BankOK' /\ SumOf(balance') = 0
    <3>1. CASE UNCHANGED bank  BY <1>2, <3>1 DEF bank, BankOK
    <3>2. CASE Post(NextFact(t))  BY <1>2, <2>2, <3>2, PostIs
    <3>3. CASE escheat # Idle /\ Move(EscheatKey, escheat.pip, Estate)
      BY <1>2, <3>3, MoveIs, EstateListed
    <3> QED BY <1>8, <3>1, <3>2, <3>3 DEF HandlingFails
  <2>4. LogOK'
    <3>1. Skip(t, TRUE) \/ Skip(t, FALSE)  BY <1>8 DEF HandlingFails
    <3>2. TRUE \in BOOLEAN /\ FALSE \in BOOLEAN  OBVIOUS
    <3> QED BY <1>2, <2>1, <3>1, <3>2, SkipIs
  <2>5. CountsOK' /\ upsets \subseteq upsets'
    <3>1. NoUpset \/ Upset(Overtaken(NextFact(t)))  BY <1>8 DEF HandlingFails
    <3> QED BY <1>2, <1>3, <2>1, <3>1, Blamed
  <2>6. escheat' \in Inheritance \union {Idle}  BY <1>2, <2>1
  <2> QED BY <1>1, <2>1, <2>3, <2>4, <2>5, <2>6, SoundHandled
<1>9. ASSUME BankRestarts PROVE Sound' /\ upsets \subseteq upsets'
  <2>1. /\ NoFault /\ NoUpset /\ ahead' = [t \in Topic |-> 0] /\ escheat' = Idle
        /\ UNCHANGED <<core, intents, outbox, log, balance, twice, worked, payroll, endowment>>
    BY <1>9 DEF BankRestarts, bank
  <2>2. LogOK'  BY <1>2, <2>1 DEF LogOK
  <2>3. CountsOK' /\ upsets \subseteq upsets'
    <3>1. {} \in SUBSET Upsets  OBVIOUS
    <3> QED BY <1>2, <2>1, <3>1, Blamed
  <2>4. BankOK' /\ SumOf(balance') = 0 /\ escheat' \in Inheritance \union {Idle}
    BY <1>2, <2>1 DEF BankOK
  <2> QED BY <1>1, <2>1, <2>2, <2>3, <2>4, SoundHandled
<1> QED BY <1>4, <1>5, <1>6, <1>7, <1>8, <1>9 DEF Consumers

LEMMA SoundStep ==
    ASSUME Sound, EscheatInHand, [Next]_vars
    PROVE  Sound' /\ upsets \subseteq upsets'
<1>1. CASE UNCHANGED vars
  <2>1. Sound' <=> Sound
    BY <1>1 DEF vars, core, kafka, bank, calls, Sound, TypeOK, BothBooksClosed
  <2> QED BY <1>1, <2>1 DEF vars
<1>2. CASE Next  BY <1>2, SoundCore, SoundGateway, SoundConsumers DEF Next
<1> QED BY <1>1, <1>2


-----------------------------------------------------------------------------
(* What the queues hold, and what the core does not owe. *)

Grounded ==
    EscheatInHand /\ InTheirTopics /\ TheDeadAreDead /\ NoDebtInTheCore /\ StillBuilt

\* Whatever is in a topic was there before.
FromBefore(t) ==
    \A n \in DOMAIN log'[t] : \E m \in DOMAIN log[t] :
        log'[t][n].topic = log[t][m].topic /\ log'[t][n].pip = log[t][m].pip

LEMMA Lookup == ASSUME NEW s \in Seq(Fact) PROVE DOMAIN s = 1..Len(s) /\ Len(s) \in Nat
OBVIOUS

LEMMA CutKeeps ==
    ASSUME LogOK, NEW t \in Topic, Waiting(t), Cut(t)
    PROVE  \A u \in Topic : FromBefore(u)
<1>1. ASSUME NEW u \in Topic, u # t PROVE FromBefore(u)
  BY <1>1 DEF Cut, FromBefore
<1>2. FromBefore(t)
  <2> DEFINE s == log[t]
             k == ahead[t] + 1
             r == SubSeq(s, k + 1, Len(s))
  <2>1. s \in Seq(Fact) /\ k \in 1..Len(s) /\ k + 1 = ahead[t] + 2  BY NextFactIs
  <2>2. log'[t] = r  BY <2>1 DEF Cut
  <2> HIDE DEF s, k
  <2>3. /\ DOMAIN r = 1..Len(s) - k /\ DOMAIN s = 1..Len(s) /\ Len(s) \in Nat
        /\ \A n \in 1..Len(s) - k : r[n] = s[k + n]
    BY <2>1
  <2> HIDE DEF r
  <2>4. ASSUME NEW n \in DOMAIN r PROVE \E m \in DOMAIN s : r[n] = s[m]
    <3>1. k + n \in DOMAIN s /\ r[n] = s[k + n]  BY <2>1, <2>3
    <3> QED BY <3>1
  <2> QED BY <2>2, <2>4 DEF FromBefore, s
<1> QED BY <1>1, <1>2

LEMMA MarkedKeeps ==
    ASSUME LogOK, LogOK', NEW t \in Topic, Waiting(t), NEW d, Marked(t, d)
    PROVE  \A u \in Topic : FromBefore(u)
<1>1. ASSUME NEW u \in Topic, u # t PROVE FromBefore(u)
  BY <1>1 DEF Marked, FromBefore
<1>2. FromBefore(t)
  <2> DEFINE s == log[t]
             k == ahead[t] + 1
             r == log'[t]
  <2>1. s \in Seq(Fact) /\ k \in 1..Len(s) /\ NextFact(t) = s[k]  BY NextFactIs
  <2>2. r \in Seq(Fact) /\ Len(r) = Len(s)  BY DEF LogOK, Marked
  <2>3. DOMAIN s = 1..Len(s) /\ DOMAIN r = 1..Len(s)  BY <2>1, <2>2, Lookup
  <2>4. ASSUME NEW n \in 1..Len(s) PROVE r[n].topic = s[n].topic /\ r[n].pip = s[n].pip
    <3>1. CASE n # k  BY <3>1 DEF Marked
    <3>2. CASE n = k
      <4>1. r[n] = [s[n] EXCEPT !.done = @ \/ d]  BY <2>1, <3>2 DEF Marked
      <4>2. s[n] \in Fact  BY <2>1
      <4> QED BY <4>1, <4>2 DEF Fact
    <3> QED BY <3>1, <3>2
  <2> QED BY <2>3, <2>4 DEF FromBefore
<1> QED BY <1>1, <1>2

LEMMA KeptInTopics ==
    ASSUME \A u \in Topic : FromBefore(u), InTheirTopics
    PROVE  InTheirTopics'
BY DEF FromBefore, InTheirTopics

LEMMA KeptDead ==
    ASSUME \A u \in Topic : FromBefore(u), UNCHANGED <<alive, outbox>>,
           upsets \subseteq upsets', TheDeadAreDead
    PROVE  TheDeadAreDead'
BY Setting DEF FromBefore, TheDeadAreDead

\* The core and what it published stay as they were.
LEMMA KeptCore ==
    ASSUME UNCHANGED core, upsets \subseteq upsets', NoDebtInTheCore, StillBuilt
    PROVE  NoDebtInTheCore' /\ StillBuilt'
BY DEF core, NoDebtInTheCore, StillBuilt

LEMMA GroundedCore ==
    ASSUME Sound, Grounded, Core, Sound', upsets \subseteq upsets'
    PROVE  Grounded'
<1>1. Found  BY SoundIs
<1>2. /\ LogOK /\ outbox \in Seq(Fact) /\ alive \subseteq Pip /\ CountsOK
      /\ replica \in Book /\ built \in BOOLEAN
  BY <1>1 DEF Found, CoreOK
<1>3. ASSUME NEW dying \in SUBSET alive, NEW here,
             NEW hungry \in SUBSET (alive \ dying), Tick(here, dying, hungry)
      PROVE  Grounded'
  <2>1. PICK e \in [Pip -> Int] : Ticked(dying, e)  BY <1>3, TickIs DEF Sound
  <2>2. UNCHANGED <<log, ahead, escheat>>  BY <1>3 DEF Tick, kafka, calls
  <2>3. EscheatInHand' /\ InTheirTopics'
    BY <2>2 DEF Grounded, EscheatInHand, InTheirTopics, Waiting, NextFact
  <2>4. alive' = alive \ dying /\ NoneOf(outbox', alive')  BY <2>1 DEF Ticked
  <2>5. TheDeadAreDead'
    BY <2>2, <2>4 DEF Grounded, TheDeadAreDead, NoneOf
  <2>6. NoDebtInTheCore'
    <3>1. ASSUME NEW p \in Pip PROVE replica'[p] >= 0 /\ (p \notin alive' => replica'[p] = 0)
      <4>1. replica[p] >= 0 /\ (p \notin alive => replica[p] = 0)
        BY DEF Grounded, NoDebtInTheCore
      <4>2. replica'[p] >= 0  BY <2>1, <4>1 DEF Ticked
      <4>3. CASE p \in dying  BY <2>1, <4>2, <4>3 DEF Ticked
      <4>4. CASE p \notin dying
        <5>1. p \notin alive' => p \in Pip \ alive  BY <2>4, <4>4
        <5>2. p \in Pip \ alive => replica'[p] = replica[p]  BY <2>1 DEF Ticked
        <5> QED BY <4>1, <4>2, <5>1, <5>2
      <4> QED BY <4>3, <4>4
    <3> QED BY <3>1 DEF NoDebtInTheCore
  <2>7. StillBuilt'  BY <2>1 DEF Grounded, StillBuilt, Ticked
  <2> QED BY <2>3, <2>5, <2>6, <2>7 DEF Grounded
<1>4. ASSUME Publish PROVE Grounded'
  <2> DEFINE f == Head(outbox)
  <2>1. /\ outbox # << >> /\ outbox' = Tail(outbox)
        /\ UNCHANGED <<core, ahead, escheat>>
    BY <1>4 DEF Publish, calls
  <2>2. /\ f \in Fact /\ f = outbox[1] /\ 1 \in DOMAIN outbox
        /\ \A n \in DOMAIN outbox' : n + 1 \in DOMAIN outbox /\ outbox'[n] = outbox[n + 1]
    BY <1>2, <2>1
  <2>3. NoDebtInTheCore' /\ StillBuilt'  BY <2>1, KeptCore DEF Grounded
  <2>4. CASE log' = log
    <3>1. EscheatInHand' /\ InTheirTopics'
      BY <2>1, <2>4 DEF Grounded, EscheatInHand, InTheirTopics, Waiting, NextFact
    <3>2. TheDeadAreDead'
      BY <2>1, <2>2, <2>4 DEF Grounded, TheDeadAreDead, core
    <3> QED BY <2>3, <3>1, <3>2 DEF Grounded
  <2>5. CASE log' = [log EXCEPT ![f.topic] = Append(@, f)]
    <3> DEFINE t == f.topic
               s == log[t]
               r == Append(s, f)
    <3>1. t \in Topic /\ s \in Seq(Fact)  BY <1>2, <2>2 DEF Fact, LogOK
    <3>2. log'[t] = r /\ \A u \in Topic : u # t => log'[u] = log[u]
      BY <1>2, <2>5, <3>1 DEF LogOK
    <3>3. /\ DOMAIN s = 1..Len(s) /\ DOMAIN r = 1..Len(s) + 1 /\ Len(s) \in Nat
          /\ Len(r) = Len(s) + 1
          /\ r[Len(s) + 1] = f /\ \A n \in 1..Len(s) : r[n] = s[n]
      BY <2>2, <3>1
    <3> HIDE DEF r, s, t, f
    <3>4. \A n \in DOMAIN r : r[n] = f \/ (n \in DOMAIN s /\ r[n] = s[n])
      <4>1. \A n \in 1..Len(s) + 1 : n = Len(s) + 1 \/ n \in 1..Len(s)  BY <3>3
      <4> QED BY <3>3, <4>1
    <3>5. InTheirTopics'
      <4>1. ASSUME NEW u \in Topic, NEW n \in DOMAIN log'[u] PROVE log'[u][n].topic = u
        <5>1. CASE u # t  BY <3>2, <4>1, <5>1 DEF Grounded, InTheirTopics
        <5>2. CASE u = t
          <6>1. f.topic = t  BY DEF t
          <6> QED BY <3>1, <3>2, <3>4, <4>1, <5>2, <6>1 DEF Grounded, InTheirTopics, s
        <5> QED BY <5>1, <5>2
      <4> QED BY <4>1 DEF InTheirTopics
    <3>6. TheDeadAreDead'
      <4> SUFFICES ASSUME "restart" \notin upsets'
                   PROVE  /\ \A n \in DOMAIN outbox' :
                               outbox'[n].topic = "lifecycle" => outbox'[n].pip \notin alive'
                          /\ \A n \in DOMAIN log'["lifecycle"] :
                               log'["lifecycle"][n].pip \notin alive'
        BY DEF TheDeadAreDead
      <4>1. /\ \A n \in DOMAIN outbox :
                   outbox[n].topic = "lifecycle" => outbox[n].pip \notin alive
            /\ \A n \in DOMAIN log["lifecycle"] : log["lifecycle"][n].pip \notin alive
            /\ alive' = alive
        BY <2>1 DEF Grounded, TheDeadAreDead, core
      <4>2. \A n \in DOMAIN outbox' :
               outbox'[n].topic = "lifecycle" => outbox'[n].pip \notin alive'
        BY <2>2, <4>1
      <4>3. ASSUME NEW n \in DOMAIN log'["lifecycle"]
            PROVE  log'["lifecycle"][n].pip \notin alive'
        <5>1. CASE t # "lifecycle"  BY <3>2, <4>1, <4>3, <5>1, Setting
        <5>2. CASE t = "lifecycle"
          <6>1. f.topic = "lifecycle"  BY <5>2 DEF t
          <6>2. f.pip \notin alive  BY <2>2, <4>1, <6>1
          <6> QED BY <3>2, <3>4, <4>1, <4>3, <5>2, <6>2 DEF s
        <5> QED BY <5>1, <5>2
      <4> QED BY <4>2, <4>3
    <3>7. EscheatInHand'
      <4> DEFINE l == "lifecycle"
      <4>1. CASE t # l
        BY <2>1, <3>2, <4>1, Setting DEF Grounded, EscheatInHand, Waiting, NextFact
      <4>2. CASE t = l /\ escheat' # Idle
        <5>1. Waiting(l) /\ NextFact(l).pip = escheat.pip
          BY <2>1, <4>2 DEF Grounded, EscheatInHand
        <5>2. ahead[l] + 1 \in 1..Len(s) /\ NextFact(l) = s[ahead[l] + 1] /\ ahead[l] \in Nat
          BY <1>2, <3>1, <4>2, <5>1, NextFactIs DEF s
        <5>3. r[ahead[l] + 1] = s[ahead[l] + 1] /\ ahead[l] < Len(r)
          BY <3>3, <5>2
        <5> QED BY <2>1, <3>2, <4>2, <5>1, <5>2, <5>3 DEF EscheatInHand, Waiting, NextFact
      <4>3. CASE escheat' = Idle  BY <4>3 DEF EscheatInHand
      <4> QED BY <4>1, <4>2, <4>3
    <3> QED BY <2>3, <3>5, <3>6, <3>7 DEF Grounded
  <2> QED BY <1>4, <2>4, <2>5 DEF Publish
<1>5. ASSUME CoreRestarts PROVE Grounded'
  <2>1. /\ alive' = Pip /\ replica' = [a \in Account |-> 0] /\ "restart" \in upsets'
        /\ UNCHANGED <<log, ahead, escheat>>
    BY <1>5 DEF CoreRestarts, Upset, kafka, calls
  <2>2. EscheatInHand' /\ InTheirTopics'
    BY <2>1 DEF Grounded, EscheatInHand, InTheirTopics, Waiting, NextFact
  <2>3. TheDeadAreDead' /\ StillBuilt'  BY <2>1 DEF TheDeadAreDead, StillBuilt
  <2>4. NoDebtInTheCore'  BY <2>1, Setting DEF NoDebtInTheCore
  <2> QED BY <2>2, <2>3, <2>4 DEF Grounded
<1> QED
  <2>1. CASE Publish  BY <1>4, <2>1
  <2>2. CASE CoreRestarts  BY <1>5, <2>2
  <2>3. CASE \E dying \in SUBSET alive :
                \E here \in SUBSET alive, hungry \in SUBSET (alive \ dying) :
                   Tick(here, dying, hungry)
    BY <1>3, <2>3
  <2> QED BY <2>1, <2>2, <2>3 DEF Core

\* The gateway touches neither the core nor a topic.
LEMMA GatewayApart ==
    ASSUME Gateway
    PROVE  UNCHANGED <<core, outbox, kafka, escheat>>
<1>1. CASE Register  BY <1>1 DEF Register, calls
<1>2. ASSUME NEW S, Cycle(S) PROVE UNCHANGED <<core, outbox, kafka, escheat>>
  BY <1>2 DEF Cycle
<1>3. CASE PayWages  BY <1>3 DEF PayWages
<1>4. CASE MirrorWages  BY <1>4 DEF MirrorWages
<1>5. CASE Endow  BY <1>5 DEF Endow
<1>6. CASE IssueEndowment  BY <1>6 DEF IssueEndowment
<1>7. CASE MirrorEndowment  BY <1>7 DEF MirrorEndowment
<1>8. ASSUME NEW p, Buy(p) PROVE UNCHANGED <<core, outbox, kafka, escheat>>
  BY <1>8 DEF Buy, calls
<1> QED BY <1>1, <1>2, <1>3, <1>4, <1>5, <1>6, <1>7, <1>8 DEF Gateway, PlayerBuys

LEMMA GroundedUnchanged ==
    ASSUME Grounded, UNCHANGED <<core, outbox, kafka, escheat>>, upsets \subseteq upsets'
    PROVE  Grounded'
<1>1. NoDebtInTheCore' /\ StillBuilt'  BY KeptCore DEF Grounded
<1>2. EscheatInHand' /\ InTheirTopics'
  BY DEF Grounded, EscheatInHand, InTheirTopics, Waiting, NextFact, kafka
<1>3. TheDeadAreDead'  BY DEF Grounded, TheDeadAreDead, core, kafka
<1> QED BY <1>1, <1>2, <1>3 DEF Grounded

\* Apart from the estate in hand, a consumer only takes facts off a topic.
LEMMA ConsumersTake ==
    ASSUME Sound, EscheatInHand, Consumers, Sound'
    PROVE  /\ UNCHANGED <<core, intents, outbox, worked, payroll, endowment>>
           /\ \A u \in Topic : FromBefore(u)
           /\ EscheatInHand'
<1>1. /\ LogOK /\ LogOK' /\ CountsOK /\ "purchases" \in Topic /\ "lifecycle" \in Topic
      /\ "purchases" # "lifecycle"
  <2>1. Found  BY SoundIs
  <2>2. LogOK'  BY DEF Sound, TypeOK, LogOK
  <2> QED BY <2>1, <2>2, Setting DEF Found
<1>2. ASSUME NEW t \in Topic, Waiting(t), Cut(t) \/ Marked(t, TRUE) \/ Marked(t, FALSE)
      PROVE  \A u \in Topic : FromBefore(u)
  BY <1>1, <1>2, CutKeeps, MarkedKeeps
<1>3. ASSUME UNCHANGED <<log>>
      PROVE  \A u \in Topic : FromBefore(u)
  BY <1>3 DEF FromBefore
<1>4. ASSUME UNCHANGED escheat, Cut("purchases") \/ Marked("purchases", TRUE)
                                \/ Marked("purchases", FALSE)
      PROVE  EscheatInHand'
  <2>1. log'["lifecycle"] = log["lifecycle"] /\ ahead'["lifecycle"] = ahead["lifecycle"]
    BY <1>1, <1>4 DEF Cut, Marked
  <2> QED BY <1>4, <2>1 DEF EscheatInHand, Waiting, NextFact
<1>5. ASSUME escheat' = Idle PROVE EscheatInHand'  BY <1>5 DEF EscheatInHand
<1>6. ASSUME NEW t \in Topic, NEW odd \in SUBSET Upsets, Waiting(t), Finish(t, odd)
      PROVE  Cut(t) \/ Marked(t, TRUE)
  BY <1>1, <1>6, FinishIs
<1>7. ASSUME NEW f PROVE Overtaken(f) \in SUBSET Upsets  BY DEF Overtaken, Upsets
<1>8. CASE BookPurchase
  <2>1. /\ Waiting("purchases")
        /\ Finish("purchases", Overtaken(NextFact("purchases")))
        /\ UNCHANGED <<core, intents, outbox, worked, payroll, endowment, escheat>>
    BY <1>8 DEF BookPurchase, calls
  <2>2. Cut("purchases") \/ Marked("purchases", TRUE)  BY <1>1, <1>6, <1>7, <2>1
  <2> QED BY <1>1, <1>2, <1>4, <2>1, <2>2
<1>9. CASE EscheatNothing
  <2>1. /\ Waiting("lifecycle") /\ Finish("lifecycle", {}) /\ escheat = Idle
        /\ UNCHANGED <<core, intents, outbox, worked, payroll, endowment, escheat>>
    BY <1>9 DEF EscheatNothing, calls
  <2>2. {} \in SUBSET Upsets  OBVIOUS
  <2>3. Cut("lifecycle") \/ Marked("lifecycle", TRUE)  BY <1>1, <1>6, <2>1, <2>2
  <2> QED BY <1>1, <1>2, <1>5, <2>1, <2>3
<1>10. CASE EscheatReads
  <2>1. /\ Waiting("lifecycle") /\ escheat'.pip = NextFact("lifecycle").pip
        /\ UNCHANGED <<core, intents, outbox, worked, payroll, endowment, log, ahead>>
    BY <1>10 DEF EscheatReads, kafka
  <2>2. EscheatInHand'  BY <2>1 DEF EscheatInHand, Waiting, NextFact
  <2> QED BY <1>3, <2>1, <2>2
<1>11. CASE EscheatTransfers
  <2> DEFINE odd == IF Answer(EscheatKey, escheat.pip, Estate) = "paid"
                    THEN {} ELSE {"escheat_refused"}
  <2>1. /\ escheat # Idle /\ Finish("lifecycle", odd) /\ escheat' = Idle
        /\ UNCHANGED <<core, intents, outbox, worked, payroll, endowment>>
    BY <1>11 DEF EscheatTransfers
  <2>2. Waiting("lifecycle") /\ odd \in SUBSET Upsets  BY <2>1 DEF EscheatInHand, Upsets
  <2> HIDE DEF odd
  <2>3. Cut("lifecycle") \/ Marked("lifecycle", TRUE)  BY <1>1, <1>6, <2>1, <2>2
  <2> QED BY <1>1, <1>2, <1>5, <2>1, <2>2, <2>3
<1>12. ASSUME NEW t \in Topic, HandlingFails(t)
       PROVE  /\ UNCHANGED <<core, intents, outbox, worked, payroll, endowment>>
              /\ \A u \in Topic : FromBefore(u)
              /\ EscheatInHand'
  <2>1. /\ Waiting(t) /\ (Skip(t, TRUE) \/ Skip(t, FALSE))
        /\ UNCHANGED <<core, intents, outbox, worked, payroll, endowment>>
        /\ escheat' = IF t = "lifecycle" THEN Idle ELSE escheat
    BY <1>12 DEF HandlingFails
  <2>2. Marked(t, TRUE) \/ Marked(t, FALSE)
    <3>1. TRUE \in BOOLEAN /\ FALSE \in BOOLEAN  OBVIOUS
    <3> QED BY <1>1, <2>1, <3>1, SkipIs
  <2>3. t = "lifecycle" \/ t = "purchases"  BY DEF Topic
  <2> QED BY <1>1, <1>2, <1>4, <1>5, <2>1, <2>2, <2>3
<1>13. CASE BankRestarts
  <2>1. /\ escheat' = Idle
        /\ UNCHANGED <<core, intents, outbox, log, worked, payroll, endowment>>
    BY <1>13 DEF BankRestarts
  <2> QED BY <1>3, <1>5, <2>1
<1> QED BY <1>8, <1>9, <1>10, <1>11, <1>12, <1>13 DEF Consumers

LEMMA GroundedInit == ASSUME Init PROVE Grounded
BY Setting DEF Init, Grounded, EscheatInHand, InTheirTopics, TheDeadAreDead,
               NoDebtInTheCore, StillBuilt

LEMMA GroundedStep ==
    ASSUME Sound, Grounded, [Next]_vars
    PROVE  Sound' /\ Grounded' /\ upsets \subseteq upsets'
<1>1. EscheatInHand  BY DEF Grounded
<1>2. Sound' /\ upsets \subseteq upsets'  BY <1>1, SoundStep
<1>3. CASE UNCHANGED vars
  <2>1. UNCHANGED <<core, outbox, kafka, escheat>>  BY <1>3 DEF vars, calls
  <2> QED BY <1>2, <2>1, GroundedUnchanged
<1>4. CASE Core  BY <1>2, <1>4, GroundedCore
<1>5. CASE Gateway  BY <1>2, <1>5, GatewayApart, GroundedUnchanged
<1>6. CASE Consumers
  <2>1. /\ UNCHANGED <<core, outbox>> /\ EscheatInHand' /\ \A u \in Topic : FromBefore(u)
    BY <1>1, <1>2, <1>6, ConsumersTake
  <2>2. NoDebtInTheCore' /\ StillBuilt'  BY <1>2, <2>1, KeptCore DEF Grounded
  <2>3. InTheirTopics'  BY <2>1, KeptInTopics DEF Grounded
  <2>4. TheDeadAreDead'
    <3>1. UNCHANGED <<alive, outbox>>  BY <2>1 DEF core
    <3> QED BY <1>2, <2>1, <3>1, KeptDead DEF Grounded
  <2> QED BY <1>2, <2>1, <2>2, <2>3, <2>4 DEF Grounded
<1> QED BY <1>3, <1>4, <1>5, <1>6 DEF Next

\* Whatever is paid, bought, issued, inherited, lost or restarted, every variable
\* keeps its type (TypeOK): no topic, queue or clock passes its bound, and every
\* call under way names a real pip and an amount.
THEOREM MoneyTypeCorrect == Spec => []TypeOK
<1>1. Init => Sound /\ Grounded  BY SoundInit, GroundedInit
<1>2. Sound /\ Grounded /\ [Next]_vars => (Sound /\ Grounded)'  BY GroundedStep
<1>3. Sound => TypeOK  BY DEF Sound
<1> QED BY <1>1, <1>2, <1>3, PTL DEF Spec

\* No step of the core, the gateway or the bank's consumers makes or destroys a
\* coin: both books sum to zero with the treasury, however many pips there are,
\* whatever a meal costs and whatever is lost, repeated or restarted.
THEOREM BooksStayClosed == Spec => []BothBooksClosed
<1>1. Init => Sound /\ Grounded  BY SoundInit, GroundedInit
<1>2. Sound /\ Grounded /\ [Next]_vars => (Sound /\ Grounded)'  BY GroundedStep
<1>3. Sound => BothBooksClosed  BY DEF Sound
<1> QED BY <1>1, <1>2, <1>3, PTL DEF Spec

-----------------------------------------------------------------------------
(* How a step moves what the bank holds beyond the core. *)

\* The terms of a gap.
Counted(p) ==
    /\ balance[p] \in Int /\ twice[p] \in Nat /\ Held(p) = balance[p] + twice[p]
    /\ Held(p) \in Int /\ replica[p] \in Int
    /\ DueIn(outbox, p) \in Nat /\ DueIn(log["purchases"], p) \in Nat
    /\ OwedIn(intents, p) \in Nat /\ Mirrored(p) \in Nat /\ Gap(p) \in Int
    /\ Gap(p) = Held(p) - replica[p] - DueIn(outbox, p) - DueIn(log["purchases"], p)
                  - OwedIn(intents, p) - Mirrored(p)

\* The terms of the treasury's.
CountedIssues ==
    /\ balance[Treasury] \in Int /\ replica[Treasury] \in Int
    /\ ToIssueIn(intents) \in Nat /\ Endowed \in Nat
    /\ Unissued = ToIssueIn(intents) + Endowed

AllCounted == CountedIssues /\ \A p \in Pip : Counted(p)

LEMMA CountedIs == Sound => AllCounted
<1> SUFFICES ASSUME Sound PROVE AllCounted  OBVIOUS
<1>1. Found  BY SoundIs
<1>2. /\ outbox \in Seq(Fact) /\ log["purchases"] \in Seq(Fact) /\ intents \in Seq(Intent)
      /\ \A a \in Account : balance[a] \in Int /\ replica[a] \in Int
      /\ \A p \in Pip : twice[p] \in Nat
      /\ payroll \in Payroll \union {Idle} /\ endowment \in Endowment \union {Idle}
      /\ CallsOK
  BY <1>1, Setting DEF Found, LogOK, QueueOK, CoreOK, CallsOK, BankOK, Book
<1>3. Endowed \in Nat  BY <1>2, CallsAre DEF Endowed
<1>4. ToIssueIn(intents) \in Nat  BY <1>2, ToIssuesTyped
<1>5. CountedIssues  BY <1>2, <1>3, <1>4, Setting DEF CountedIssues, Unissued
<1>6. ASSUME NEW p \in Pip PROVE Counted(p)
  <2>1. DueIn(outbox, p) \in Nat /\ DueIn(log["purchases"], p) \in Nat
    BY <1>2, DuesTyped
  <2>2. OwedIn(intents, p) \in Nat  BY <1>2, OwedsTyped
  <2>3. Mirrored(p) \in Nat  BY <1>2, CallsAre, WagesAre DEF Mirrored
  <2>4. balance[p] \in Int /\ replica[p] \in Int /\ twice[p] \in Nat  BY <1>2, Setting
  <2>5. Held(p) = balance[p] + twice[p] /\ Held(p) \in Int  BY <2>4 DEF Held
  <2> QED BY <2>1, <2>2, <2>3, <2>4, <2>5 DEF Counted, Gap, Unbooked, Uncredited
<1> QED BY <1>5, <1>6 DEF AllCounted

LEMMA CountedNext == Sound' => AllCounted'
BY CountedIs, PTL

\* Nobody who lives on loses the bank's lead over the core.
Rising == alive' \subseteq alive /\ \A p \in alive' : Gap(p)' >= Gap(p)

\* The bank's lead stays the same, and so does the treasury's.
Level ==
    /\ alive' = alive /\ \A p \in Pip : Gap(p)' = Gap(p)
    /\ balance'[Treasury] + Unissued' - replica'[Treasury]
          = balance[Treasury] + Unissued - replica[Treasury]

Settled ==
    /\ upsets' \intersect {"replayed", "restart"} = {} => Rising
    /\ upsets' = {} => Level

LEMMA LevelRises ==
    ASSUME AllCounted, alive \subseteq Pip, Level
    PROVE  Rising
<1> SUFFICES ASSUME NEW p \in alive' PROVE Gap(p)' >= Gap(p)  BY DEF Rising, Level
<1>1. p \in Pip /\ Gap(p)' = Gap(p)  BY DEF Level
<1>2. Gap(p) \in Int  BY <1>1 DEF AllCounted, Counted
<1> QED BY <1>1, <1>2

LEMMA LevelSettles ==
    ASSUME AllCounted, alive \subseteq Pip, Level
    PROVE  Settled
BY LevelRises DEF Settled

\* The next fact and those before it leave the queue.
LEMMA DueUpTo ==
    ASSUME NEW s \in Seq(Fact), NEW p, NEW k \in 1..Len(s)
    PROVE  \E m \in Nat :
              /\ DueIn(s, p) = m + Due(s[k], p) + DueIn(SubSeq(s, k + 1, Len(s)), p)
              /\ (\A i \in 1..k - 1 : s[i].done) => m = 0
<1> DEFINE d == Dues(s, p)
           t == SubSeq(s, k + 1, Len(s))
           v == SubSeq(d, 1, k)
           u == SubSeq(d, 1, k - 1)
<1>1. /\ d \in Seq(Nat) /\ Len(d) = Len(s) /\ Len(s) \in Nat
      /\ \A n \in 1..Len(s) : d[n] = Due(s[n], p)
  BY DuesTyped
<1>2. DueIn(s, p) = SumOf(v) + DueIn(t, p) /\ v \in Seq(Nat) /\ t \in Seq(Fact)
  <2>1. k \in 0..Len(s)  OBVIOUS
  <2> QED BY <2>1, DueDropped
<1> HIDE DEF d
<1>3. /\ u \in Seq(Nat) /\ Len(u) = k - 1 /\ Len(v) = k
      /\ \A i \in 1..k - 1 : u[i] = d[i] /\ v[i] = d[i]
      /\ v[k] = d[k]
  <2>1. k - 1 \in 0..Len(d) /\ k \in 1..Len(d)  BY <1>1
  <2> QED BY <1>1, <2>1
<1> HIDE DEF u, v
<1>4. SumOf(v) = SumOf(u) + Due(s[k], p)
  <2>1. Due(s[k], p) \in Nat /\ v[Len(u) + 1] = Due(s[k], p) /\ Len(v) = Len(u) + 1
    BY <1>1, <1>3, DueNat
  <2>2. \A i \in 1..Len(u) : v[i] = u[i]  BY <1>3
  <2> QED BY <1>2, <1>3, <2>1, <2>2, TotalGrown
<1>5. SumOf(u) \in Nat  BY <1>3, TotalNat
<1>6. ASSUME \A i \in 1..k - 1 : s[i].done PROVE SumOf(u) = 0
  <2>1. DOMAIN u = 1..k - 1 /\ IsFiniteSet(1..k - 1)
    <3>1. k - 1 \in Int /\ 1 \in Int  OBVIOUS
    <3>2. IsFiniteSet(1..k - 1)  BY <3>1, FS_Interval
    <3>3. DOMAIN u = 1..Len(u)  BY <1>3
    <3> QED BY <1>3, <3>2, <3>3
  <2>2. ASSUME NEW i \in 1..k - 1 PROVE u[i] = 0
    <3>1. i \in 1..Len(s)  BY <1>1
    <3>2. u[i] = Due(s[i], p)  BY <1>1, <1>3, <3>1
    <3>3. s[i].done  BY <1>6
    <3> QED BY <3>2, <3>3 DEF Due
  <2> HIDE DEF d
  <2>3. SumOver(u, 1..k - 1) = 0  BY <2>1, <2>2, SumZero
  <2> QED BY <2>1, <2>3 DEF SumOf
<1>7. DueIn(t, p) \in Nat /\ Due(s[k], p) \in Nat  BY <1>2, DuesTyped, DueNat
<1>8. DueIn(s, p) = SumOf(u) + Due(s[k], p) + DueIn(t, p)  BY <1>2, <1>4, <1>5, <1>7
<1> HIDE DEF t
<1>9. WITNESS SumOf(u) \in Nat
<1> QED BY <1>6, <1>8 DEF t

\* What taking the next purchase off its topic leaves to be booked.
LEMMA DueTakenOff ==
    ASSUME LogOK, LogOK', Waiting("purchases"), NEW p,
           Cut("purchases") \/ Marked("purchases", TRUE)
    PROVE  \E m \in Nat :
              /\ DueIn(log["purchases"], p)
                    = m + Due(NextFact("purchases"), p) + DueIn(log'["purchases"], p)
              /\ Marked("purchases", TRUE) \/ PassedOver("purchases") = {} => m = 0
<1> DEFINE t == "purchases"
           s == log[t]
           k == ahead[t] + 1
           r == log'[t]
<1>1. /\ s \in Seq(Fact) /\ r \in Seq(Fact) /\ k \in 1..Len(s) /\ ahead[t] \in Nat
      /\ NextFact(t) = s[k] /\ k + 1 = ahead[t] + 2 /\ ahead[t] = k - 1
  BY NextFactIs, Setting DEF LogOK
<1>2. CASE Marked(t, TRUE)
  <2>1. /\ Len(r) = Len(s) /\ \A n \in 1..Len(s) : n # k => r[n] = s[n]
        /\ r[k] = [s[k] EXCEPT !.done = @ \/ TRUE]
    BY <1>1, <1>2 DEF Marked
  <2>2. s[k] \in Fact  BY <1>1
  <2>3. Due(r[k], p) = 0  BY <2>1, <2>2 DEF Due, Fact
  <2> HIDE DEF s, k, r
  <2>4. DueIn(r, p) = DueIn(s, p) - Due(s[k], p) + Due(r[k], p)
    BY <1>1, <2>1, DueChanged
  <2>5. DueIn(r, p) \in Nat /\ DueIn(s, p) \in Nat /\ Due(s[k], p) \in Nat
    BY <1>1, DuesTyped, DueNat
  <2>6. DueIn(s, p) = 0 + Due(s[k], p) + DueIn(r, p) /\ 0 \in Nat
    BY <2>3, <2>4, <2>5
  <2>7. DueIn(log[t], p) = 0 + Due(NextFact(t), p) + DueIn(log'[t], p)
    BY <1>1, <2>6 DEF s, r
  <2>8. WITNESS 0 \in Nat
  <2> QED BY <2>7
<1>3. CASE Cut(t) /\ ~Marked(t, TRUE)
  <2>1. r = SubSeq(s, k + 1, Len(s))  BY <1>1, <1>3 DEF Cut
  <2>2. PassedOver(t) = {} => \A i \in 1..k - 1 : s[i].done
    <3>1. PassedOver(t) = {n \in 1..k - 1 : ~s[n].done}  BY <1>1 DEF PassedOver
    <3> HIDE DEF k, s
    <3> QED BY <3>1
  <2>3. PICK m \in Nat :
           /\ DueIn(s, p) = m + Due(s[k], p) + DueIn(SubSeq(s, k + 1, Len(s)), p)
           /\ (\A i \in 1..k - 1 : s[i].done) => m = 0
    <3> HIDE DEF s, k, r
    <3> QED BY <1>1, DueUpTo
  <2>4. DueIn(s, p) = m + Due(NextFact(t), p) + DueIn(r, p)  BY <1>1, <2>1, <2>3
  <2> HIDE DEF k, s, r
  <2>5. PassedOver(t) = {} => m = 0  BY <2>2, <2>3
  <2>6. DueIn(log[t], p) = m + Due(NextFact(t), p) + DueIn(log'[t], p)
    BY <2>4 DEF s, r
  <2>7. ~Marked(t, TRUE)  BY <1>3
  <2>8. WITNESS m \in Nat
  <2> QED BY <2>5, <2>6, <2>7
<1> QED BY <1>2, <1>3

\* The treasury's books, and everything on its way to them, stay as they were.
LEMMA TreasuryKept ==
    ASSUME balance'[Treasury] = balance[Treasury], UNCHANGED <<replica, intents, endowment>>
    PROVE  balance'[Treasury] + Unissued' - replica'[Treasury]
              = balance[Treasury] + Unissued - replica[Treasury]
BY DEF Unissued, Endowed

LEMMA PublishSettles ==
    ASSUME Sound, Sound', Publish
    PROVE  Settled
<1> DEFINE f == Head(outbox)
           l == "purchases"
<1>1. /\ outbox # << >> /\ outbox' = Tail(outbox)
      /\ UNCHANGED <<alive, replica, intents, balance, twice, payroll, endowment>>
  BY DEF Publish, core, bank, calls
<1>2. /\ LogOK /\ outbox \in Seq(Fact) /\ f \in Fact /\ l \in Topic /\ alive \subseteq Pip
      /\ log[l] \in Seq(Fact)
  BY <1>1, SoundIs, Setting DEF Found, CoreOK, LogOK
<1>3. AllCounted /\ AllCounted'  BY CountedIs, CountedNext
<1>4. ASSUME NEW p \in Pip
      PROVE  /\ DueIn(outbox, p) = Due(f, p) + DueIn(outbox', p) /\ Due(f, p) \in Nat
             /\ Counted(p) /\ Counted(p)' /\ Mirrored(p)' = Mirrored(p)
  <2>1. DueIn(outbox, p) = Due(f, p) + DueIn(outbox', p)  BY <1>1, <1>2, DueTaken
  <2>2. Mirrored(p)' = Mirrored(p)  BY <1>1 DEF Mirrored
  <2> QED BY <1>3, <2>1, <2>2, DueNat DEF AllCounted
<1> HIDE DEF f
<1>5. CASE log' = [log EXCEPT ![f.topic] = Append(@, f)]
  <2>1. ASSUME NEW p \in Pip PROVE DueIn(log'[l], p) = DueIn(log[l], p) + Due(f, p)
    <3>1. CASE f.topic = l
      <4>1. log'[l] = Append(log[l], f)  BY <1>2, <1>5, <3>1 DEF LogOK
      <4> QED BY <1>2, <4>1, DueAppended
    <3>2. CASE f.topic # l
      <4>1. log'[l] = log[l]  BY <1>2, <1>5, <3>2 DEF LogOK
      <4>2. Due(f, p) = 0  BY <3>2 DEF Due
      <4>3. DueIn(log[l], p) \in Nat  BY <1>4 DEF Counted
      <4> QED BY <4>1, <4>2, <4>3
    <3> QED BY <3>1, <3>2
  <2>2. ASSUME NEW p \in Pip PROVE Gap(p)' = Gap(p)
    <3>1. Counted(p) /\ Counted(p)'  BY <1>4
    <3>2. /\ DueIn(outbox, p) = Due(f, p) + DueIn(outbox', p) /\ Due(f, p) \in Nat
          /\ DueIn(log'[l], p) = DueIn(log[l], p) + Due(f, p)
          /\ Mirrored(p)' = Mirrored(p) /\ OwedIn(intents', p) = OwedIn(intents, p)
          /\ Held(p)' = Held(p) /\ replica'[p] = replica[p]
      BY <1>1, <1>4, <2>1 DEF Held
    <3> QED BY ONLY <3>1, <3>2 DEF Counted
  <2>3. Level
    <3>1. balance'[Treasury] = balance[Treasury]  BY <1>1
    <3> QED BY <1>1, <2>2, <3>1, TreasuryKept DEF Level
  <2> QED BY <1>2, <1>3, <2>3, LevelSettles
<1>6. CASE log' = log /\ upsets' # {}
  <2>1. ASSUME NEW p \in Pip PROVE Gap(p)' >= Gap(p)
    <3>1. Counted(p) /\ Counted(p)'  BY <1>4
    <3>2. /\ DueIn(outbox, p) = Due(f, p) + DueIn(outbox', p) /\ Due(f, p) \in Nat
          /\ DueIn(log'[l], p) = DueIn(log[l], p)
          /\ Mirrored(p)' = Mirrored(p) /\ OwedIn(intents', p) = OwedIn(intents, p)
          /\ Held(p)' = Held(p) /\ replica'[p] = replica[p]
      BY <1>1, <1>4, <1>6 DEF Held
    <3> QED BY ONLY <3>1, <3>2 DEF Counted
  <2> QED BY <1>1, <1>2, <1>6, <2>1 DEF Settled, Rising
<1>7. \/ log' = [log EXCEPT ![f.topic] = Append(@, f)]
      \/ log' = log /\ upsets' # {}
  BY DEF Publish, Upset, f
<1> QED BY <1>5, <1>6, <1>7

\* What a step of the gateway can change, pip by pip.
Through(p, d) ==
    Held(p)' - OwedIn(intents', p) - Mirrored(p)'
        = Held(p) - OwedIn(intents, p) - Mirrored(p) + d

LEMMA GatewayGap ==
    ASSUME AllCounted, AllCounted', UNCHANGED <<core, outbox, kafka>>,
           NEW p \in Pip, NEW d \in Int, Through(p, d)
    PROVE  Gap(p)' = Gap(p) + d
<1>1. Counted(p) /\ Counted(p)'  BY DEF AllCounted
<1>2. /\ replica'[p] = replica[p] /\ DueIn(outbox', p) = DueIn(outbox, p)
      /\ DueIn(log'["purchases"], p) = DueIn(log["purchases"], p)
  BY DEF core, kafka
<1>3. Through(p, d) /\ d \in Int  OBVIOUS
<1> QED BY ONLY <1>1, <1>2, <1>3 DEF Counted, Through

\* No step of the gateway settles for less than it took.
LEMMA GatewayLevel ==
    ASSUME Sound, Sound', UNCHANGED <<core, outbox, kafka>>,
           \A p \in Pip : Through(p, 0),
           balance'[Treasury] + Unissued' = balance[Treasury] + Unissued
    PROVE  Level
<1>1. AllCounted /\ AllCounted'  BY CountedIs, CountedNext
<1>2. ASSUME NEW p \in Pip PROVE Gap(p)' = Gap(p)
  <2>1. Gap(p)' = Gap(p) + 0  BY <1>1, GatewayGap
  <2>2. Gap(p) \in Int  BY <1>1 DEF AllCounted, Counted
  <2> QED BY <2>1, <2>2
<1>3. alive' = alive /\ replica' = replica  BY DEF core
<1>4. balance'[Treasury] + Unissued' - replica'[Treasury]
         = balance[Treasury] + Unissued - replica[Treasury]
  <2>1. replica'[Treasury] = replica[Treasury]  BY <1>3
  <2>2. balance'[Treasury] + Unissued' = balance[Treasury] + Unissued  OBVIOUS
  <2>3. CountedIssues /\ CountedIssues'  BY <1>1 DEF AllCounted
  <2> QED BY ONLY <2>1, <2>2, <2>3 DEF CountedIssues
<1> QED BY <1>2, <1>3, <1>4 DEF Level

LEMMA GatewayRising ==
    ASSUME Sound, Sound', UNCHANGED <<core, outbox, kafka>>,
           \A p \in Pip : \E d \in Nat : Through(p, d)
    PROVE  Rising
<1>1. AllCounted /\ AllCounted'  BY CountedIs, CountedNext
<1>2. alive \subseteq Pip /\ alive' = alive  BY SoundIs DEF Found, CoreOK, core
<1>3. ASSUME NEW p \in Pip PROVE Gap(p)' >= Gap(p)
  <2>1. PICK d \in Nat : Through(p, d)  OBVIOUS
  <2>2. Gap(p)' = Gap(p) + d /\ d \in Int  BY <1>1, <2>1, GatewayGap
  <2>3. Gap(p) \in Int  BY <1>1 DEF AllCounted, Counted
  <2> QED BY <2>2, <2>3
<1> QED BY <1>2, <1>3 DEF Rising

\* Nothing at the bank, in the queue or under way to the core changes.
LEMMA GatewayStill ==
    ASSUME Sound, Sound', UNCHANGED <<core, outbox, kafka, balance, twice, intents>>,
           \A p \in Pip : Mirrored(p)' = Mirrored(p), Endowed' = Endowed
    PROVE  Settled
<1>1. AllCounted /\ AllCounted'  BY CountedIs, CountedNext
<1>2. ASSUME NEW p \in Pip PROVE Through(p, 0)
  BY <1>1, <1>2 DEF AllCounted, Counted, Through, Held
<1>3. balance'[Treasury] + Unissued' = balance[Treasury] + Unissued  BY DEF Unissued
<1>4. Level  BY <1>2, <1>3, GatewayLevel
<1>5. alive \subseteq Pip  BY SoundIs DEF Found, CoreOK
<1> QED BY <1>1, <1>4, <1>5, LevelSettles

\* What an intent carries is no longer under way once it is queued; lost, it is
\* the bank that is ahead.
LEMMA SubmitSettles ==
    ASSUME Sound, Sound', UNCHANGED <<core, outbox, kafka, balance, twice>>,
           NEW i \in Intent, Submit(i),
           \A p \in Pip : Owed(i, p) + Mirrored(p)' = Mirrored(p),
           ToIssue(i) + Endowed' = Endowed
    PROVE  Settled
<1>1. /\ QueueOK /\ CountsOK /\ intents \in Seq(Intent) /\ alive \subseteq Pip
  BY SoundIs DEF Found, QueueOK, CoreOK
<1>2. AllCounted /\ AllCounted'  BY CountedIs, CountedNext
<1>3. ToIssue(i) \in Nat /\ \A p \in Pip : Owed(i, p) \in Nat  BY ToIssueNat, OwedNat
<1>4. CASE intents' = Append(intents, i)
  <2>1. ASSUME NEW p \in Pip PROVE Through(p, 0)
    <3>1. Counted(p) /\ Counted(p)'  BY <1>2 DEF AllCounted
    <3>2. /\ OwedIn(intents', p) = OwedIn(intents, p) + Owed(i, p)
          /\ Owed(i, p) + Mirrored(p)' = Mirrored(p) /\ Owed(i, p) \in Nat
          /\ Held(p)' = Held(p)
      BY <1>1, <1>3, <1>4, OwedAppended DEF Held
    <3> QED BY ONLY <3>1, <3>2 DEF Counted, Through
  <2>2. balance'[Treasury] + Unissued' = balance[Treasury] + Unissued
    <3>1. CountedIssues /\ CountedIssues'  BY <1>2 DEF AllCounted
    <3>2. /\ ToIssueIn(intents') = ToIssueIn(intents) + ToIssue(i)
          /\ ToIssue(i) + Endowed' = Endowed /\ ToIssue(i) \in Nat /\ balance' = balance
      BY <1>1, <1>3, <1>4, ToIssueAppended
    <3> QED BY ONLY <3>1, <3>2 DEF CountedIssues
  <2>3. Level  BY <2>1, <2>2, GatewayLevel
  <2> QED BY <1>1, <1>2, <2>3, LevelSettles
<1>5. CASE intents' = intents /\ i.op = "buy"
  <2>1. ASSUME NEW p \in Pip PROVE Mirrored(p)' = Mirrored(p)
    <3>1. Counted(p) /\ Counted(p)'  BY <1>2 DEF AllCounted
    <3>2. Owed(i, p) = 0 /\ Owed(i, p) + Mirrored(p)' = Mirrored(p)  BY <1>5 DEF Owed
    <3> QED BY <3>1, <3>2 DEF Counted
  <2>2. Endowed' = Endowed
    <3>1. CountedIssues /\ CountedIssues'  BY <1>2 DEF AllCounted
    <3>2. ToIssue(i) = 0 /\ ToIssue(i) + Endowed' = Endowed  BY <1>5 DEF ToIssue
    <3>3. Endowed \in Nat /\ Endowed' \in Nat  BY <3>1 DEF CountedIssues
    <3>4. 0 + Endowed' = Endowed  BY <3>2
    <3>5. \A a, b \in Nat : 0 + a = b => a = b  OBVIOUS
    <3> QED BY <3>3, <3>4, <3>5
  <2> QED BY <1>5, <2>1, <2>2, GatewayStill
<1>6. CASE intents' = intents /\ "lost" \in upsets'
  <2>1. ASSUME NEW p \in Pip PROVE \E d \in Nat : Through(p, d)
    <3>1. Counted(p) /\ Counted(p)'  BY <1>2 DEF AllCounted
    <3>2. /\ Owed(i, p) + Mirrored(p)' = Mirrored(p) /\ Owed(i, p) \in Nat
          /\ Held(p)' = Held(p) /\ intents' = intents
      BY <1>3, <1>6 DEF Held
    <3>3. Through(p, Owed(i, p))  BY ONLY <3>1, <3>2 DEF Counted, Through
    <3> QED BY <3>2, <3>3
  <2>2. Rising  BY <2>1, GatewayRising
  <2> QED BY <1>6, <2>2 DEF Settled
<1> QED BY <1>1, <1>4, <1>5, <1>6, SubmitIs

LEMMA PayWagesSettles ==
    ASSUME Sound, Sound', PayWages
    PROVE  Settled
<1> DEFINE key == <<Farm, "batch", payroll.tick, "WAGE">>
           c == payroll.credits
           answer == Answer(key, Farm, c)
           mirror == [payroll EXCEPT !.stage = "mirror"]
<1>1. /\ payroll # Idle /\ payroll.stage = "bank"
      /\ UNCHANGED <<core, intents, outbox, kafka, endowment>>
  BY DEF PayWages
<1>2. /\ BankOK /\ balance \in Book /\ CallsOK /\ alive \subseteq Pip
      /\ \A p \in Pip : twice[p] \in Nat
  BY SoundIs DEF Found, CoreOK, BankOK
<1>3. c \in Wages /\ Listed(c) /\ mirror.credits = c /\ mirror.stage = "mirror"
      /\ mirror \in Payroll /\ mirror # Idle
  <2>1. Idle \notin Payroll  BY MoneyAssumption
  <2> QED BY <1>1, <1>2, <2>1, CallsAre, CreditsListed
<1>4. AllCounted /\ AllCounted' /\ Farm \in Account  BY CountedIs, CountedNext, Setting
<1>5. \A p \in Pip : Mirrored(p) = 0  BY <1>1 DEF Mirrored
<1>6. Endowed' = Endowed  BY <1>1 DEF Endowed
<1> DEFINE wage(p) == IF p \in DOMAIN c THEN c[p] ELSE 0
<1>7. ASSUME NEW p \in Pip PROVE wage(p) \in Nat  BY <1>3, WagesAre
<1>8. ASSUME balance' = Paid(balance, Farm, c), twice' = twice
      PROVE  /\ \A p \in Pip : Held(p)' = Held(p) + wage(p)
             /\ balance'[Treasury] = balance[Treasury]
  <2>1. \A a \in Account : balance'[a] = balance[a] + (IF a \in DOMAIN c THEN c[a] ELSE 0)
                                           - (IF a = Farm THEN SumOf(c) ELSE 0)
    BY <1>8 DEF Paid
  <2>2. \A a \in Account : balance[a] \in Int  BY <1>2 DEF Book
  <2>3. Treasury \notin DOMAIN c /\ Treasury # Farm /\ Treasury \in Account
    BY <1>3, WagesAre, Setting
  <2>4. \A p \in Pip : p \in Account /\ p # Farm  BY Setting
  <2>5. balance'[Treasury] = balance[Treasury]  BY <2>1, <2>2, <2>3
  <2> HIDE DEF c
  <2>6. ASSUME NEW p \in Pip PROVE Held(p)' = Held(p) + wage(p)
    <3>1. balance'[p] = balance[p] + (IF p \in DOMAIN c THEN c[p] ELSE 0) - 0
      BY <2>1, <2>4
    <3>2. twice[p] \in Nat /\ twice'[p] = twice[p]  BY <1>2, <1>8
    <3> QED BY <1>7, <2>2, <2>4, <3>1, <3>2 DEF Held
  <2> QED BY <2>5, <2>6
<1>9. CASE answer = "refused" /\ payroll' = Idle /\ UNCHANGED bank
  <2>1. \A p \in Pip : Mirrored(p)' = Mirrored(p)  BY <1>5, <1>9 DEF Mirrored
  <2> QED BY <1>1, <1>6, <1>9, <2>1, GatewayStill DEF bank
<1>10. CASE answer = "paid" /\ Move(key, Farm, c) /\ payroll' = mirror
  <2>1. balance' = Paid(balance, Farm, c) /\ twice' = twice  BY <1>10 DEF Move
  <2> HIDE DEF mirror
  <2>2. ASSUME NEW p \in Pip PROVE Mirrored(p)' = wage(p)
    BY <1>3, <1>10 DEF Mirrored
  <2> HIDE DEF wage, c, key, answer
  <2>3. ASSUME NEW p \in Pip PROVE Through(p, 0)
    <3>1. Counted(p) /\ Counted(p)'  BY <1>4 DEF AllCounted
    <3>2. /\ Held(p)' = Held(p) + wage(p) /\ Mirrored(p)' = wage(p)
          /\ Mirrored(p) = 0 /\ wage(p) \in Nat /\ intents' = intents
      BY <1>1, <1>5, <1>7, <1>8, <2>1, <2>2
    <3> QED BY ONLY <3>1, <3>2 DEF Counted, Through
  <2>4. balance'[Treasury] + Unissued' = balance[Treasury] + Unissued
    BY <1>1, <1>6, <1>8, <2>1 DEF Unissued
  <2>5. Level  BY <1>1, <2>3, <2>4, GatewayLevel
  <2> QED BY <1>2, <1>4, <2>5, LevelSettles
<1>11. CASE "replayed" \in upsets'  BY <1>11 DEF Settled
<1>12. CASE "lost" \in upsets' /\ payroll' = Idle
            /\ (Move(key, Farm, c) \/ UNCHANGED bank)
  <2>1. \A p \in Pip : Mirrored(p)' = 0  BY <1>12 DEF Mirrored
  <2>2. (balance' = Paid(balance, Farm, c) \/ balance' = balance) /\ twice' = twice
    BY <1>2, <1>3, <1>4, <1>12, MoveIs DEF bank
  <2> HIDE DEF wage, c, key, answer, mirror
  <2>3. ASSUME NEW p \in Pip PROVE \E d \in Nat : Through(p, d)
    <3>1. Counted(p) /\ Counted(p)'  BY <1>4 DEF AllCounted
    <3>2. /\ Mirrored(p)' = 0 /\ Mirrored(p) = 0 /\ wage(p) \in Nat /\ intents' = intents
      BY <1>1, <1>5, <1>7, <2>1
    <3>3. CASE Held(p)' = Held(p) + wage(p)
      <4>1. Through(p, wage(p))  BY ONLY <3>1, <3>2, <3>3 DEF Counted, Through
      <4> QED BY <3>2, <4>1
    <3>4. CASE Held(p)' = Held(p)
      <4>1. Through(p, 0)  BY ONLY <3>1, <3>2, <3>4 DEF Counted, Through
      <4>2. 0 \in Nat  OBVIOUS
      <4> QED BY <4>1, <4>2
    <3> QED BY <1>8, <2>2, <3>3, <3>4 DEF Held
  <2>4. Rising  BY <1>1, <2>3, GatewayRising
  <2> QED BY <1>12, <2>4 DEF Settled
<1>13. \/ answer = "refused" /\ payroll' = Idle /\ UNCHANGED bank
       \/ answer = "paid" /\ Move(key, Farm, c) /\ payroll' = mirror
       \/ "replayed" \in upsets'
       \/ "lost" \in upsets' /\ payroll' = Idle /\ (Move(key, Farm, c) \/ UNCHANGED bank)
  <2>1. answer \in {"refused", "paid", "replayed"}  BY DEF Answer
  <2> QED BY <2>1 DEF PayWages, Upset
<1> QED BY <1>9, <1>10, <1>11, <1>12, <1>13

LEMMA IssueSettles ==
    ASSUME Sound, Sound', IssueEndowment
    PROVE  Settled
<1> DEFINE key == <<Treasury, Farm, endowment.tick, "ISSUANCE">>
           n == endowment.amount
           c == One(Farm, n)
           mirror == [endowment EXCEPT !.stage = "mirror"]
<1>1. /\ endowment # Idle /\ endowment.stage = "bank"
      /\ UNCHANGED <<core, intents, outbox, kafka, payroll>>
  BY DEF IssueEndowment
<1>2. BankOK /\ balance \in Book /\ CallsOK /\ alive \subseteq Pip
  BY SoundIs DEF Found, CoreOK, BankOK
<1>3. n \in Nat /\ mirror.amount = n /\ mirror.stage = "mirror" /\ mirror # Idle
      /\ Listed(c)
  <2>1. Idle \notin Endowment  BY MoneyAssumption
  <2>2. n \in Nat /\ mirror.amount = n /\ mirror.stage = "mirror" /\ mirror \in Endowment
    BY <1>1, <1>2, CallsAre
  <2> QED BY <2>1, <2>2, CreditsListed, Setting DEF Coins
<1>4. AllCounted /\ AllCounted'  BY CountedIs, CountedNext
<1>5. Endowed = 0 /\ \A p \in Pip : Mirrored(p)' = Mirrored(p)
  BY <1>1 DEF Endowed, Mirrored
<1>6. ASSUME balance' = Paid(balance, Treasury, c), twice' = twice
      PROVE  /\ \A p \in Pip : Held(p)' = Held(p)
             /\ balance'[Treasury] = balance[Treasury] - n
  <2>1. Treasury \in Account /\ Farm \in Account /\ Treasury # Farm /\ n \in Coins
    BY <1>3, Setting DEF Coins
  <2>2. Passed(balance, balance', Treasury, Farm, n)  BY <1>2, <1>6, <2>1, PaidOne
  <2>3. \A p \in Pip : p \in Account \ {Treasury, Farm}  BY Setting
  <2> QED BY <1>6, <2>2, <2>3 DEF Passed, Held
<1>7. CASE Answer(key, Treasury, c) = "paid" /\ Move(key, Treasury, c) /\ endowment' = mirror
  <2>1. balance' = Paid(balance, Treasury, c) /\ twice' = twice  BY <1>7 DEF Move
  <2> HIDE DEF c, key, mirror
  <2>2. Endowed' = n  BY <1>3, <1>7 DEF Endowed
  <2> HIDE DEF n
  <2>3. ASSUME NEW p \in Pip PROVE Through(p, 0)
    <3>1. Counted(p) /\ Counted(p)'  BY <1>4 DEF AllCounted
    <3>2. Held(p)' = Held(p) /\ Mirrored(p)' = Mirrored(p) /\ intents' = intents
      BY <1>1, <1>5, <1>6, <2>1
    <3> QED BY ONLY <3>1, <3>2 DEF Counted, Through
  <2>4. balance'[Treasury] + Unissued' = balance[Treasury] + Unissued
    <3>1. CountedIssues /\ CountedIssues'  BY <1>4 DEF AllCounted
    <3>2. /\ balance'[Treasury] = balance[Treasury] - n /\ Endowed' = n /\ Endowed = 0
          /\ n \in Nat /\ intents' = intents
      BY <1>1, <1>3, <1>5, <1>6, <2>1, <2>2
    <3> QED BY ONLY <3>1, <3>2 DEF CountedIssues
  <2>5. Level  BY <1>1, <2>3, <2>4, GatewayLevel
  <2> QED BY <1>2, <1>4, <2>5, LevelSettles
<1>8. CASE "replayed" \in upsets'  BY <1>8 DEF Settled
<1>9. CASE "lost" \in upsets' /\ (Move(key, Treasury, c) \/ UNCHANGED bank)
  <2>1. (balance' = Paid(balance, Treasury, c) \/ balance' = balance) /\ twice' = twice
    <3>1. Treasury \in Account  BY Setting
    <3> HIDE DEF c, key
    <3> QED BY <1>2, <1>3, <1>9, <3>1, MoveIs DEF bank
  <2> HIDE DEF c, key, n, mirror
  <2>2. ASSUME NEW p \in Pip PROVE \E d \in Nat : Through(p, d)
    <3>1. Counted(p) /\ Counted(p)'  BY <1>4 DEF AllCounted
    <3>2. Held(p)' = Held(p) /\ Mirrored(p)' = Mirrored(p) /\ intents' = intents
      BY <1>1, <1>5, <1>6, <2>1 DEF Held
    <3>3. Through(p, 0)  BY ONLY <3>1, <3>2 DEF Counted, Through
    <3>4. 0 \in Nat  OBVIOUS
    <3> QED BY <3>3, <3>4
  <2>3. Rising  BY <1>1, <2>2, GatewayRising
  <2> QED BY <1>9, <2>3 DEF Settled
<1>10. \/ Answer(key, Treasury, c) = "paid" /\ Move(key, Treasury, c) /\ endowment' = mirror
       \/ "replayed" \in upsets'
       \/ "lost" \in upsets' /\ (Move(key, Treasury, c) \/ UNCHANGED bank)
  BY DEF IssueEndowment, Upset, Answer
<1> QED BY <1>7, <1>8, <1>9, <1>10

LEMMA GatewaySettles ==
    ASSUME Sound, Sound', Gateway
    PROVE  Settled
<1>1. UNCHANGED <<core, outbox, kafka, escheat>>  BY GatewayApart
<1>2. CallsOK /\ alive \subseteq Pip  BY SoundIs DEF Found, CoreOK
<1>3. CASE Register
  <2> DEFINE i == [op |-> "register"]
  <2>1. /\ intents = << >> /\ intents' = <<i>>
        /\ UNCHANGED <<balance, twice, payroll, endowment>>
    BY <1>3 DEF Register, bank, calls
  <2>2. i \in Intent /\ intents' = Append(intents, i) /\ intents \in Seq(Intent)
    BY <2>1 DEF Intent
  <2>3. ToIssue(i) = 0 /\ \A p \in Pip : Owed(i, p) = 0  BY DEF ToIssue, Owed
  <2> HIDE DEF i
  <2>4. AllCounted /\ AllCounted'  BY CountedIs, CountedNext
  <2>5. ASSUME NEW p \in Pip PROVE Through(p, 0)
    <3>1. Counted(p) /\ Counted(p)'  BY <2>4 DEF AllCounted
    <3>2. OwedIn(intents', p) = OwedIn(intents, p) + Owed(i, p)  BY <2>2, OwedAppended
    <3>3. Mirrored(p)' = Mirrored(p) /\ Held(p)' = Held(p) /\ Owed(i, p) = 0
      BY <2>1, <2>3 DEF Mirrored, Held
    <3> QED BY ONLY <3>1, <3>2, <3>3 DEF Counted, Through
  <2>6. balance'[Treasury] + Unissued' = balance[Treasury] + Unissued
    <3>1. CountedIssues /\ CountedIssues'  BY <2>4 DEF AllCounted
    <3>2. ToIssueIn(intents') = ToIssueIn(intents) + ToIssue(i)  BY <2>2, ToIssueAppended
    <3>3. Endowed' = Endowed /\ balance' = balance /\ ToIssue(i) = 0
      BY <2>1, <2>3 DEF Endowed
    <3> QED BY ONLY <3>1, <3>2, <3>3 DEF CountedIssues
  <2>7. Level  BY <1>1, <2>5, <2>6, GatewayLevel
  <2> QED BY <1>2, <2>4, <2>7, LevelSettles
<1>4. ASSUME NEW S, Cycle(S) PROVE Settled
  <2>1. /\ payroll = Idle /\ UNCHANGED <<balance, twice, intents, endowment>>
        /\ payroll' # Idle => payroll'.stage = "bank"
    BY <1>4 DEF Cycle, bank
  <2>2. (\A p \in Pip : Mirrored(p)' = Mirrored(p)) /\ Endowed' = Endowed
    BY <2>1 DEF Mirrored, Endowed
  <2> QED BY <1>1, <2>1, <2>2, GatewayStill
<1>5. CASE PayWages  BY <1>5, PayWagesSettles
<1>6. CASE MirrorWages
  <2> DEFINE i == [op |-> "credit", credits |-> payroll.credits]
  <2>1. /\ payroll # Idle /\ payroll.stage = "mirror" /\ Submit(i) /\ payroll' = Idle
        /\ UNCHANGED <<balance, twice, endowment>>
    BY <1>6 DEF MirrorWages, bank
  <2>2. payroll.credits \in Wages /\ i \in Intent  BY <1>2, <2>1, CallsAre DEF Intent
  <2>3. ASSUME NEW p \in Pip PROVE Owed(i, p) + Mirrored(p)' = Mirrored(p)
    <3>1. Owed(i, p) = Mirrored(p) /\ Mirrored(p)' = 0  BY <2>1 DEF Owed, Mirrored
    <3>2. Owed(i, p) \in Nat  BY <2>2, OwedNat
    <3> QED BY <3>1, <3>2
  <2>4. ToIssue(i) + Endowed' = Endowed
    <3>1. ToIssue(i) = 0 /\ Endowed' = Endowed  BY <2>1 DEF ToIssue, Endowed
    <3>2. Endowed \in Nat  BY CountedIs DEF AllCounted, CountedIssues
    <3> QED BY <3>1, <3>2
  <2> HIDE DEF i
  <2> QED BY <1>1, <2>1, <2>2, <2>3, <2>4, SubmitSettles
<1>7. CASE Endow
  <2>1. /\ endowment = Idle /\ UNCHANGED <<balance, twice, intents, payroll>>
        /\ endowment'.stage = "bank"
    BY <1>7 DEF Endow, bank
  <2>2. (\A p \in Pip : Mirrored(p)' = Mirrored(p)) /\ Endowed' = Endowed
    BY <2>1 DEF Mirrored, Endowed
  <2> QED BY <1>1, <2>1, <2>2, GatewayStill
<1>8. CASE IssueEndowment  BY <1>8, IssueSettles
<1>9. CASE MirrorEndowment
  <2> DEFINE i == [op |-> "issue", amount |-> endowment.amount]
  <2>1. /\ endowment # Idle /\ endowment.stage = "mirror" /\ Submit(i) /\ endowment' = Idle
        /\ UNCHANGED <<balance, twice, payroll>>
    BY <1>9 DEF MirrorEndowment, bank
  <2>2. endowment.amount \in Nat /\ i \in Intent  BY <1>2, <2>1, CallsAre DEF Intent
  <2>3. ASSUME NEW p \in Pip PROVE Owed(i, p) + Mirrored(p)' = Mirrored(p)
    <3>1. Owed(i, p) = 0 /\ Mirrored(p)' = Mirrored(p)  BY <2>1 DEF Owed, Mirrored
    <3>2. Mirrored(p) \in Nat  BY CountedIs DEF AllCounted, Counted
    <3> QED BY <3>1, <3>2
  <2>4. ToIssue(i) + Endowed' = Endowed
    BY <2>1, <2>2 DEF ToIssue, Endowed
  <2> HIDE DEF i
  <2> QED BY <1>1, <2>1, <2>2, <2>3, <2>4, SubmitSettles
<1>10. ASSUME NEW q \in Pip, Buy(q) PROVE Settled
  <2> DEFINE i == [op |-> "buy", pip |-> q]
  <2>1. Submit(i) /\ UNCHANGED <<balance, twice, payroll, endowment>>
    BY <1>10 DEF Buy, bank, calls
  <2>2. i \in Intent  BY DEF Intent
  <2>3. ASSUME NEW p \in Pip PROVE Owed(i, p) + Mirrored(p)' = Mirrored(p)
    <3>1. Owed(i, p) = 0 /\ Mirrored(p)' = Mirrored(p)  BY <2>1 DEF Owed, Mirrored
    <3>2. Mirrored(p) \in Nat  BY CountedIs DEF AllCounted, Counted
    <3> QED BY <3>1, <3>2
  <2>4. ToIssue(i) + Endowed' = Endowed
    <3>1. ToIssue(i) = 0 /\ Endowed' = Endowed  BY <2>1 DEF ToIssue, Endowed
    <3>2. Endowed \in Nat  BY CountedIs DEF AllCounted, CountedIssues
    <3> QED BY <3>1, <3>2
  <2> HIDE DEF i
  <2> QED BY <1>1, <2>1, <2>2, <2>3, <2>4, SubmitSettles
<1> QED
  BY <1>3, <1>4, <1>5, <1>6, <1>7, <1>8, <1>9, <1>10 DEF Gateway, PlayerBuys

\* What a step of the bank's consumers can change, pip by pip.
Booked(p, d) ==
    Held(p)' - DueIn(log'["purchases"], p) = Held(p) - DueIn(log["purchases"], p) + d

BankAlone == UNCHANGED <<core, intents, outbox, worked, payroll, endowment>>

LEMMA BankGap ==
    ASSUME AllCounted, AllCounted', BankAlone, NEW p \in Pip, NEW d \in Int, Booked(p, d)
    PROVE  Gap(p)' = Gap(p) + d
<1>1. Counted(p) /\ Counted(p)'  BY DEF AllCounted
<1>2. /\ replica'[p] = replica[p] /\ DueIn(outbox', p) = DueIn(outbox, p)
      /\ OwedIn(intents', p) = OwedIn(intents, p) /\ Mirrored(p)' = Mirrored(p)
  BY DEF core, BankAlone, Mirrored
<1>3. Booked(p, d) /\ d \in Int  OBVIOUS
<1> QED BY ONLY <1>1, <1>2, <1>3 DEF Counted, Booked

LEMMA BankLevel ==
    ASSUME AllCounted, AllCounted', BankAlone, \A p \in Pip : Booked(p, 0),
           balance'[Treasury] = balance[Treasury]
    PROVE  Level
<1>1. ASSUME NEW p \in Pip PROVE Gap(p)' = Gap(p)
  <2>1. Gap(p)' = Gap(p) + 0  BY BankGap
  <2>2. Gap(p) \in Int  BY DEF AllCounted, Counted
  <2> QED BY <2>1, <2>2
<1>2. alive' = alive /\ UNCHANGED <<replica, intents, endowment>>  BY DEF core, BankAlone
<1> QED BY <1>1, <1>2, TreasuryKept DEF Level

LEMMA BankRising ==
    ASSUME AllCounted, AllCounted', BankAlone, alive \subseteq Pip,
           \A p \in alive : \E d \in Nat : Booked(p, d)
    PROVE  Rising
<1>1. alive' = alive  BY DEF core, BankAlone
<1>2. ASSUME NEW p \in alive PROVE Gap(p)' >= Gap(p)
  <2>1. p \in Pip  OBVIOUS
  <2>2. PICK d \in Nat : Booked(p, d)  OBVIOUS
  <2>3. Gap(p)' = Gap(p) + d  BY <2>1, <2>2, BankGap
  <2>4. Gap(p) \in Int  BY <2>1 DEF AllCounted, Counted
  <2> QED BY <2>3, <2>4
<1> QED BY <1>1, <1>2 DEF Rising

\* The bank's books and the purchases on their way to them stay as they were.
LEMMA BankStill ==
    ASSUME AllCounted, AllCounted', BankAlone, UNCHANGED <<balance, twice>>,
           \A p \in Pip : DueIn(log'["purchases"], p) = DueIn(log["purchases"], p)
    PROVE  Level
<1>1. ASSUME NEW p \in Pip PROVE Booked(p, 0)
  <2>1. Counted(p)  BY DEF AllCounted
  <2>2. Held(p)' = Held(p) /\ DueIn(log'["purchases"], p) = DueIn(log["purchases"], p)
    BY DEF Held
  <2> QED BY ONLY <2>1, <2>2 DEF Counted, Booked
<1> QED BY <1>1, BankLevel

\* A purchase that is booked was due; one that was booked before was not, and the
\* bank's booking it again is not held against the core.
LEMMA PurchaseSettles ==
    ASSUME Sound, Sound', InTheirTopics, BankAlone, Waiting("purchases"),
           Post(NextFact("purchases")), Cut("purchases") \/ Marked("purchases", TRUE)
    PROVE  /\ Rising
           /\ Marked("purchases", TRUE) \/ PassedOver("purchases") = {} => Level
<1> DEFINE l == "purchases"
           f == NextFact(l)
<1>1. /\ LogOK /\ LogOK' /\ BankOK /\ alive \subseteq Pip /\ l \in Topic
      /\ AllCounted /\ AllCounted'
  <2>1. LogOK'  BY DEF Sound, TypeOK, LogOK
  <2> QED BY <2>1, SoundIs, CountedIs, CountedNext, Setting DEF Found, CoreOK
<1>2. /\ f \in Fact /\ f.topic = l
  <2>1. ahead[l] + 1 \in 1..Len(log[l]) /\ f = log[l][ahead[l] + 1] /\ f \in Fact
        /\ log[l] \in Seq(Fact)
    BY <1>1, NextFactIs
  <2> HIDE DEF l, f
  <2>2. ahead[l] + 1 \in DOMAIN log[l]  BY <2>1
  <2> QED BY <1>1, <2>1, <2>2 DEF InTheirTopics
<1>3. /\ \A p \in Pip : Held(p)' = Held(p) - Due(f, p)
      /\ balance'[Treasury] = balance[Treasury]
  <2>1. /\ Passed(balance, balance', f.pip, Farm, Price)
        /\ \A p \in Pip : Held(p)' = Held(p) - IF p = f.pip /\ ~f.done THEN Price ELSE 0
    BY <1>1, <1>2, PostIs
  <2>2. Treasury \in Account \ {f.pip, Farm}  BY <1>2, Setting DEF Fact
  <2>3. balance'[Treasury] = balance[Treasury]  BY <2>1, <2>2 DEF Passed
  <2>4. \A p \in Pip : Due(f, p) = IF p = f.pip /\ ~f.done THEN Price ELSE 0
    BY <1>2 DEF Due
  <2> HIDE DEF f
  <2> QED BY <2>1, <2>3, <2>4
<1>4. ASSUME NEW p \in Pip
      PROVE  \E m \in Nat : /\ Booked(p, m)
                            /\ Marked(l, TRUE) \/ PassedOver(l) = {} => m = 0
  <2>1. PICK m \in Nat :
           /\ DueIn(log[l], p) = m + Due(f, p) + DueIn(log'[l], p)
           /\ Marked(l, TRUE) \/ PassedOver(l) = {} => m = 0
    BY <1>1, DueTakenOff
  <2>2. Counted(p) /\ Counted(p)' /\ Due(f, p) \in Nat  BY <1>1, DueNat DEF AllCounted
  <2>3. DueIn(log[l], p) = m + Due(f, p) + DueIn(log'[l], p)  BY <2>1
  <2>4. Held(p)' = Held(p) - Due(f, p) /\ m \in Nat  BY <1>3
  <2>5. Booked(p, m)  BY ONLY <2>2, <2>3, <2>4 DEF Counted, Booked, l
  <2> QED BY <2>1, <2>5
<1> HIDE DEF f
<1>5. Rising  BY <1>1, <1>4, BankRising
<1>6. ASSUME Marked(l, TRUE) \/ PassedOver(l) = {} PROVE Level
  <2>1. \A p \in Pip : Booked(p, 0)  BY <1>4, <1>6
  <2> QED BY <1>1, <1>3, <2>1, BankLevel
<1> QED BY <1>5, <1>6

\* A fact that was not handled is due as it was.
LEMMA SkippedIsDue ==
    ASSUME LogOK, LogOK', NEW t \in Topic, Waiting(t), Marked(t, FALSE)
    PROVE  log'[t] = log[t]
<1> DEFINE s == log[t]
           k == ahead[t] + 1
           r == log'[t]
<1>1. s \in Seq(Fact) /\ r \in Seq(Fact) /\ k \in 1..Len(s) /\ s[k] \in Fact
      /\ NextFact(t) = s[k]
  BY NextFactIs DEF LogOK
<1>2. /\ Len(r) = Len(s) /\ \A n \in 1..Len(s) : n # k => r[n] = s[n]
      /\ r[k] = [s[k] EXCEPT !.done = @ \/ FALSE]
  BY <1>1 DEF Marked
<1>3. [s[k] EXCEPT !.done = @ \/ FALSE] = s[k]  BY <1>1 DEF Fact
<1> HIDE DEF r, s, k
<1>4. \A n \in 1..Len(s) : r[n] = s[n]  BY <1>2, <1>3
<1>5. r = s  BY <1>1, <1>2, <1>4, SeqEqual
<1> QED BY <1>5 DEF r, s

\* The estate in hand went to the treasury.
Inherited ==
    /\ twice' = twice
    /\ balance'[Treasury] = balance[Treasury] + escheat.amount
    /\ balance'[escheat.pip] = balance[escheat.pip] - escheat.amount
    /\ \A p \in Pip : p # escheat.pip => Held(p)' = Held(p)

LEMMA EscheatIs ==
    ASSUME Sound, escheat # Idle, Move(EscheatKey, escheat.pip, Estate)
    PROVE  IF Answer(EscheatKey, escheat.pip, Estate) = "paid" THEN Inherited
                                                                ELSE UNCHANGED <<balance, twice>>
<1>1. BankOK /\ balance \in Book /\ CallsOK  BY SoundIs DEF Found, BankOK
<1>2. /\ escheat.pip \in Account /\ Listed(Estate) /\ escheat.amount \in Coins
      /\ Treasury \in Account /\ escheat.pip # Treasury
  BY <1>1, EstateListed, CallsAre, Setting DEF Coins
<1>3. CASE Answer(EscheatKey, escheat.pip, Estate) = "paid"
  <2>1. balance' = Paid(balance, escheat.pip, One(Treasury, escheat.amount)) /\ twice' = twice
    BY <1>3 DEF Move, Estate
  <2>2. Passed(balance, balance', escheat.pip, Treasury, escheat.amount)
    BY <1>1, <1>2, <2>1, PaidOne
  <2>3. \A p \in Pip : p # escheat.pip => p \in Account \ {escheat.pip, Treasury}
    BY Setting
  <2> QED BY <1>3, <2>1, <2>2, <2>3 DEF Passed, Inherited, Held
<1>4. CASE Answer(EscheatKey, escheat.pip, Estate) # "paid"
  BY <1>4 DEF Move, bank
<1> QED BY <1>3, <1>4

\* The estate leaves the gap of its pip and of nobody else.
LEMMA InheritedGaps ==
    ASSUME Sound, Sound', BankAlone, escheat # Idle, Inherited,
           log'["purchases"] = log["purchases"]
    PROVE  \A p \in Pip :
              /\ p = escheat.pip => Gap(p)' = Gap(p) - escheat.amount
              /\ p # escheat.pip => Gap(p)' = Gap(p)
<1>1. AllCounted /\ AllCounted'  BY CountedIs, CountedNext
<1>2. escheat.pip \in Pip /\ escheat.amount \in Nat
  BY SoundIs, CallsAre DEF Found
<1>5. ASSUME NEW q \in Pip, q = escheat.pip PROVE Gap(q)' = Gap(q) - escheat.amount
  <2> DEFINE a == escheat.amount
             d == 0 - escheat.amount
  <2>1. d \in Int /\ a \in Nat  BY <1>2
  <2>2. Counted(q)  BY <1>1 DEF AllCounted
  <2>3. Held(q)' = Held(q) - a /\ log'["purchases"] = log["purchases"]
    <3>1. balance'[q] = balance[q] - a /\ twice'[q] = twice[q]  BY <1>5 DEF Inherited
    <3> HIDE DEF a
    <3> QED BY <2>1, <2>2, <3>1 DEF Counted, Held
  <2>4. Gap(q) \in Int  BY <2>2 DEF Counted
  <2>7. d = 0 - a  BY DEF a
  <2> HIDE DEF a, d
  <2>5. Booked(q, d)  BY ONLY <2>1, <2>2, <2>3, <2>7 DEF Counted, Booked
  <2>6. Gap(q)' = Gap(q) + d  BY <1>1, <2>1, <2>5, BankGap
  <2>8. Gap(q)' = Gap(q) - a  BY <2>1, <2>4, <2>6, <2>7
  <2> QED BY <2>8 DEF a
<1>6. ASSUME NEW p \in Pip, p # escheat.pip PROVE Gap(p)' = Gap(p)
  <2>1. Counted(p)  BY <1>1 DEF AllCounted
  <2>2. Held(p)' = Held(p) /\ log'["purchases"] = log["purchases"]
    BY <1>6 DEF Inherited
  <2>3. Booked(p, 0)  BY ONLY <2>1, <2>2 DEF Counted, Booked
  <2>4. Gap(p)' = Gap(p) + 0  BY <1>1, <2>3, BankGap
  <2> QED BY <2>1, <2>4 DEF Counted
<1> QED BY <1>5, <1>6

\* What the lifecycle consumer does to its topic leaves the purchases alone.
LEMMA OtherTopic ==
    ASSUME \/ Cut("lifecycle") \/ Marked("lifecycle", TRUE) \/ Marked("lifecycle", FALSE)
    PROVE  log'["purchases"] = log["purchases"]
BY Setting DEF Cut, Marked

LEMMA EscheatRises ==
    ASSUME Sound, Sound', Grounded, BankAlone, escheat # Idle, "restart" \notin upsets,
           Move(EscheatKey, escheat.pip, Estate), log'["purchases"] = log["purchases"]
    PROVE  Rising
<1>1. AllCounted /\ AllCounted'  BY CountedIs, CountedNext
<1>2. alive \subseteq Pip /\ alive' = alive /\ escheat.pip \in Pip /\ LogOK
  BY SoundIs, CallsAre DEF Found, CoreOK, BankAlone, core
<1>3. CASE UNCHANGED <<balance, twice>>
  <2>1. \A p \in Pip : DueIn(log'["purchases"], p) = DueIn(log["purchases"], p)  OBVIOUS
  <2>2. Level  BY <1>1, <1>3, <2>1, BankStill
  <2> QED BY <1>1, <1>2, <2>2, LevelRises
<1>4. CASE Inherited
  <2>1. escheat.pip \notin alive
    <3> DEFINE l == "lifecycle"
    <3>1. Waiting(l) /\ NextFact(l).pip = escheat.pip  BY DEF Grounded, EscheatInHand
    <3>2. l \in Topic  BY Setting
    <3>3. /\ ahead[l] + 1 \in 1..Len(log[l]) /\ NextFact(l) = log[l][ahead[l] + 1]
          /\ log[l] \in Seq(Fact)
      BY <1>2, <3>1, <3>2, NextFactIs
    <3>4. ahead[l] + 1 \in DOMAIN log[l]  BY <3>3
    <3> QED BY <3>1, <3>3, <3>4 DEF Grounded, TheDeadAreDead
  <2>2. \A p \in alive : Gap(p)' = Gap(p) /\ Gap(p) \in Int
    BY <1>1, <1>2, <1>4, <2>1, InheritedGaps DEF AllCounted, Counted
  <2>3. ASSUME NEW p \in alive' PROVE Gap(p)' >= Gap(p)
    <3>1. Gap(p)' = Gap(p) /\ Gap(p) \in Int  BY <1>2, <2>2
    <3> QED BY <3>1
  <2> QED BY <1>2, <2>3 DEF Rising
<1> QED BY <1>3, <1>4, EscheatIs

LEMMA ConsumersRise ==
    ASSUME Sound, Sound', Grounded, Consumers, upsets \subseteq upsets',
           upsets' \intersect {"replayed", "restart"} = {}
    PROVE  Rising
<1>1. /\ LogOK /\ CountsOK /\ LogOK' /\ AllCounted /\ AllCounted' /\ alive \subseteq Pip
      /\ "lifecycle" \in Topic /\ "purchases" \in Topic
  <2>1. LogOK'  BY DEF Sound, TypeOK, LogOK
  <2> QED BY <2>1, SoundIs, CountedIs, CountedNext, Setting DEF Found, CoreOK
<1>2. InTheirTopics /\ EscheatInHand /\ "restart" \notin upsets  BY DEF Grounded
<1>3. BankAlone  BY <1>2, ConsumersTake DEF BankAlone
<1>4. ASSUME NEW odd \in SUBSET Upsets, NEW t \in Topic, Waiting(t), Finish(t, odd)
      PROVE  Cut(t) \/ Marked(t, TRUE)
  BY <1>1, <1>4, FinishIs
<1>5. ASSUME UNCHANGED <<balance, twice>>, log'["purchases"] = log["purchases"] PROVE Rising
  <2>1. \A p \in Pip : DueIn(log'["purchases"], p) = DueIn(log["purchases"], p)
    BY <1>5
  <2>2. Level  BY <1>1, <1>3, <1>5, <2>1, BankStill
  <2> QED BY <1>1, <2>2, LevelRises
<1>6. \A f : Overtaken(f) \in SUBSET Upsets  BY DEF Overtaken, Upsets
<1>7. CASE BookPurchase
  <2>1. /\ Waiting("purchases") /\ Post(NextFact("purchases"))
        /\ Finish("purchases", Overtaken(NextFact("purchases")))
    BY <1>7 DEF BookPurchase
  <2>2. Cut("purchases") \/ Marked("purchases", TRUE)  BY <1>1, <1>4, <1>6, <2>1
  <2> QED BY <1>2, <1>3, <2>1, <2>2, PurchaseSettles
<1>8. CASE EscheatNothing
  <2>1. Waiting("lifecycle") /\ Finish("lifecycle", {}) /\ UNCHANGED <<balance, twice>>
    BY <1>8 DEF EscheatNothing, bank
  <2>2. {} \in SUBSET Upsets  OBVIOUS
  <2>3. Cut("lifecycle") \/ Marked("lifecycle", TRUE)  BY <1>1, <1>4, <2>1, <2>2
  <2> QED BY <1>5, <2>1, <2>3, OtherTopic
<1>9. CASE EscheatReads
  <2>1. UNCHANGED <<balance, twice>> /\ log' = log  BY <1>9 DEF EscheatReads, bank, kafka
  <2> QED BY <1>5, <2>1
<1>10. CASE EscheatTransfers
  <2> DEFINE odd == IF Answer(EscheatKey, escheat.pip, Estate) = "paid"
                    THEN {} ELSE {"escheat_refused"}
  <2>1. escheat # Idle /\ Move(EscheatKey, escheat.pip, Estate) /\ Finish("lifecycle", odd)
    BY <1>10 DEF EscheatTransfers
  <2>2. Waiting("lifecycle") /\ odd \in SUBSET Upsets
    BY <1>2, <2>1 DEF EscheatInHand, Upsets
  <2> HIDE DEF odd
  <2>3. Cut("lifecycle") \/ Marked("lifecycle", TRUE)  BY <1>1, <1>4, <2>1, <2>2
  <2> QED BY <1>2, <1>3, <2>1, <2>3, OtherTopic, EscheatRises
<1>11. ASSUME NEW t \in Topic, HandlingFails(t) PROVE Rising
  <2>1. Waiting(t)  BY <1>11 DEF HandlingFails
  <2>2. TRUE \in BOOLEAN /\ FALSE \in BOOLEAN  OBVIOUS
  <2>3. CASE Skip(t, FALSE) /\ UNCHANGED bank
    <3>1. Marked(t, FALSE)  BY <1>1, <2>1, <2>2, <2>3, SkipIs
    <3>2. log'["purchases"] = log["purchases"]
      <4>1. CASE t = "purchases"  BY <1>1, <2>1, <3>1, <4>1, SkippedIsDue
      <4>2. CASE t = "lifecycle"  BY <3>1, <4>2, OtherTopic
      <4> QED BY <4>1, <4>2 DEF Topic
    <3> QED BY <1>5, <2>3, <3>2 DEF bank
  <2>4. CASE t = "purchases" /\ Post(NextFact(t)) /\ Skip(t, TRUE)
    <3>1. Marked(t, TRUE)  BY <1>1, <2>1, <2>2, <2>4, SkipIs
    <3> QED BY <1>2, <1>3, <2>1, <2>4, <3>1, PurchaseSettles
  <2>5. CASE /\ t = "lifecycle" /\ escheat # Idle
             /\ Move(EscheatKey, escheat.pip, Estate) /\ Skip(t, TRUE)
    <3>1. Marked(t, TRUE)  BY <1>1, <2>1, <2>2, <2>5, SkipIs
    <3> QED BY <1>2, <1>3, <2>5, <3>1, OtherTopic, EscheatRises
  <2> QED BY <1>11, <2>3, <2>4, <2>5 DEF HandlingFails
<1>12. CASE BankRestarts
  <2>1. UNCHANGED <<balance, twice>> /\ log' = log  BY <1>12 DEF BankRestarts, bank
  <2> QED BY <1>5, <2>1
<1> QED BY <1>7, <1>8, <1>9, <1>10, <1>11, <1>12 DEF Consumers

\* A tick pays no more into the core than the bank has paid out.
LEMMA TickRises ==
    ASSUME Sound, Sound', NEW here, NEW dying \in SUBSET alive,
           NEW hungry \in SUBSET (alive \ dying), Tick(here, dying, hungry)
    PROVE  Rising
<1>1. PICK e \in [Pip -> Int] : Ticked(dying, e)  BY TickIs DEF Sound
<1>2. /\ outbox = << >> /\ intents' = << >> /\ UNCHANGED <<log, balance, twice, payroll>>
  BY DEF Tick, kafka, bank, calls
<1>3. AllCounted /\ AllCounted' /\ alive \subseteq Pip /\ alive' = alive \ dying
  BY <1>1, SoundIs, CountedIs, CountedNext DEF Found, CoreOK, Ticked
<1>4. ASSUME NEW p \in alive' PROVE Gap(p)' >= Gap(p)
  <2>1. p \in Pip /\ p \in Pip \ dying  BY <1>3
  <2>2. Counted(p) /\ Counted(p)'  BY <1>3, <2>1 DEF AllCounted
  <2>3. DueIn(outbox, p) = 0 /\ OwedIn(intents', p) = 0  BY <1>2, DueNothing, OwedNothing
  <2>4. Mirrored(p)' = Mirrored(p) /\ Held(p)' = Held(p) /\ log' = log
    BY <1>2 DEF Mirrored, Held
  <2>5. replica'[p] + DueIn(outbox', p) <= replica[p] + OwedIn(intents, p)
    BY <1>1, <2>1 DEF Ticked
  <2> QED BY ONLY <2>2, <2>3, <2>4, <2>5 DEF Counted
<1> QED BY <1>3, <1>4 DEF Rising

LEMMA StepRises ==
    ASSUME Sound, Sound', Grounded, Next, upsets \subseteq upsets',
           upsets' \intersect {"replayed", "restart"} = {}
    PROVE  Rising
<1>1. ASSUME NEW dying \in SUBSET alive, NEW here,
             NEW hungry \in SUBSET (alive \ dying), Tick(here, dying, hungry)
      PROVE  Rising
  BY <1>1, TickRises
<1>2. CASE Publish  BY <1>2, PublishSettles DEF Settled
<1>3. ~CoreRestarts  BY DEF CoreRestarts, Upset
<1>4. CASE Gateway  BY <1>4, GatewaySettles DEF Settled
<1>5. CASE Consumers  BY <1>5, ConsumersRise
<1> QED
  <2>1. CASE \E dying \in SUBSET alive :
                \E here \in SUBSET alive, hungry \in SUBSET (alive \ dying) :
                   Tick(here, dying, hungry)
    BY <1>1, <2>1
  <2> QED BY <1>2, <1>3, <1>4, <1>5, <2>1 DEF Next, Core

LEMMA StayPoorer ==
    ASSUME Sound, Grounded, PoorerOnTheWay, [Next]_vars
    PROVE  PoorerOnTheWay'
<1>1. Sound' /\ upsets \subseteq upsets'  BY GroundedStep
<1>2. CASE UNCHANGED vars
  BY <1>2 DEF vars, core, kafka, bank, calls, PoorerOnTheWay, Gap, Held, Unbooked,
              Uncredited, Mirrored
<1>3. CASE Next
  <2> SUFFICES ASSUME upsets' \intersect {"replayed", "restart"} = {}, NEW p \in alive'
               PROVE  Gap(p)' >= 0
    BY DEF PoorerOnTheWay
  <2>1. Rising  BY <1>1, <1>3, StepRises
  <2>2. p \in alive /\ Gap(p)' >= Gap(p)  BY <2>1 DEF Rising
  <2>3. Gap(p) >= 0  BY <1>1, <2>2 DEF PoorerOnTheWay
  <2>4. Gap(p) \in Int /\ Gap(p)' \in Int
    <3>1. p \in Pip  BY <2>2, SoundIs DEF Found, CoreOK
    <3>2. Counted(p) /\ Counted(p)'  BY <1>1, <3>1, CountedIs, CountedNext DEF AllCounted
    <3> QED BY <3>2 DEF Counted
  <2> QED BY <2>2, <2>3, <2>4
<1> QED BY <1>2, <1>3

LEMMA NothingOnTheWay ==
    ASSUME Init
    PROVE  /\ \A p \in Pip : Gap(p) = 0
           /\ Unissued = 0 /\ balance[Treasury] = 0 /\ replica[Treasury] = 0
<1>1. /\ outbox = << >> /\ intents = << >> /\ log["purchases"] = << >> /\ payroll = Idle
      /\ endowment = Idle
      /\ \A a \in Account : replica[a] = 0 /\ balance[a] = 0
      /\ \A p \in Pip : twice[p] = 0
  BY Setting DEF Init
<1>2. ASSUME NEW p \in Pip PROVE Gap(p) = 0
  <2>1. Held(p) = 0 /\ replica[p] = 0
    <3>1. balance[p] = 0 /\ twice[p] = 0 /\ replica[p] = 0  BY <1>1, Setting
    <3> QED BY <3>1 DEF Held
  <2>2. DueIn(outbox, p) = 0 /\ DueIn(log["purchases"], p) = 0 /\ OwedIn(intents, p) = 0
    BY <1>1, DueNothing, OwedNothing
  <2>3. Mirrored(p) = 0  BY <1>1 DEF Mirrored
  <2> QED BY <2>1, <2>2, <2>3 DEF Gap, Unbooked, Uncredited
<1>3. Unissued = 0  BY <1>1, ToIssueNothing DEF Unissued, Endowed
<1> QED BY <1>1, <1>2, <1>3, Setting

\* A living pip is never richer in the core than at the bank, even once every
\* purchase on its way is booked, but for what purchases the bank booked again
\* cost it (payWages mirrors only what the bank has paid, and the core takes back
\* a purchase before it reports it): lost calls, facts and answers only ever
\* leave the bank ahead, for any number of them, and a redelivered fact is the
\* one thing that leaves it behind.
THEOREM NeverRicherInTheCore == Spec => []PoorerInTheCore
<1> DEFINE I == Sound /\ Grounded /\ PoorerOnTheWay
<1>1. Init => I
  <2> SUFFICES ASSUME Init PROVE I  OBVIOUS
  <2>1. \A p \in Pip : Gap(p) >= 0  BY NothingOnTheWay
  <2>2. alive \subseteq Pip  BY DEF Init
  <2> QED BY <2>1, <2>2, SoundInit, GroundedInit DEF PoorerOnTheWay
<1>2. I /\ [Next]_vars => I'  BY GroundedStep, StayPoorer
<1>3. I => PoorerInTheCore
  <2> SUFFICES ASSUME I, upsets \intersect {"replayed", "restart"} = {}, NEW p \in alive
               PROVE  replica[p] + Unbooked(p) <= balance[p] + twice[p]
    BY DEF PoorerInTheCore
  <2>1. Gap(p) >= 0 /\ p \in Pip  BY SoundIs DEF PoorerOnTheWay, Found, CoreOK
  <2>2. Counted(p)  BY <2>1, CountedIs DEF AllCounted
  <2>3. Unbooked(p) = DueIn(outbox, p) + DueIn(log["purchases"], p)  BY DEF Unbooked
  <2> QED BY ONLY <2>1, <2>2, <2>3 DEF Counted
<1> HIDE DEF I
<1> QED BY <1>1, <1>2, <1>3, PTL DEF Spec

-----------------------------------------------------------------------------
(* Nobody's debt at the bank. *)

LEMMA PaidUp ==
    ASSUME Sound, escheat # Idle, Answer(EscheatKey, escheat.pip, Estate) = "paid"
    PROVE  balance[escheat.pip] >= escheat.amount
<1>1. CallsOK  BY SoundIs DEF Found
<1>2. escheat.pip \in Pip /\ escheat.amount \in Nat  BY <1>1, CallsAre
<1>3. SumOf(Estate) = escheat.amount
  <2>1. DOMAIN Estate = {Treasury} /\ Estate[Treasury] = escheat.amount
    BY DEF Estate, One
  <2>2. SumOver(Estate, {Treasury}) = Estate[Treasury]  BY <1>2, <2>1, SumSingle
  <2> QED BY <2>1, <2>2 DEF SumOf
<1>4. escheat.pip # Treasury  BY <1>2, Setting
<1> QED BY <1>3, <1>4 DEF Answer

\* A call is answered from its key; only a fact is booked twice.
LEMMA GatewayBooksOnce == ASSUME Gateway PROVE twice' = twice
<1>1. CASE PayWages  BY <1>1 DEF PayWages, Move, bank
<1>2. CASE IssueEndowment  BY <1>2 DEF IssueEndowment, Move, bank
<1>3. CASE Register \/ MirrorWages \/ Endow \/ MirrorEndowment
  BY <1>3 DEF Register, MirrorWages, Endow, MirrorEndowment, bank
<1>4. ASSUME NEW S, Cycle(S) PROVE twice' = twice  BY <1>4 DEF Cycle, bank
<1>5. ASSUME NEW p, Buy(p) PROVE twice' = twice  BY <1>5 DEF Buy, bank
<1> QED BY <1>1, <1>2, <1>3, <1>4, <1>5 DEF Gateway, PlayerBuys

LEMMA GatewayOwesNothing ==
    ASSUME Sound, Gateway
    PROVE  \A p \in Pip : Held(p)' >= Held(p)
<1>1. BankOK /\ balance \in Book /\ CallsOK  BY SoundIs DEF Found, BankOK
<1>2. \A p \in Pip : /\ balance[p] \in Int /\ twice[p] \in Nat /\ p # Farm /\ p # Treasury
                    /\ p \in Account
  BY <1>1, Setting DEF Book, BankOK
<1>9. twice' = twice  BY GatewayBooksOnce
<1>3. ASSUME balance' = balance PROVE \A p \in Pip : Held(p)' >= Held(p)
  BY <1>2, <1>3, <1>9 DEF Held
<1>4. CASE PayWages
  <2> DEFINE c == payroll.credits
             key == <<Farm, "batch", payroll.tick, "WAGE">>
  <2>1. payroll # Idle /\ (Move(key, Farm, c) \/ balance' = balance)
    BY <1>4 DEF PayWages, bank
  <2>2. c \in Wages /\ Listed(c)  BY <1>1, <2>1, CallsAre, CreditsListed
  <2>3. Farm \in Account  BY Setting
  <2> HIDE DEF c, key
  <2>4. CASE balance' = Paid(balance, Farm, c)
    <3>1. ASSUME NEW p \in Pip PROVE Held(p)' >= Held(p)
      <4> DEFINE w == IF p \in DOMAIN c THEN c[p] ELSE 0
      <4>1. w \in Nat  BY <2>2, WagesAre
      <4>2. balance'[p] = balance[p] + w - 0  BY <1>2, <2>4 DEF Paid
      <4> HIDE DEF w
      <4> QED BY <1>2, <1>9, <4>1, <4>2 DEF Held
    <3> QED BY <3>1
  <2> QED BY <1>1, <1>3, <2>1, <2>2, <2>3, <2>4, MoveIs
<1>5. CASE IssueEndowment
  <2> DEFINE n == endowment.amount
             c == One(Farm, n)
             key == <<Treasury, Farm, endowment.tick, "ISSUANCE">>
  <2>1. endowment # Idle /\ (Move(key, Treasury, c) \/ balance' = balance)
    BY <1>5 DEF IssueEndowment, bank
  <2>2. n \in Coins /\ Listed(c) /\ Treasury \in Account /\ Farm \in Account /\ Treasury # Farm
    BY <1>1, <2>1, CallsAre, CreditsListed, Setting DEF Coins
  <2> HIDE DEF n, key
  <2>3. CASE balance' = Paid(balance, Treasury, c)
    <3>1. Passed(balance, balance', Treasury, Farm, n)  BY <1>1, <2>2, <2>3, PaidOne
    <3>2. \A p \in Pip : p \in Account \ {Treasury, Farm}  BY <1>2
    <3>3. \A p \in Pip : balance'[p] = balance[p]  BY <3>1, <3>2 DEF Passed
    <3> QED BY <1>2, <1>9, <3>3 DEF Held
  <2> HIDE DEF c
  <2> QED BY <1>1, <1>3, <2>1, <2>2, <2>3, MoveIs
<1>6. ASSUME NEW S, Cycle(S) PROVE balance' = balance  BY <1>6 DEF Cycle, bank
<1>7. ASSUME NEW p, Buy(p) PROVE balance' = balance  BY <1>7 DEF Buy, bank
<1>8. CASE Register \/ MirrorWages \/ Endow \/ MirrorEndowment
  <2>1. balance' = balance  BY <1>8 DEF Register, MirrorWages, Endow, MirrorEndowment, bank
  <2> QED BY <1>3, <2>1
<1> QED BY <1>3, <1>4, <1>5, <1>6, <1>7, <1>8 DEF Gateway, PlayerBuys

\* Only a purchase that comes after the estate was moved leaves a debt, and it is
\* named.
LEMMA ConsumersOweNothing ==
    ASSUME Sound, EscheatInHand, Consumers, upsets' = {},
           \A p \in Pip : Held(p) >= 0
    PROVE  \A p \in Pip : Held(p)' >= 0
<1>1. /\ LogOK /\ CountsOK /\ BankOK /\ balance \in Book /\ CallsOK
      /\ \A p \in Pip : balance[p] \in Int /\ twice[p] \in Nat /\ Held(p) \in Int
      /\ "lifecycle" \in Topic /\ "purchases" \in Topic
  BY SoundIs, CountedIs, Setting DEF Found, BankOK, AllCounted, Counted
<1>2. ASSUME NEW t \in Topic, Waiting(t), Post(NextFact(t)), Overtaken(NextFact(t)) = {}
      PROVE  \A p \in Pip : Held(p)' >= 0
  <2> DEFINE f == NextFact(t)
  <2>1. f \in Fact  BY <1>1, <1>2, NextFactIs
  <2>2. ASSUME NEW p \in Pip, p = f.pip PROVE Held(p)' >= 0
    <3>1. ~(balance'[p] + twice'[p] < 0)  BY <1>2, <2>2 DEF Overtaken
    <3>2. BankOK' /\ p \in Account  BY <1>1, <1>2, <2>1, PostIs, Setting
    <3>3. balance'[p] \in Int /\ twice'[p] \in Nat  BY <3>2 DEF BankOK, Book
    <3> HIDE DEF f
    <3> QED BY <3>1, <3>3 DEF Held
  <2>3. ASSUME NEW p \in Pip, p # f.pip PROVE Held(p)' >= 0
    <3>1. Held(p)' = Held(p) - IF p = f.pip /\ ~f.done THEN Price ELSE 0
      BY <1>1, <1>2, <2>1, PostIs
    <3> HIDE DEF f
    <3> QED BY <1>1, <2>3, <3>1
  <2> HIDE DEF f
  <2>4. ASSUME NEW p \in Pip PROVE Held(p)' >= 0
    <3>1. p = f.pip \/ p # f.pip  OBVIOUS
    <3> QED BY <2>2, <2>3, <3>1
  <2> QED BY <2>4
<1>3. ASSUME UNCHANGED <<balance, twice>> PROVE \A p \in Pip : Held(p)' >= 0
  BY <1>3 DEF Held
<1>4. ASSUME escheat # Idle, Move(EscheatKey, escheat.pip, Estate)
      PROVE  \A p \in Pip : Held(p)' >= 0
  <2>1. CASE Answer(EscheatKey, escheat.pip, Estate) = "paid"
    <3>1. balance[escheat.pip] >= escheat.amount /\ Inherited
      BY <1>4, <2>1, PaidUp, EscheatIs
    <3>2. escheat.pip \in Pip /\ escheat.amount \in Nat  BY <1>1, <1>4, CallsAre
    <3>3. ASSUME NEW p \in Pip, p = escheat.pip PROVE Held(p)' >= 0
      <4>1. balance'[p] = balance[p] - escheat.amount /\ twice'[p] = twice[p]
        BY <3>1, <3>3 DEF Inherited
      <4>2. balance[p] \in Int /\ twice[p] \in Nat  BY <1>1
      <4> QED BY <3>1, <3>2, <3>3, <4>1, <4>2 DEF Held
    <3> QED BY <3>1, <3>3 DEF Inherited
  <2>2. CASE Answer(EscheatKey, escheat.pip, Estate) # "paid"
    BY <1>3, <1>4, <2>2, EscheatIs
  <2> QED BY <2>1, <2>2
<1>5. CASE BookPurchase
  <2>1. /\ Waiting("purchases") /\ Post(NextFact("purchases"))
        /\ Finish("purchases", Overtaken(NextFact("purchases")))
    BY <1>5 DEF BookPurchase
  <2>2. Overtaken(NextFact("purchases")) \in SUBSET Upsets  BY DEF Overtaken, Upsets
  <2>3. Overtaken(NextFact("purchases")) \subseteq upsets'  BY <1>1, <2>1, <2>2, FinishIs
  <2> QED BY <1>1, <1>2, <2>1, <2>3
<1>6. ASSUME NEW t \in Topic, HandlingFails(t) PROVE \A p \in Pip : Held(p)' >= 0
  <2>1. CASE UNCHANGED bank  BY <1>3, <2>1 DEF bank
  <2>2. CASE Post(NextFact(t)) /\ Upset(Overtaken(NextFact(t)))
    <3>1. Overtaken(NextFact(t)) = {}  BY <2>2 DEF Upset
    <3> QED BY <1>2, <1>6, <2>2, <3>1 DEF HandlingFails
  <2>3. CASE escheat # Idle /\ Move(EscheatKey, escheat.pip, Estate)  BY <1>4, <2>3
  <2> QED BY <1>6, <2>1, <2>2, <2>3 DEF HandlingFails
<1>7. CASE EscheatTransfers  BY <1>4, <1>7 DEF EscheatTransfers
<1>8. CASE EscheatNothing \/ EscheatReads \/ BankRestarts
  <2>1. UNCHANGED <<balance, twice>>  BY <1>8 DEF EscheatNothing, EscheatReads, BankRestarts, bank
  <2> QED BY <1>3, <2>1
<1> QED BY <1>5, <1>6, <1>7, <1>8 DEF Consumers

LEMMA StayOutOfDebt ==
    ASSUME Sound, Sound', Grounded, NoDebtAtTheBank, [Next]_vars, upsets \subseteq upsets'
    PROVE  NoDebtAtTheBank'
<1> SUFFICES ASSUME upsets' = {} PROVE \A p \in Pip : Held(p)' >= 0
  BY DEF NoDebtAtTheBank
<1>1. \A p \in Pip : Held(p) >= 0  BY DEF NoDebtAtTheBank
<1>2. \A p \in Pip : Held(p) \in Int /\ Held(p)' \in Int
  BY CountedIs, CountedNext DEF AllCounted, Counted
<1>3. CASE Core \/ UNCHANGED vars
  <2>1. UNCHANGED <<balance, twice>>
    BY <1>3 DEF Core, Tick, Publish, CoreRestarts, vars, bank
  <2> QED BY <1>1, <2>1 DEF Held
<1>4. CASE Gateway
  <2>1. \A p \in Pip : Held(p)' >= Held(p)  BY <1>4, GatewayOwesNothing
  <2> QED BY <1>1, <1>2, <2>1
<1>5. CASE Consumers  BY <1>1, <1>5, ConsumersOweNothing DEF Grounded
<1> QED BY <1>3, <1>4, <1>5 DEF Next

-----------------------------------------------------------------------------
(* Both books meet. *)

\* What was booked twice stays so.
Grew == \A p \in Pip : twice[p] \in Nat /\ twice'[p] \in Nat /\ twice'[p] >= twice[p]

LEMMA TwiceGrows ==
    ASSUME Sound, [Next]_vars
    PROVE  Grew
<1>1. /\ BankOK /\ LogOK /\ "purchases" \in Topic
      /\ \A p \in Pip : twice[p] \in Nat
  BY SoundIs, Setting DEF Found, BankOK
<1>2. ASSUME twice' = twice
      PROVE  Grew
  BY <1>1, <1>2 DEF Grew
<1>3. ASSUME NEW t \in Topic, Waiting(t), Post(NextFact(t))
      PROVE  Grew
  <2>1. NextFact(t) \in Fact  BY <1>1, <1>3, NextFactIs
  <2>2. BankOK' /\ \A p \in Pip : twice'[p] >= twice[p]  BY <1>1, <1>3, <2>1, PostIs
  <2> QED BY <1>1, <2>2 DEF BankOK, Grew
<1>4. CASE Core \/ UNCHANGED vars
  <2>1. twice' = twice  BY <1>4 DEF Core, Tick, Publish, CoreRestarts, vars, bank
  <2> QED BY <1>2, <2>1
<1>5. CASE Gateway  BY <1>2, <1>5, GatewayBooksOnce
<1>6. CASE BookPurchase  BY <1>1, <1>3, <1>6 DEF BookPurchase
<1>7. CASE EscheatNothing \/ EscheatReads \/ EscheatTransfers \/ BankRestarts
  <2>1. twice' = twice
    BY <1>7 DEF EscheatNothing, EscheatReads, EscheatTransfers, BankRestarts, Move, bank
  <2> QED BY <1>2, <2>1
<1>8. ASSUME NEW t \in Topic, HandlingFails(t)
      PROVE  Grew
  <2>1. CASE twice' = twice  BY <1>2, <2>1
  <2>2. CASE Waiting(t) /\ Post(NextFact(t))  BY <1>3, <2>2
  <2> QED BY <1>8, <2>1, <2>2 DEF HandlingFails, Move, bank
<1> QED BY <1>4, <1>5, <1>6, <1>7, <1>8 DEF Next, Consumers

\* The sum of the bank's leads moves by what each moves by.
LEMMA LeadsMove ==
    ASSUME AllCounted, AllCounted', NEW h, \A p \in Pip : h[p] \in Int,
           \A p \in Pip : Gap(p)' = Gap(p) + h[p]
    PROVE  /\ SumOver(Gaps', Pip) = SumOver(Gaps, Pip) + SumOver(h, Pip)
           /\ SumOver(Gaps, Pip) \in Int /\ SumOver(Gaps', Pip) \in Int
           /\ SumOver(h, Pip) \in Int
<1>1. \A p \in Pip : /\ Gaps[p] = Gap(p) /\ Gaps'[p] = Gap(p)'
                     /\ Gap(p) \in Int /\ Gap(p)' \in Int
  BY DEF Gaps, AllCounted, Counted
<1>2. \A p \in Pip : Gaps[p] \in Int /\ h[p] \in Int /\ Gaps'[p] = Gaps[p] + h[p]
  BY <1>1
<1>3. \A p \in Pip : Gaps'[p] \in Int  BY <1>1
<1>4. IsFiniteSet(Pip)  BY Setting
<1>5. SumOver(Gaps', Pip) = SumOver(Gaps, Pip) + SumOver(h, Pip)
  BY ONLY <1>2, <1>4, SumAdd
<1>6. \A p \in Pip : Gaps[p] \in Int  BY <1>1
<1>7. SumOver(Gaps, Pip) \in Int  BY ONLY <1>4, <1>6, SumInt
<1>8. SumOver(Gaps', Pip) \in Int  BY ONLY <1>3, <1>4, SumInt
<1>9. SumOver(h, Pip) \in Int
  <2>1. \A p \in Pip : h[p] \in Int  OBVIOUS
  <2> QED BY ONLY <1>4, <2>1, SumInt
<1> QED BY <1>5, <1>7, <1>8, <1>9

LEMMA LeadsStay ==
    ASSUME AllCounted, AllCounted', \A p \in Pip : Gap(p)' = Gap(p)
    PROVE  /\ SumOver(Gaps', Pip) = SumOver(Gaps, Pip)
           /\ SumOver(Gaps, Pip) \in Int
<1> DEFINE h == [p \in Pip |-> 0]
<1>1. \A p \in Pip : h[p] = 0 /\ h[p] \in Int  OBVIOUS
<1> HIDE DEF h
<1>2. \A p \in Pip : Gap(p)' = Gap(p) + h[p]
  <2>1. \A p \in Pip : Gap(p) \in Int  BY DEF AllCounted, Counted
  <2> QED BY <1>1, <2>1
<1>3. SumOver(Gaps', Pip) = SumOver(Gaps, Pip) + SumOver(h, Pip)
      /\ SumOver(Gaps, Pip) \in Int
  BY <1>1, <1>2, LeadsMove
<1>4. SumOver(h, Pip) = 0  BY <1>1, Setting, SumZero
<1> QED BY <1>3, <1>4

LEMMA GapsInt == ASSUME AllCounted PROVE \A p \in Pip : Gap(p) \in Int
BY DEF AllCounted, Counted

\* Steps after which every death still to be handled is still to be handled.
LEMMA LevelMeets ==
    ASSUME Sound, Sound', Level, upsets = {}, Accounted, Grew,
           \A p \in Pip : Mourned(p) /\ Gap(p) # 0 => Mourned(p)' \/ Spent(p),
           \A p \in Pip : escheat' # Idle /\ escheat'.pip = p =>
                             escheat' = escheat \/ escheat'.amount + twice[p] >= Gap(p)
    PROVE  Accounted'
<1>1. AllCounted /\ AllCounted'  BY CountedIs, CountedNext
<1>2. alive' = alive /\ \A p \in Pip : Gap(p)' = Gap(p) /\ Gap(p) \in Int
  BY <1>1, GapsInt DEF Level
<1>3. escheat' # Idle => escheat'.amount \in Nat
  <2>1. CallsOK'  BY DEF Sound, TypeOK, CallsOK
  <2> QED BY <2>1 DEF CallsOK, Inheritance
<1>4. Accounted'
  <2>1. ASSUME NEW p \in Pip, Gap(p)' # 0 PROVE Mourned(p)' \/ Spent(p)'
    <3>1. Mourned(p)' \/ Spent(p)  BY <1>2, <2>1 DEF Accounted
    <3>2. Spent(p) => Spent(p)'  BY <1>2 DEF Spent, Grew
    <3> QED BY <3>1, <3>2
  <2>2. ASSUME NEW p \in Pip, escheat' # Idle, escheat'.pip = p
        PROVE  escheat'.amount + twice'[p] >= Gap(p)'
    <3>1. escheat'.amount + twice[p] >= Gap(p)  BY <2>2 DEF Accounted
    <3>2. /\ escheat'.amount \in Nat /\ Gap(p)' = Gap(p) /\ Gap(p) \in Int
          /\ twice[p] \in Nat /\ twice'[p] \in Nat /\ twice'[p] >= twice[p]
      BY <1>2, <1>3, <2>2 DEF Grew
    <3> QED BY <3>1, <3>2
  <2>3. replica'[Treasury] = balance'[Treasury] + Unissued' + SumOver(Gaps', Pip)
    <3>1. SumOver(Gaps', Pip) = SumOver(Gaps, Pip) /\ SumOver(Gaps, Pip) \in Int
      BY <1>1, <1>2, LeadsStay
    <3>2. replica[Treasury] = balance[Treasury] + Unissued + SumOver(Gaps, Pip)
      BY DEF Accounted
    <3>3. balance'[Treasury] + Unissued' - replica'[Treasury]
             = balance[Treasury] + Unissued - replica[Treasury]
      BY DEF Level
    <3>4. CountedIssues /\ CountedIssues'  BY <1>1 DEF AllCounted
    <3>5. /\ balance[Treasury] \in Int /\ replica[Treasury] \in Int /\ Unissued \in Int
          /\ balance'[Treasury] \in Int /\ replica'[Treasury] \in Int /\ Unissued' \in Int
      BY ONLY <3>4 DEF CountedIssues
    <3> DEFINE b == balance[Treasury]
               c == balance'[Treasury]
               r == replica[Treasury]
               s == replica'[Treasury]
               u == Unissued
               v == Unissued'
               g == SumOver(Gaps, Pip)
    <3>6. r = b + u + g /\ c + v - s = b + u - r  BY <3>2, <3>3
    <3>7. b \in Int /\ c \in Int /\ r \in Int /\ s \in Int /\ u \in Int /\ v \in Int /\ g \in Int
      BY <3>1, <3>5
    <3> HIDE DEF b, c, r, s, u, v, g
    <3>8. s = c + v + g  BY <3>6, <3>7
    <3> QED BY <3>1, <3>8 DEF s, c, v, g
  <2> QED BY <2>1, <2>2, <2>3 DEF Accounted
<1> QED BY <1>4

\* Of the deaths in its topic, only the one in hand is no longer to be handled.
LEMMA DeathsLeft ==
    ASSUME LogOK, LogOK', Waiting("lifecycle"),
           \/ Cut("lifecycle") /\ PassedOver("lifecycle") = {}
           \/ Marked("lifecycle", TRUE)
    PROVE  \A p : /\ DeathIn(log["lifecycle"], p)
                  /\ p # NextFact("lifecycle").pip
                  => DeathIn(log'["lifecycle"], p)
<1> DEFINE l == "lifecycle"
           s == log[l]
           k == ahead[l] + 1
           r == log'[l]
<1>1. /\ s \in Seq(Fact) /\ r \in Seq(Fact) /\ k \in 1..Len(s) /\ ahead[l] \in Nat
      /\ NextFact(l) = s[k] /\ k + 1 = ahead[l] + 2 /\ ahead[l] = k - 1
  BY NextFactIs, Setting DEF LogOK
<1>2. DOMAIN s = 1..Len(s) /\ DOMAIN r = 1..Len(r) /\ Len(s) \in Nat
  <2> HIDE DEF s, r
  <2> QED BY <1>1, Lookup
<1> SUFFICES ASSUME NEW p, DeathIn(s, p), p # s[k].pip
             PROVE  DeathIn(r, p)
  BY <1>1
<1>3. PICK n \in 1..Len(s) : s[n].topic = "lifecycle" /\ s[n].pip = p /\ ~s[n].done
  <2> HIDE DEF s
  <2> QED BY <1>2 DEF DeathIn
<1>4. n # k  BY <1>3
<1>5. CASE Marked(l, TRUE)
  <2>1. Len(r) = Len(s) /\ r[n] = s[n]  BY <1>1, <1>3, <1>4, <1>5 DEF Marked
  <2> HIDE DEF r, s
  <2>2. n \in DOMAIN r  BY <1>2, <2>1
  <2> QED BY <1>3, <2>1, <2>2 DEF DeathIn
<1>6. CASE Cut(l) /\ PassedOver(l) = {}
  <2>1. r = SubSeq(s, k + 1, Len(s))  BY <1>1, <1>6 DEF Cut
  <2>2. ~(n \in 1..k - 1)
    <3>1. \A m \in 1..k - 1 : s[m].done
      <4>1. PassedOver(l) = {m \in 1..k - 1 : ~s[m].done}  BY <1>1 DEF PassedOver
      <4> HIDE DEF k, s
      <4> QED BY <1>6, <4>1
    <3>2. ~s[n].done  BY <1>3
    <3> HIDE DEF k, s
    <3> QED BY ONLY <3>1, <3>2
  <2> HIDE DEF r, k, s
  <2>3. /\ n - k \in 1..Len(s) - k /\ k + (n - k) = n
    BY <1>1, <1>2, <1>3, <1>4, <2>2
  <2>4. DOMAIN r = 1..Len(s) - k /\ \A m \in 1..Len(s) - k : r[m] = s[k + m]
    <3>1. s \in Seq(Fact) /\ k \in 1..Len(s) /\ Len(s) \in Nat  BY <1>1, <1>2
    <3> DEFINE q == SubSeq(s, k + 1, Len(s))
    <3>2. DOMAIN q = 1..Len(s) - k /\ \A m \in 1..Len(s) - k : q[m] = s[k + m]
      BY ONLY <3>1
    <3> QED BY <2>1, <3>2
  <2>5. n - k \in DOMAIN r /\ r[n - k] = s[n]
    <3> DEFINE m == n - k
    <3>1. m \in 1..Len(s) - k /\ k + m = n  BY <2>3
    <3> HIDE DEF m
    <3>2. m \in DOMAIN r /\ r[m] = s[n]  BY <2>4, <3>1
    <3> QED BY <3>2 DEF m
  <2> QED BY <1>3, <2>5 DEF DeathIn
<1> QED BY <1>5, <1>6

\* A tick moves what the dying had left to the treasury; their deaths are reported.
LEMMA TickMeets ==
    ASSUME Sound, Sound', Grounded, upsets = {}, upsets' = {},
           Accounted, Grew, NEW here,
           NEW dying \in SUBSET alive, NEW hungry \in SUBSET (alive \ dying),
           Tick(here, dying, hungry)
    PROVE  Accounted'
<1>1. PICK e \in [Pip -> Int] : Ticked(dying, e)  BY TickIs DEF Sound
<1>2. /\ outbox = << >> /\ intents' = << >>
      /\ UNCHANGED <<log, balance, twice, payroll, endowment, escheat>>
  BY DEF Tick, kafka, bank, calls
<1>3. /\ AllCounted /\ AllCounted' /\ alive \subseteq Pip /\ alive' = alive \ dying
      /\ LogOK /\ CallsOK /\ built
  BY <1>1, SoundIs, CountedIs, CountedNext DEF Found, CoreOK, Ticked, Grounded, StillBuilt
<1>4. /\ \A p \in Pip : replica'[p] + DueIn(outbox', p) + e[p]
                           = replica[p] + OwedIn(intents, p)
      /\ replica'[Treasury] = replica[Treasury] - ToIssueIn(intents) + SumOver(e, Pip)
      /\ \A p \in Pip \ dying : e[p] = 0
      /\ \A p \in dying : DeathIn(outbox', p)
  BY <1>1, <1>3 DEF Ticked
<1>5. ASSUME NEW p \in Pip PROVE Gap(p)' = Gap(p) + e[p]
  <2>1. Counted(p) /\ Counted(p)' /\ e[p] \in Int  BY <1>3 DEF AllCounted
  <2>2. DueIn(outbox, p) = 0 /\ OwedIn(intents', p) = 0  BY <1>2, DueNothing, OwedNothing
  <2>3. Mirrored(p)' = Mirrored(p) /\ Held(p)' = Held(p) /\ log' = log
    BY <1>2 DEF Mirrored, Held
  <2>4. replica'[p] + DueIn(outbox', p) + e[p] = replica[p] + OwedIn(intents, p)
    BY <1>4
  <2> QED BY ONLY <2>1, <2>2, <2>3, <2>4 DEF Counted
<1>6. ASSUME NEW p \in Pip, p \notin dying PROVE Gap(p)' = Gap(p)
  <2>1. e[p] = 0 /\ Gap(p)' = Gap(p) + e[p] /\ Gap(p) \in Int
    BY <1>3, <1>4, <1>5, <1>6, GapsInt
  <2> QED BY <2>1
<1>8. Accounted'
  <2>1. ASSUME NEW p \in Pip, Gap(p)' # 0 PROVE Mourned(p)' \/ Spent(p)'
    <3>1. CASE p \in dying  BY <1>4, <3>1 DEF Mourned
    <3>2. CASE p \notin dying
      <4>1. Gap(p)' = Gap(p) /\ Gap(p) # 0  BY <1>6, <2>1, <3>2
      <4>2. Mourned(p) \/ Spent(p)  BY <4>1 DEF Accounted
      <4>3. ~DeathIn(outbox, p)  BY <1>2 DEF DeathIn
      <4>4. Mourned(p) => Mourned(p)'  BY <1>2, <4>3 DEF Mourned
      <4>5. Spent(p) => Spent(p)'  BY <1>2, <1>3, <4>1 DEF Spent
      <4> QED BY <4>2, <4>4, <4>5
    <3> QED BY <3>1, <3>2
  <2>2. ASSUME NEW p \in Pip, escheat' # Idle, escheat'.pip = p
        PROVE  escheat'.amount + twice'[p] >= Gap(p)'
    <3> DEFINE l == "lifecycle"
    <3>1. escheat # Idle /\ escheat.pip = p /\ escheat'.amount = escheat.amount
      BY <1>2, <2>2
    <3>2. Waiting(l) /\ NextFact(l).pip = p /\ l \in Topic
      BY <3>1, Setting DEF Grounded, EscheatInHand
    <3>3. /\ ahead[l] + 1 \in 1..Len(log[l]) /\ NextFact(l) = log[l][ahead[l] + 1]
          /\ log[l] \in Seq(Fact)
      BY <1>3, <3>2, NextFactIs
    <3>4. ahead[l] + 1 \in DOMAIN log[l]  BY <3>3
    <3>5. p \notin alive  BY <3>2, <3>3, <3>4 DEF Grounded, TheDeadAreDead
    <3>6. Gap(p)' = Gap(p)  BY <1>6, <3>5
    <3> QED BY <1>2, <3>1, <3>6 DEF Accounted
  <2>3. replica'[Treasury] = balance'[Treasury] + Unissued' + SumOver(Gaps', Pip)
    <3>1. \A p \in Pip : e[p] \in Int  OBVIOUS
    <3>2. /\ SumOver(Gaps', Pip) = SumOver(Gaps, Pip) + SumOver(e, Pip)
          /\ SumOver(Gaps, Pip) \in Int /\ SumOver(e, Pip) \in Int
      BY <1>3, <1>5, <3>1, LeadsMove
    <3> DEFINE b == balance[Treasury]
               r == replica[Treasury]
               s == replica'[Treasury]
               i == ToIssueIn(intents)
               u == Unissued
               v == Unissued'
               w == Endowed
               g == SumOver(Gaps, Pip)
               h == SumOver(e, Pip)
    <3>3. /\ ToIssueIn(intents') = 0 /\ Endowed' = w /\ balance'[Treasury] = b
      BY <1>2, ToIssueNothing DEF Endowed
    <3>4. CountedIssues /\ CountedIssues'  BY <1>3 DEF AllCounted
    <3>5. b \in Int /\ r \in Int /\ s \in Int /\ i \in Int /\ w \in Int /\ u = i + w
      BY <3>4 DEF CountedIssues
    <3>6. v = 0 + w  BY <3>3 DEF Unissued
    <3>7. r = b + u + g  BY DEF Accounted
    <3>8. s = r - i + h  BY <1>4
    <3> HIDE DEF b, r, s, i, u, v, w, g, h
    <3>9. g \in Int /\ h \in Int  BY <3>2 DEF g, h
    <3>10. s = b + v + (g + h)  BY <3>5, <3>6, <3>7, <3>8, <3>9
    <3> QED BY <3>2, <3>3, <3>10 DEF b, s, v, g, h
  <2> QED BY <2>1, <2>2, <2>3 DEF Accounted
<1> QED BY <1>8

\* A death that is published is a death still.
LEMMA PublishMourns ==
    ASSUME Sound, Publish, upsets' = {}
    PROVE  \A p : Mourned(p) => Mourned(p)'
<1> DEFINE f == Head(outbox)
           t == f.topic
           l == "lifecycle"
           s == log[l]
           r == log'[l]
<1>1. /\ outbox # << >> /\ outbox' = Tail(outbox)
      /\ log' = [log EXCEPT ![t] = Append(@, f)]
  BY DEF Publish, Upset
<1>2. LogOK /\ outbox \in Seq(Fact) /\ l \in Topic  BY SoundIs, Setting DEF Found
<1>3. /\ f = outbox[1] /\ Len(outbox) \in Nat /\ DOMAIN outbox = 1..Len(outbox)
      /\ DOMAIN outbox' = 1..Len(outbox) - 1 /\ f \in Fact
      /\ \A n \in 1..Len(outbox) - 1 : outbox'[n] = outbox[n + 1]
  BY <1>1, <1>2
<1>4. t # l => r = s  BY <1>1, <1>2 DEF LogOK
<1>5. t = l => r = Append(s, f)  BY <1>1, <1>2 DEF LogOK
<1>6. s \in Seq(Fact)  BY <1>2 DEF LogOK
<1>7. ASSUME NEW p, DeathIn(s, p) PROVE DeathIn(r, p)
  <2>1. CASE t # l  BY <1>4, <1>7, <2>1
  <2>2. CASE t = l
    <3>1. r = Append(s, f) /\ f.topic = "lifecycle"  BY <1>5, <2>2
    <3>2. DeathIn(s, p)  BY <1>7
    <3> HIDE DEF f, s, r
    <3>3. DeathIn(r, p)  BY <1>3, <1>6, <3>1, <3>2, DeathAppended
    <3> QED BY <3>3
  <2> QED BY <2>1, <2>2
<1>8. ASSUME NEW p, DeathIn(outbox, p) PROVE DeathIn(outbox', p) \/ DeathIn(r, p)
  <2>1. PICK n \in 1..Len(outbox) :
           outbox[n].topic = l /\ outbox[n].pip = p /\ ~outbox[n].done
    BY <1>3, <1>8 DEF DeathIn
  <2>2. CASE n = 1
    <3>1. t = l /\ f.pip = p /\ ~f.done  BY <1>3, <2>1, <2>2
    <3>2. r = Append(s, f)  BY <1>5, <3>1
    <3>3. f.topic = "lifecycle"  BY <3>1
    <3> HIDE DEF f, s, r
    <3>4. DeathIn(r, p)  BY <1>3, <1>6, <3>1, <3>2, <3>3, DeathAppended
    <3> QED BY <3>4
  <2>3. CASE n # 1
    <3> DEFINE m == n - 1
    <3>1. m \in 1..Len(outbox) - 1 /\ m + 1 = n  BY <1>3, <2>3
    <3> HIDE DEF m
    <3>2. m \in DOMAIN outbox' /\ outbox'[m] = outbox[n]  BY <1>3, <3>1
    <3> QED BY <2>1, <3>2 DEF DeathIn
  <2> QED BY <2>2, <2>3
<1> QED BY <1>7, <1>8 DEF Mourned

LEMMA CoreMeets ==
    ASSUME Sound, Sound', Grounded, upsets = {}, upsets' = {},
           Accounted, Grew, Core
    PROVE  Accounted'
<1>1. ASSUME NEW dying \in SUBSET alive, NEW here,
             NEW hungry \in SUBSET (alive \ dying), Tick(here, dying, hungry)
      PROVE  Accounted'
  BY <1>1, TickMeets
<1>2. CASE Publish
  <2>1. Level  BY <1>2, PublishSettles DEF Settled
  <2>2. escheat' = escheat  BY <1>2 DEF Publish, calls
  <2>3. \A p \in Pip : Mourned(p) => Mourned(p)'  BY <1>2, PublishMourns
  <2> QED BY <2>1, <2>2, <2>3, LevelMeets
<1>3. ~CoreRestarts  BY DEF CoreRestarts, Upset
<1> QED
  <2>1. CASE \E dying \in SUBSET alive :
                \E here \in SUBSET alive, hungry \in SUBSET (alive \ dying) :
                   Tick(here, dying, hungry)
    BY <1>1, <2>1
  <2> QED BY <1>2, <1>3, <2>1 DEF Core

LEMMA GatewayMeets ==
    ASSUME Sound, Sound', upsets = {}, upsets' = {},
           Accounted, Grew, Gateway
    PROVE  Accounted'
<1>1. Level  BY GatewaySettles DEF Settled
<1>2. UNCHANGED <<core, outbox, kafka, escheat>>  BY GatewayApart
<1>3. \A p \in Pip : Mourned(p) => Mourned(p)'  BY <1>2 DEF kafka, Mourned
<1> QED BY <1>1, <1>2, <1>3, LevelMeets

\* What is known of the next death: its pip is dead, and the core owes nothing.
LEMMA NextDeath ==
    ASSUME Sound, Grounded, upsets = {}, Waiting("lifecycle")
    PROVE  /\ NextFact("lifecycle").pip \in Pip \ alive
           /\ \A p \in Pip : Gap(p) <= Held(p)
<1> DEFINE l == "lifecycle"
<1>1. LogOK /\ l \in Topic /\ AllCounted  BY SoundIs, Setting, CountedIs DEF Found
<1>2. /\ ahead[l] + 1 \in 1..Len(log[l]) /\ NextFact(l) = log[l][ahead[l] + 1]
      /\ log[l] \in Seq(Fact) /\ NextFact(l) \in Fact
  BY <1>1, NextFactIs
<1>3. ahead[l] + 1 \in DOMAIN log[l]  BY <1>2
<1>4. NextFact(l).pip \notin alive  BY <1>2, <1>3 DEF Grounded, TheDeadAreDead
<1>5. NextFact(l).pip \in Pip  BY <1>2 DEF Fact
<1>6. ASSUME NEW p \in Pip PROVE Gap(p) <= Held(p)
  <2>1. Counted(p)  BY <1>1 DEF AllCounted
  <2>2. replica[p] >= 0  BY DEF Grounded, NoDebtInTheCore
  <2> QED BY ONLY <2>1, <2>2 DEF Counted
<1> QED BY <1>4, <1>5, <1>6

\* An estate the bank moves is at least what the core has already taken.
LEMMA EstateMeets ==
    ASSUME Sound, Sound', Grounded, upsets = {}, Accounted, Grew,
           BankAlone, escheat # Idle, escheat' = Idle, Inherited,
           \/ Cut("lifecycle") /\ PassedOver("lifecycle") = {}
           \/ Marked("lifecycle", TRUE)
    PROVE  Accounted'
<1> DEFINE q == escheat.pip
           a == escheat.amount
           e == [p \in Pip |-> IF p = q THEN 0 - a ELSE 0]
<1>1. /\ AllCounted /\ AllCounted' /\ LogOK /\ LogOK'
      /\ q \in Pip /\ a \in Nat \ {0}
  <2>1. LogOK'  BY DEF Sound, TypeOK, LogOK
  <2> QED BY <2>1, SoundIs, CallsAre, CountedIs, CountedNext DEF Found
<1>2. Waiting("lifecycle") /\ NextFact("lifecycle").pip = q  BY DEF Grounded, EscheatInHand
<1>3. q \notin alive  BY <1>2, NextDeath
<1>4. UNCHANGED <<alive, replica, outbox, intents, endowment>>
  BY DEF BankAlone, core
<1>5. log'["purchases"] = log["purchases"]  BY OtherTopic
<1>6. \A p \in Pip : /\ p = q => Gap(p)' = Gap(p) - a
                     /\ p # q => Gap(p)' = Gap(p)
  BY <1>5, InheritedGaps
<1>7. \A p \in Pip : Gap(p) \in Int  BY <1>1, GapsInt
<1>9. ASSUME NEW p \in Pip, p = q PROVE Spent(p)'
  <2>1. a + twice[p] >= Gap(p) /\ twice[p] \in Nat  BY <1>9 DEF Accounted, Grew
  <2>2. Gap(p)' = Gap(p) - a /\ Gap(p) \in Int  BY <1>6, <1>7, <1>9
  <2>3. twice'[p] = twice[p] /\ p \notin alive'  BY <1>3, <1>4, <1>9 DEF Inherited
  <2> HIDE DEF q, a
  <2>4. Gap(p)' <= twice'[p]  BY <1>1, <2>1, <2>2, <2>3
  <2> QED BY <2>3, <2>4 DEF Spent
<1>10. Accounted'
  <2>1. ASSUME NEW p \in Pip, Gap(p)' # 0, p # q PROVE Mourned(p)' \/ Spent(p)'
    <3>2. Gap(p)' = Gap(p) /\ Gap(p) # 0  BY <1>6, <2>1
    <3>3. Mourned(p) \/ Spent(p)  BY <3>2 DEF Accounted
    <3>6. Spent(p) => Spent(p)'  BY <1>4, <3>2 DEF Spent, Inherited
    <3>4. DeathIn(outbox, p) => DeathIn(outbox', p)  BY <1>4
    <3>5. DeathIn(log["lifecycle"], p) => DeathIn(log'["lifecycle"], p)
      BY <1>1, <1>2, <2>1, DeathsLeft
    <3>7. Mourned(p) => Mourned(p)'  BY <3>4, <3>5 DEF Mourned
    <3> QED BY <3>3, <3>6, <3>7
  <2>2. ~(escheat' # Idle)  OBVIOUS
  <2>3. replica'[Treasury] = balance'[Treasury] + Unissued' + SumOver(Gaps', Pip)
    <3>1. /\ \A p \in Pip : e[p] \in Int
          /\ \A p \in Pip : Gap(p)' = Gap(p) + e[p]
      <4>1. \A p \in Pip : e[p] = IF p = q THEN 0 - a ELSE 0  OBVIOUS
      <4> HIDE DEF e, q, a
      <4> QED BY <1>1, <1>6, <1>7, <4>1
    <3>2. SumOver(e, Pip) = 0 - a
      <4> DEFINE z == [p \in Pip |-> 0]
      <4>1. /\ \A p \in Pip : z[p] = 0
            /\ \A p \in Pip : e[p] = z[p] + (IF p = q THEN 0 - a ELSE 0)
        BY <1>1
      <4>2. SumOver(z, Pip) = 0  BY <4>1, Setting, SumZero
      <4>3. Changed(z, e, Pip, q, 0 - a)  BY <4>1 DEF Changed
      <4>4. 0 - a \in Int /\ IsFiniteSet(Pip)  BY <1>1, Setting
      <4> HIDE DEF z, e, q, a
      <4>5. SumOver(e, Pip) = SumOver(z, Pip) + (0 - a)
        BY ONLY <1>1, <4>1, <4>3, <4>4, SumChanged
      <4> QED BY <1>1, <4>2, <4>5
    <3> HIDE DEF e
    <3>3. /\ SumOver(Gaps', Pip) = SumOver(Gaps, Pip) + SumOver(e, Pip)
          /\ SumOver(Gaps, Pip) \in Int
      BY <1>1, <3>1, LeadsMove
    <3>4. CountedIssues  BY <1>1 DEF AllCounted
    <3> DEFINE b == balance[Treasury]
               c == balance'[Treasury]
               r == replica[Treasury]
               u == Unissued
               g == SumOver(Gaps, Pip)
    <3>5. replica'[Treasury] = r /\ Unissued' = u  BY <1>4 DEF Unissued, Endowed
    <3>6. c = b + a  BY DEF Inherited
    <3>7. b \in Int /\ r \in Int /\ u \in Int  BY <3>4 DEF CountedIssues
    <3>8. r = b + u + g  BY DEF Accounted
    <3> HIDE DEF b, c, r, u, g, q, a
    <3>9. g \in Int  BY <3>3 DEF g
    <3>10. r = c + u + (g + (0 - a))  BY <1>1, <3>6, <3>7, <3>8, <3>9
    <3> QED BY <3>2, <3>3, <3>5, <3>10 DEF c, g
  <2>4. \A p \in Pip : Gap(p)' # 0 => Mourned(p)' \/ Spent(p)'  BY <1>9, <2>1
  <2> QED BY <2>2, <2>3, <2>4 DEF Accounted
<1> QED BY <1>10

LEMMA ConsumersMeet ==
    ASSUME Sound, Sound', Grounded, upsets = {}, upsets' = {},
           Accounted, Grew, Consumers
    PROVE  Accounted'
<1>1. /\ LogOK /\ LogOK' /\ CountsOK /\ AllCounted /\ AllCounted'
      /\ "lifecycle" \in Topic /\ "purchases" \in Topic
  <2>1. LogOK'  BY DEF Sound, TypeOK, LogOK
  <2> QED BY <2>1, SoundIs, CountedIs, CountedNext, Setting DEF Found
<1>2. BankAlone /\ UNCHANGED <<alive, outbox>>  BY ConsumersTake DEF Grounded, BankAlone, core
<1>3. ASSUME NEW odd \in SUBSET Upsets, NEW t \in Topic, Waiting(t), Finish(t, odd)
      PROVE  (Cut(t) /\ PassedOver(t) = {}) \/ Marked(t, TRUE)
  BY <1>1, <1>3, FinishIs
<1>4. ASSUME log' = log \/ log'["lifecycle"] = log["lifecycle"],
             NEW p, Mourned(p)
      PROVE  Mourned(p)'
  BY <1>2, <1>4 DEF Mourned
<1>5. ASSUME UNCHANGED <<balance, twice>>, log' = log PROVE Level
  <2>1. \A p \in Pip : DueIn(log'["purchases"], p) = DueIn(log["purchases"], p)
    BY <1>5
  <2> QED BY <1>1, <1>2, <1>5, <2>1, BankStill
<1>6. ASSUME Waiting("purchases"), Post(NextFact("purchases")), escheat' = escheat,
             \/ Cut("purchases") /\ PassedOver("purchases") = {}
             \/ Marked("purchases", TRUE)
      PROVE  Accounted'
  <2>1. Level  BY <1>2, <1>6, PurchaseSettles DEF Grounded
  <2>2. log'["lifecycle"] = log["lifecycle"]  BY <1>1, <1>6 DEF Cut, Marked
  <2>3. \A p \in Pip : Mourned(p) => Mourned(p)'  BY <1>4, <2>2
  <2> QED BY <1>6, <2>1, <2>3, LevelMeets
<1>7. CASE BookPurchase
  <2>1. /\ Waiting("purchases") /\ Post(NextFact("purchases")) /\ escheat' = escheat
        /\ Finish("purchases", Overtaken(NextFact("purchases")))
    BY <1>7 DEF BookPurchase, calls
  <2>2. Overtaken(NextFact("purchases")) \in SUBSET Upsets  BY DEF Overtaken, Upsets
  <2> QED BY <1>1, <1>3, <1>6, <2>1, <2>2
<1>8. CASE EscheatNothing
  <2> DEFINE q == NextFact("lifecycle").pip
  <2>1. /\ escheat = Idle /\ Waiting("lifecycle") /\ balance[q] <= 0
        /\ Finish("lifecycle", {}) /\ UNCHANGED <<balance, twice>> /\ escheat' = escheat
    BY <1>8 DEF EscheatNothing, bank, calls
  <2>2. Spent(q)
    <3>1. q \in Pip \ alive /\ \A p \in Pip : Gap(p) <= Held(p)  BY <2>1, NextDeath
    <3> HIDE DEF q
    <3>2. /\ Held(q) = balance[q] + twice[q] /\ Held(q) \in Int /\ Gap(q) \in Int
          /\ balance[q] \in Int /\ twice[q] \in Nat
      BY <1>1, <3>1 DEF AllCounted, Counted, Grew, Held
    <3>3. Gap(q) <= twice[q]  BY ONLY <2>1, <3>1, <3>2
    <3> QED BY <3>1, <3>3 DEF Spent
  <2>3. (Cut("lifecycle") /\ PassedOver("lifecycle") = {}) \/ Marked("lifecycle", TRUE)
    <3>1. {} \in SUBSET Upsets  OBVIOUS
    <3> QED BY <1>1, <1>3, <2>1, <3>1
  <2>4. Level
    <3>1. \A p \in Pip : DueIn(log'["purchases"], p) = DueIn(log["purchases"], p)
      BY <2>3, OtherTopic
    <3> QED BY <1>1, <1>2, <2>1, <3>1, BankStill
  <2>5. ASSUME NEW p \in Pip, Mourned(p) PROVE Mourned(p)' \/ Spent(p)
    <3>1. CASE p = q  BY <2>2, <3>1
    <3>2. CASE p # q
      <4>1. DeathIn(log["lifecycle"], p) => DeathIn(log'["lifecycle"], p)
        BY <1>1, <2>1, <2>3, <3>2, DeathsLeft
      <4> QED BY <1>2, <2>5, <4>1 DEF Mourned
    <3> QED BY <3>1, <3>2
  <2> QED BY <2>1, <2>4, <2>5, LevelMeets
<1>9. CASE EscheatReads
  <2>1. /\ Waiting("lifecycle") /\ UNCHANGED <<balance, twice>> /\ log' = log
        /\ escheat' = [pip |-> NextFact("lifecycle").pip,
                       tick |-> NextFact("lifecycle").tick,
                       amount |-> balance[NextFact("lifecycle").pip]]
    BY <1>9 DEF EscheatReads, bank, kafka
  <2>2. \A p \in Pip : Gap(p) <= Held(p)  BY <2>1, NextDeath
  <2>3. \A p \in Pip : Held(p) \in Int /\ Gap(p) \in Int
    BY <1>1 DEF AllCounted, Counted
  <2>4. ASSUME NEW p \in Pip, escheat'.pip = p PROVE escheat'.amount + twice[p] >= Gap(p)
    <3>1. escheat'.amount + twice[p] = Held(p)  BY <2>1, <2>4 DEF Held
    <3> QED BY <2>2, <2>3, <3>1
  <2>5. \A p \in Pip : Mourned(p) => Mourned(p)'  BY <1>4, <2>1
  <2> QED BY <1>5, <2>1, <2>4, <2>5, LevelMeets
<1>10. ASSUME escheat # Idle, escheat' = Idle, Move(EscheatKey, escheat.pip, Estate),
              Answer(EscheatKey, escheat.pip, Estate) = "paid",
              \/ Cut("lifecycle") /\ PassedOver("lifecycle") = {}
              \/ Marked("lifecycle", TRUE)
       PROVE  Accounted'
  <2>1. Inherited  BY <1>10, EscheatIs
  <2> QED BY <1>2, <1>10, <2>1, EstateMeets
<1>11. CASE EscheatTransfers
  <2> DEFINE paid == Answer(EscheatKey, escheat.pip, Estate) = "paid"
             odd == IF paid THEN {} ELSE {"escheat_refused"}
  <2>1. /\ escheat # Idle /\ escheat' = Idle /\ Move(EscheatKey, escheat.pip, Estate)
        /\ Finish("lifecycle", odd)
    BY <1>11 DEF EscheatTransfers
  <2>2. odd \in SUBSET Upsets  BY DEF Upsets
  <2>3. Waiting("lifecycle")  BY <2>1 DEF Grounded, EscheatInHand
  <2>4. odd \subseteq upsets'
    <3> HIDE DEF odd
    <3> QED BY <1>1, <2>1, <2>2, <2>3, FinishIs
  <2>5. paid  BY <2>4
  <2>6. (Cut("lifecycle") /\ PassedOver("lifecycle") = {}) \/ Marked("lifecycle", TRUE)
    <3> HIDE DEF odd
    <3> QED BY <1>1, <1>3, <2>1, <2>2, <2>3
  <2> QED BY <1>10, <2>1, <2>5, <2>6
<1>12. ASSUME NEW t \in Topic, HandlingFails(t)
       PROVE  Accounted'
  <2>1. Waiting(t) /\ escheat' = IF t = "lifecycle" THEN Idle ELSE escheat
    BY <1>12 DEF HandlingFails
  <2>2. TRUE \in BOOLEAN /\ FALSE \in BOOLEAN  OBVIOUS
  <2>3. CASE Skip(t, FALSE) /\ UNCHANGED bank
    <3>1. Marked(t, FALSE)  BY <1>1, <2>1, <2>2, <2>3, SkipIs
    <3>2. log'[t] = log[t]  BY <1>1, <2>1, <3>1, SkippedIsDue
    <3>3. \A u \in Topic : log'[u] = log[u]  BY <3>1, <3>2 DEF Marked
    <3>4. UNCHANGED <<balance, twice>>  BY <2>3 DEF bank
    <3>5. \A p \in Pip : DueIn(log'["purchases"], p) = DueIn(log["purchases"], p)
      BY <1>1, <3>3
    <3>6. Level  BY <1>1, <1>2, <3>4, <3>5, BankStill
    <3>7. \A p \in Pip : Mourned(p) => Mourned(p)'  BY <1>1, <1>4, <3>3
    <3> QED BY <2>1, <3>6, <3>7, LevelMeets
  <2>4. CASE t = "purchases" /\ Post(NextFact(t)) /\ Skip(t, TRUE)
    <3>1. Marked(t, TRUE)  BY <1>1, <2>1, <2>2, <2>4, SkipIs
    <3> QED BY <1>6, <2>1, <2>4, <3>1
  <2>5. CASE /\ t = "lifecycle" /\ escheat # Idle
             /\ Answer(EscheatKey, escheat.pip, Estate) = "paid"
             /\ Move(EscheatKey, escheat.pip, Estate) /\ Skip(t, TRUE)
    <3>1. Marked(t, TRUE)  BY <1>1, <2>1, <2>2, <2>5, SkipIs
    <3> QED BY <1>10, <2>1, <2>5, <3>1
  <2> QED BY <1>12, <2>3, <2>4, <2>5 DEF HandlingFails
<1>13. CASE BankRestarts
  <2>1. UNCHANGED <<balance, twice>> /\ log' = log /\ escheat' = Idle
    BY <1>13 DEF BankRestarts, bank
  <2>2. \A p \in Pip : Mourned(p) => Mourned(p)'  BY <1>4, <2>1
  <2> QED BY <1>5, <2>1, <2>2, LevelMeets
<1> QED BY <1>7, <1>8, <1>9, <1>11, <1>12, <1>13 DEF Consumers

LEMMA StayMet ==
    ASSUME Sound, Grounded, BooksMeet, [Next]_vars
    PROVE  BooksMeet'
<1>1. Sound' /\ upsets \subseteq upsets'  BY GroundedStep
<1> SUFFICES ASSUME upsets' = {} PROVE Accounted'
  BY DEF BooksMeet
<1>2. upsets = {}  BY <1>1
<1>3. Accounted /\ Grew  BY <1>2, TwiceGrows DEF BooksMeet
<1>4. CASE UNCHANGED vars
  <2>1. UNCHANGED <<alive, balance, twice, replica, intents, outbox, log, payroll, endowment, escheat>>
    BY <1>4 DEF vars, core, kafka, bank, calls
  <2>2. /\ Gaps' = Gaps /\ Unissued' = Unissued
        /\ \A p \in Pip : Gap(p)' = Gap(p)
        /\ \A p \in Pip : Mourned(p) => Mourned(p)'
        /\ \A p \in Pip : Spent(p) => Spent(p)'
    BY <2>1 DEF Gaps, Gap, Held, Spent, Unbooked, Uncredited, Mirrored, Mourned, Unissued, Endowed
  <2> QED BY <1>3, <2>1, <2>2 DEF Accounted
<1>5. CASE Core  BY <1>1, <1>2, <1>3, <1>5, CoreMeets
<1>6. CASE Gateway  BY <1>1, <1>2, <1>3, <1>6, GatewayMeets
<1>7. CASE Consumers  BY <1>1, <1>2, <1>3, <1>7, ConsumersMeet
<1> QED BY <1>4, <1>5, <1>6, <1>7 DEF Next

\* With nothing on its way, a gap is what one book shows beyond the other.
LEMMA NothingBetween ==
    ASSUME Sound, ~InFlight
    PROVE  /\ \A p \in Pip : Gap(p) = Held(p) - replica[p] /\ ~Mourned(p)
           /\ Unissued = 0
<1>1. /\ outbox = << >> /\ intents = << >> /\ payroll = Idle /\ endowment = Idle
      /\ log["purchases"] = << >> /\ log["lifecycle"] = << >>
  BY Setting DEF InFlight
<1>2. ASSUME NEW p \in Pip PROVE Gap(p) = Held(p) - replica[p]
  <2>1. DueIn(outbox, p) = 0 /\ DueIn(log["purchases"], p) = 0 /\ OwedIn(intents, p) = 0
    BY <1>1, DueNothing, OwedNothing
  <2>2. Mirrored(p) = 0  BY <1>1 DEF Mirrored
  <2>3. Counted(p)  BY CountedIs DEF AllCounted
  <2> QED BY ONLY <2>1, <2>2, <2>3 DEF Counted
<1>3. \A p \in Pip : ~Mourned(p)  BY <1>1 DEF Mourned, DeathIn
<1>4. Unissued = 0  BY <1>1, ToIssueNothing DEF Unissued, Endowed
<1> QED BY <1>2, <1>3, <1>4

\* With nothing on its way and all accounted for, the books are as far apart as
\* the purchases that were booked twice.
LEMMA BooksApart ==
    ASSUME Sound, ~InFlight, Accounted, \A p \in Pip : Held(p) >= 0,
           \A p \in Pip \ alive : replica[p] = 0
    PROVE  /\ balance[Farm] = replica[Farm] + SumOf(twice)
           /\ \A p \in alive : balance[p] = replica[p] - twice[p]
           /\ \A p \in Pip \ alive : balance[p] \in -twice[p] .. 0
<1>1. /\ balance \in Book /\ replica \in Book /\ twice \in [Pip -> Nat]
      /\ SumOf(balance) = 0 /\ SumOf(replica) = 0
      /\ AllCounted /\ alive \subseteq Pip
  BY SoundIs, CountedIs DEF Found, CoreOK, BankOK, Sound, BothBooksClosed
<1>2. \A a \in Account : balance[a] \in Int /\ replica[a] \in Int  BY <1>1 DEF Book
<1>3. ASSUME NEW p \in Pip
      PROVE  /\ Gap(p) = balance[p] + twice[p] - replica[p]
             /\ balance[p] \in Int /\ twice[p] \in Int /\ replica[p] \in Int
             /\ twice[p] >= 0
             /\ Gap(p) # 0 => p \notin alive /\ Gap(p) <= twice[p]
  <2>1. Gap(p) = Held(p) - replica[p] /\ ~Mourned(p)  BY NothingBetween
  <2>2. Gap(p) # 0 => Spent(p)  BY <2>1 DEF Accounted
  <2>3. p \in Account  BY Setting
  <2> QED BY <1>1, <1>2, <2>1, <2>2, <2>3 DEF Held, Spent
<1>4. ASSUME NEW p \in alive PROVE balance[p] = replica[p] - twice[p]
  <2>1. Gap(p) = 0 /\ p \in Pip  BY <1>1, <1>3
  <2> QED BY <1>3, <2>1
<1>5. ASSUME NEW p \in Pip \ alive PROVE balance[p] \in -twice[p] .. 0
  <2>1. replica[p] = 0 /\ balance[p] + twice[p] >= 0  BY DEF Held
  <2>2. /\ balance[p] \in Int /\ twice[p] \in Int /\ twice[p] >= 0
        /\ Gap(p) = balance[p] + twice[p] - replica[p]
        /\ Gap(p) # 0 => Gap(p) <= twice[p]
    BY <1>3
  <2>3. balance[p] + twice[p] <= twice[p]  BY <2>1, <2>2
  <2> QED BY <2>1, <2>2, <2>3
<1>6. balance[Farm] = replica[Farm] + SumOf(twice)
  <2> DEFINE h == [p \in Pip |-> balance[p] + twice[p]]
             x == SumOver(balance, Pip)
             y == SumOver(replica, Pip)
             t == SumOver(twice, Pip)
             g == SumOver(Gaps, Pip)
             b == balance[Farm]
             c == balance[Treasury]
             f == replica[Farm]
             s == replica[Treasury]
  <2>1. 0 = b + c + x /\ 0 = f + s + y
    <3>1. SumOf(balance) = b + c + x  BY <1>1, BookSplit DEF Book
    <3>2. SumOf(replica) = f + s + y  BY <1>1, BookSplit DEF Book
    <3> QED BY <1>1, <3>1, <3>2
  <2>2. s = c + 0 + g  BY NothingBetween DEF Accounted
  <2>3. \A p \in Pip : Gaps[p] = Gap(p)  BY DEF Gaps
  <2>4. \A p \in Pip : /\ balance[p] \in Int /\ twice[p] \in Int /\ replica[p] \in Int
                      /\ h[p] = balance[p] + twice[p] /\ Gaps[p] \in Int
                      /\ h[p] = Gaps[p] + replica[p]
    <3> HIDE DEF h
    <3>1. \A p \in Pip : h[p] = balance[p] + twice[p]  BY DEF h
    <3> QED BY <1>3, <2>3, <3>1
  <2>5. IsFiniteSet(Pip)  BY Setting
  <2>6. SumOver(h, Pip) = x + t
    <3> HIDE DEF h
    <3> QED BY ONLY <2>4, <2>5, SumAdd DEF x, t
  <2>7. SumOver(h, Pip) = g + y
    <3> HIDE DEF h
    <3> QED BY ONLY <2>4, <2>5, SumAdd DEF g, y
  <2>8. x \in Int /\ y \in Int /\ t \in Int /\ g \in Int
    BY ONLY <2>4, <2>5, SumInt DEF x, y, t, g
  <2>9. b \in Int /\ c \in Int /\ f \in Int /\ s \in Int  BY <1>2, Setting
  <2>10. SumOf(twice) = t  BY <1>1 DEF SumOf
  <2> HIDE DEF h, x, y, t, g, b, c, f, s
  <2>11. b = f + t  BY ONLY <2>1, <2>2, <2>6, <2>7, <2>8, <2>9
  <2> QED BY <2>10, <2>11 DEF b, f
<1> QED BY <1>4, <1>5, <1>6

\* Once nothing is on its way the core's book and the bank's differ by exactly the
\* purchases that were booked twice, unless one of the named upsets came between:
\* for any number of pips, ticks and faults, and whatever a failed commit or a
\* restart of the bank made Post book again (payWages, Endow, Post, Escheat and
\* their mirrors in the core).
THEOREM BooksReconcile == Spec => []Reconciled
<1> DEFINE I == Sound /\ Grounded /\ NoDebtAtTheBank /\ BooksMeet
<1>1. Init => I
  <2> SUFFICES ASSUME Init PROVE I  OBVIOUS
  <2>1. /\ \A p \in Pip : Gap(p) = 0
        /\ Unissued = 0 /\ balance[Treasury] = 0 /\ replica[Treasury] = 0
    BY NothingOnTheWay
  <2>2. SumOver(Gaps, Pip) = 0
    <3>1. \A p \in Pip : Gaps[p] = 0  BY <2>1 DEF Gaps
    <3> QED BY <3>1, Setting, SumZero
  <2>3. replica[Treasury] = balance[Treasury] + Unissued + SumOver(Gaps, Pip)
    BY <2>1, <2>2
  <2>4. escheat = Idle  BY DEF Init
  <2>5. Accounted  BY <2>1, <2>3, <2>4 DEF Accounted
  <2>6. \A p \in Pip : Held(p) = 0  BY Setting DEF Init, Held
  <2>7. NoDebtAtTheBank  BY <2>6 DEF NoDebtAtTheBank
  <2> QED BY <2>5, <2>7, SoundInit, GroundedInit DEF BooksMeet
<1>2. I /\ [Next]_vars => I'  BY GroundedStep, StayOutOfDebt, StayMet
<1>3. I => Reconciled
  <2> SUFFICES ASSUME I, ~InFlight, upsets = {}
               PROVE  Reconciled
    BY DEF Reconciled
  <2>1. \A p \in Pip \ alive : replica[p] = 0  BY DEF Grounded, NoDebtInTheCore
  <2>2. Accounted /\ \A p \in Pip : Held(p) >= 0  BY DEF BooksMeet, NoDebtAtTheBank
  <2> QED BY <2>1, <2>2, BooksApart DEF Reconciled
<1> HIDE DEF I
<1> QED BY <1>1, <1>2, <1>3, PTL DEF Spec
=============================================================================
