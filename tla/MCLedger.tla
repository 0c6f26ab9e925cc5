------------------------------ MODULE MCLedger ------------------------------
(***************************************************************************)
(* A small bank: one farm, two pips, the calls that endow the farm, pay    *)
(* its payroll, escheat a pip and book its purchases.  No ordering of the  *)
(* calls is imposed.                                                       *)
(***************************************************************************)
EXTENDS Ledger

CONSTANTS farm, p1, p2, f1, f2

MCAccount == {farm, p1, p2, Treasury}
MCTransfers ==
    {[payer |-> Treasury, payee |-> farm, amount |-> 3,
      kind |-> "ISSUANCE", tick |-> t] : t \in Tick}
    \cup {[payer |-> p1, payee |-> Treasury, amount |-> m,
           kind |-> "ESCHEAT", tick |-> 1] : m \in {1, 2}}
MCBatches ==
    {[payer |-> farm, credits |-> [p \in P |-> 2],
      kind |-> "WAGE", tick |-> t] : t \in Tick, P \in {{p1}, {p1, p2}}}
MCFacts ==
    {[id |-> f1, payer |-> p1, payee |-> farm, amount |-> 1,
      kind |-> "PURCHASE", tick |-> 1],
     [id |-> f2, payer |-> p2, payee |-> farm, amount |-> 2,
      kind |-> "PURCHASE", tick |-> 2]}
=============================================================================
