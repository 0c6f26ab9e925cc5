----------------------------- MODULE MCPostgres -----------------------------
(***************************************************************************)
(* One farm and two pips.  The farm can be endowed, it can pay both pips   *)
(* or one of them; a pip's death can return its purse, its purchase can be *)
(* booked.                                                                 *)
(***************************************************************************)
EXTENDS PostgresLedger

CONSTANTS farm, p1, p2, f1

MCAccount == {farm, p1, p2, Treasury}
\* "pip:1" < "pip:2" < "treasury" < "workplace:1" as strings.
MCRank == [a \in MCAccount |-> CASE a = p1 -> 1
                                 [] a = p2 -> 2
                                 [] a = Treasury -> 3
                                 [] a = farm -> 4]
Endow == [payer |-> Treasury, payee |-> farm, amount |-> 4,
          kind |-> "ISSUANCE", tick |-> 1]
Escheat == [payer |-> p1, payee |-> Treasury, amount |-> 2,
            kind |-> "ESCHEAT", tick |-> 1]
Wage == [payer |-> farm, payee |-> p1, amount |-> 3, kind |-> "WAGE", tick |-> 1]
Payroll == [payer |-> farm, credits |-> [p \in {p1, p2} |-> 2],
            kind |-> "WAGE", tick |-> 1]
Purchase == [id |-> f1, payer |-> p1, payee |-> farm, amount |-> 1,
             kind |-> "PURCHASE", tick |-> 1]
MCTransfers == {Endow, Escheat, Wage}
MCBatches == {Payroll}
MCFacts == {Purchase}
=============================================================================
