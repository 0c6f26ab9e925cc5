------------------------------ MODULE MemStore ------------------------------
(***************************************************************************)
(* The farm at one replica: shiftSet behind a mutex (memStore), under the  *)
(* handlers of farm.go.  Every operation is one step and reads the clock   *)
(* inside it, and every claim reaps, whatever becomes of it.               *)
(***************************************************************************)
EXTENDS ShiftStore

\* StartShift, and ConsiderOffer for an offer taken off the queue.
MemClaim(p, t) ==
    LET dead == Expired(clock) IN
    \/ ClaimTaken(p, t, clock, dead)
    \/ ClaimHeld(p, t, dead)
    \/ ClaimFull(p, t, clock, dead)

MemWork(p, t) == Work(p, t, clock)

MemEndShift(p) == EndShift(p)

MemNext ==
    \/ \E p \in Pip :
          \/ \E t \in CallTicks(p) : MemClaim(p, t) \/ MemWork(p, t)
          \/ MemEndShift(p)
    \/ ClockTicks
    \/ WorldSteps
    \/ WorldRestarts

MemSpec == Init /\ [][MemNext]_vars
=============================================================================
